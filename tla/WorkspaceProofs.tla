-------------------------- MODULE WorkspaceProofs --------------------------
(***************************************************************************)
(* Proofs that an undisturbed run leaves the graph of the branch that is   *)
(* checked out as the files are (IndexConverges), and that the check of    *)
(* staleness neither hides a committed change (FreshIsCurrent) nor raises  *)
(* a false alarm (NoFalseAlarm): for any number of files, contents,        *)
(* branches and commands, when runs are of the branch that is checked out. *)
(***************************************************************************)
EXTENDS Workspace, TLAPS

Tree == [Files -> Contents \cup {None}]
Stats == [Files -> Nat \cup {None}]

Run == [pc : {"write", "save"}, branch : Branches, graph : Branches,
        full : BOOLEAN, scan : Stats]

\* The types of what the proof is about: registry and commits recorded are not.
Types ==
  /\ disk \in Tree /\ mtime \in [Files -> Nat] /\ clock \in Nat
  /\ trees \in Seq(Tree)
  /\ tip \in [Branches -> 1..Len(trees)]
  /\ head \in Branches
  /\ prints \in [Branches -> Stats]
  /\ graph \in [Branches -> Tree]
  /\ rooted \subseteq Branches
  /\ run = [pc |-> "idle"] \/ run \in Run
  /\ quiet \in BOOLEAN

Running == run.pc \in {"write", "save"}

\* No stat is of the future, so what is written now gets one of its own.
Times ==
  \A f \in Files :
    /\ mtime[f] <= clock
    /\ \A b \in Branches : prints[b][f] # None => prints[b][f] <= clock
    /\ Running /\ run.scan[f] # None => run.scan[f] <= clock

\* Files that look unchanged are in the graph as they are on disk, and a graph
\* has no other files than its fingerprints; except while the fingerprints
\* of what was written have still to be saved.
Follows ==
  \A b \in rooted, f \in Files :
    ~(run.pc = "save" /\ run.graph = b) =>
      /\ prints[b][f] = mtime[f] => graph[b][f] = disk[f]
      /\ prints[b][f] = None /\ Known(b) # {} => graph[b][f] = None

\* A run that is not full has a graph and fingerprints to start from.
Chosen ==
  /\ Running => run.graph = run.branch
  /\ run.pc = "write" /\ ~run.full => run.graph \in rooted /\ Known(run.branch) # {}

\* What a run has written agrees with the stats that it will save.
Written ==
  run.pc = "save" =>
    /\ run.graph \in rooted
    /\ \A f \in Files :
         /\ run.scan[f] = mtime[f] => graph[run.graph][f] = disk[f]
         /\ run.scan[f] = None => graph[run.graph][f] = None

\* As long as nothing has changed, the scan is of the files on disk.
Undisturbed ==
  Running /\ quiet =>
    /\ run.branch = head
    /\ \A f \in Files : run.scan[f] = IF disk[f] = None THEN None ELSE mtime[f]

\* Fingerprints are found where a file of them was saved.
Stored == \A b \in Branches : Known(b) # {} => b \in saved

\* The fingerprints of an index just made are the stats of the files.
UpToDate ==
  JustIndexed =>
    /\ head \in saved
    /\ \A f \in Files : prints[head][f] = IF disk[f] = None THEN None ELSE mtime[f]

Inv ==
  /\ Types /\ Times /\ Follows /\ Chosen /\ Written /\ Undisturbed /\ Stored
  /\ IndexConverges /\ UpToDate

----------------------------------------------------------------------------
LEMMA NoneIsNoTime ==
  /\ \A n \in Nat : n # None
  /\ \A v \in Contents : v # None
BY WorkspaceAssumption

LEMMA InitInv == Init => Inv
<1> SUFFICES ASSUME Init PROVE Inv
  OBVIOUS
<1>1. trees \in Seq(Tree) /\ Len(trees) \in Nat /\ 1 <= Len(trees)
  BY WorkspaceAssumption DEF Init, Tree
<1>2. trees[1] \in Tree
  BY <1>1
<1>3. tip \in [Branches -> 1..Len(trees)]
  BY <1>1 DEF Init
<1>4. Types
  BY <1>1, <1>2, <1>3, WorkspaceAssumption DEF Init, Types, Tree, Stats, Empty
<1>5. /\ Times /\ Follows /\ Chosen /\ Written /\ Undisturbed
      /\ IndexConverges /\ UpToDate
  BY DEF Init, Times, Follows, Chosen, Written, Undisturbed, Running, Empty,
         IndexConverges, UpToDate, JustIndexed
<1>6. Stored
  BY DEF Init, Stored, Known, Empty
<1> QED
  BY <1>4, <1>5, <1>6 DEF Inv

----------------------------------------------------------------------------
(* The developer.                                                          *)

LEMMA PutTypes ==
  ASSUME Types, NEW S, NEW contents \in Tree, Put(S, contents)
  PROVE  disk' \in Tree /\ mtime' \in [Files -> Nat] /\ clock' \in Nat /\ quiet' \in BOOLEAN
<1>1. clock' \in Nat /\ quiet' = FALSE
  BY DEF Put, Types
<1>2. disk' \in Tree
  BY DEF Put, Types, Tree
<1>3. mtime' \in [Files -> Nat]
  BY <1>1 DEF Put, Types
<1> QED
  BY <1>1, <1>2, <1>3

\* What is written has a stat that nobody has seen before.
LEMMA PutInv ==
  ASSUME Inv, NEW S, NEW contents \in Tree, Put(S, contents), Types',
         UNCHANGED <<prints, saved, graph, rooted, run>>
  PROVE  Inv'
<1> USE DEF Inv
<1>1. /\ clock' = clock + 1 /\ clock \in Nat
      /\ \A f \in Files : f \notin S => disk'[f] = disk[f] /\ mtime'[f] = mtime[f]
      /\ \A f \in Files : f \in S => mtime'[f] = clock'
      /\ quiet' = FALSE
  BY DEF Put, Types
<1>2. \A f \in Files : mtime[f] \in Nat /\ mtime'[f] \in Nat
  BY DEF Types
<1>3. \A b \in Branches, f \in Files : prints[b][f] \in Nat \cup {None}
  BY DEF Types, Stats
<1>4. Running => \A f \in Files : run.scan[f] \in Nat \cup {None}
  BY DEF Types, Stats, Running, Run
<1>5. Running' <=> Running
  BY DEF Running
<1>6. Times'
  <2> SUFFICES ASSUME NEW f \in Files
               PROVE  /\ mtime'[f] <= clock'
                      /\ \A b \in Branches : prints[b][f] # None => prints[b][f] <= clock'
                      /\ Running /\ run.scan[f] # None => run.scan[f] <= clock'
    BY <1>5 DEF Times
  <2>1. mtime'[f] <= clock'
    BY <1>1, <1>2 DEF Times
  <2>2. \A b \in Branches : prints[b][f] # None => prints[b][f] <= clock'
    BY <1>1, <1>3 DEF Times
  <2>3. Running /\ run.scan[f] # None => run.scan[f] <= clock'
    BY <1>1, <1>4 DEF Times
  <2> QED
    BY <2>1, <2>2, <2>3
<1>7. ASSUME NEW f \in Files, NEW t \in Nat \cup {None}, t # None => t <= clock,
             t = mtime'[f]
      PROVE  t = mtime[f] /\ disk'[f] = disk[f]
  <2>1. t # None /\ t <= clock
    BY <1>2, <1>7, NoneIsNoTime
  <2>2. f \notin S
    BY <1>1, <1>7, <2>1, NoneIsNoTime
  <2> QED
    BY <1>1, <1>7, <2>2
<1>8. Follows'
  <2> SUFFICES ASSUME NEW b \in rooted, NEW f \in Files, ~(run.pc = "save" /\ run.graph = b)
               PROVE  /\ prints[b][f] = mtime'[f] => graph[b][f] = disk'[f]
                      /\ prints[b][f] = None /\ Known(b) # {} => graph[b][f] = None
    BY DEF Follows, Known
  <2>1. b \in Branches
    BY DEF Types
  <2>2. ASSUME prints[b][f] = mtime'[f] PROVE graph[b][f] = disk'[f]
    <3>1. prints[b][f] = mtime[f] /\ disk'[f] = disk[f]
      BY <1>3, <1>7, <2>1, <2>2 DEF Times
    <3> QED
      BY <3>1 DEF Follows
  <2> QED
    BY <2>2 DEF Follows
<1>9. Chosen'
  BY <1>5 DEF Chosen, Known
<1>10. Written'
  <2> SUFFICES ASSUME run.pc = "save", NEW f \in Files, run.scan[f] = mtime'[f]
               PROVE  graph[run.graph][f] = disk'[f]
    BY DEF Written
  <2>1. Running
    BY DEF Running
  <2>2. run.scan[f] = mtime[f] /\ disk'[f] = disk[f]
    BY <1>4, <1>7, <2>1 DEF Times
  <2> QED
    BY <2>2 DEF Written
<1>11. Undisturbed' /\ IndexConverges' /\ UpToDate'
  BY <1>1 DEF Undisturbed, IndexConverges, UpToDate, JustIndexed
<1>12. Stored'
  BY DEF Stored, Known
<1> QED
  BY <1>6, <1>8, <1>9, <1>10, <1>11, <1>12

LEMMA EditInv ==
  ASSUME Inv, NEW f \in Files, NEW v \in Contents \cup {None}, Edit(f, v)
  PROVE  Inv'
<1>1. [disk EXCEPT ![f] = v] \in Tree
  BY DEF Inv, Types, Tree
<1>2. Put({f}, [disk EXCEPT ![f] = v])
  BY DEF Edit
<1>3. UNCHANGED <<trees, tip, head, prints, saved, graph, rooted, run>>
  BY DEF Edit, git, kept, stored
<1>4. Types'
  BY <1>1, <1>2, <1>3, PutTypes DEF Inv, Types
<1> QED
  BY <1>1, <1>2, <1>3, <1>4, PutInv

LEMMA CommitInv ==
  ASSUME Inv, NEW S \in SUBSET Files, Commit(S)
  PROVE  Inv'
<1> USE DEF Inv
<1>1. head \in Branches /\ tip[head] \in 1..Len(trees)
  BY DEF Types
<1>2. HeadTree \in Tree
  BY <1>1 DEF Types, HeadTree
<1> DEFINE new == [f \in Files |-> IF f \in S THEN disk[f] ELSE HeadTree[f]]
<1>3. new \in Tree
  BY <1>2 DEF Types, Tree
<1> HIDE DEF new
<1>4. trees' = Append(trees, new) /\ trees \in Seq(Tree)
  BY DEF Commit, Types, new
<1>5. trees' \in Seq(Tree) /\ Len(trees') = Len(trees) + 1 /\ Len(trees) \in Nat
  BY <1>3, <1>4
<1>6. tip' \in [Branches -> 1..Len(trees')]
  BY <1>5 DEF Types, Commit
<1>7. /\ UNCHANGED <<disk, mtime, clock, head, prints, saved, graph, rooted, run>>
      /\ quiet' = FALSE
  BY DEF Commit, tree, kept, stored
<1>8. Types'
  BY <1>5, <1>6, <1>7 DEF Types
<1>9. Times' /\ Follows' /\ Chosen' /\ Written' /\ Stored'
  BY <1>7 DEF Times, Follows, Chosen, Written, Stored, Running, Known
<1>10. Undisturbed' /\ IndexConverges' /\ UpToDate'
  BY <1>7 DEF Undisturbed, IndexConverges, UpToDate, JustIndexed
<1> QED
  BY <1>8, <1>9, <1>10

LEMMA CheckoutInv ==
  ASSUME Inv, NEW b \in Branches, Checkout(b)
  PROVE  Inv'
<1> USE DEF Inv
<1>1. /\ UNCHANGED <<trees, tip, prints, saved, graph, rooted, run>>
      /\ head' = b
  BY DEF Checkout, kept, stored
<1>2. trees[tip[b]] \in Tree
  BY DEF Types
<1> DEFINE differ == {f \in Files : trees[tip[b]][f] # HeadTree[f]}
<1>3. CASE differ = {}
  <2>1. UNCHANGED <<disk, mtime, clock>> /\ quiet' = FALSE
    BY <1>3 DEF Checkout, tree
  <2>2. Types'
    BY <1>1, <2>1 DEF Types
  <2>3. Times' /\ Follows' /\ Chosen' /\ Written' /\ Stored'
    BY <1>1, <2>1 DEF Times, Follows, Chosen, Written, Stored, Running, Known
  <2>4. Undisturbed' /\ IndexConverges' /\ UpToDate'
    BY <2>1 DEF Undisturbed, IndexConverges, UpToDate, JustIndexed
  <2> QED
    BY <2>2, <2>3, <2>4
<1>4. CASE differ # {}
  <2>1. Put(differ, trees[tip[b]])
    BY <1>4 DEF Checkout
  <2>2. Types'
    BY <1>1, <1>2, <2>1, PutTypes DEF Types
  <2> QED
    BY <1>1, <1>2, <2>1, <2>2, PutInv
<1> QED
  BY <1>3, <1>4

----------------------------------------------------------------------------
(* An index run.                                                           *)

LEMMA StartInv ==
  ASSUME Inv, Named = FALSE, NEW b \in Branches, NEW force \in BOOLEAN, Start(b, force)
  PROVE  Inv'
<1> USE DEF Inv
<1> DEFINE full == FullNeeded(b, GraphBranch, force)
           scan == [f \in Files |-> IF disk[f] = None THEN None ELSE mtime[f]]
<1>1. /\ b = head /\ GraphBranch = head
      /\ run.pc = "idle"
      /\ run' = [pc |-> "write", branch |-> b, graph |-> b, full |-> full, scan |-> scan]
      /\ quiet' = TRUE
      /\ UNCHANGED <<disk, mtime, clock, trees, tip, head, prints, saved, graph, rooted>>
  BY DEF Start, GraphBranch, tree, git, kept, stored
<1>2. full \in BOOLEAN /\ (~full => b \in rooted /\ Known(b) # {})
  BY <1>1 DEF FullNeeded
<1>3. scan \in Stats
  BY DEF Types, Stats
<1>4. \A f \in Files : scan[f] = IF disk[f] = None THEN None ELSE mtime[f]
  OBVIOUS
<1> HIDE DEF full, scan
<1>5. run' \in Run
  BY <1>1, <1>2, <1>3 DEF Run
<1>6. /\ run'.pc = "write" /\ run'.branch = b /\ run'.graph = b
      /\ run'.full = full /\ run'.scan = scan
  BY <1>1
<1>7. Types'
  BY <1>1, <1>5 DEF Types
<1>8. Times'
  BY <1>1, <1>4, <1>6 DEF Times
<1>9. Follows'
  BY <1>1, <1>6 DEF Follows, Known
<1>10. Chosen' /\ Written' /\ Stored'
  BY <1>1, <1>2, <1>6 DEF Chosen, Written, Stored, Known
<1>11. Undisturbed' /\ IndexConverges' /\ UpToDate'
  BY <1>1, <1>4, <1>6 DEF Undisturbed, IndexConverges, UpToDate, JustIndexed
<1> QED
  BY <1>7, <1>8, <1>9, <1>10, <1>11

\* What a step of a run may rely on.
LEMMA RunTypes ==
  ASSUME Inv, Running
  PROVE  /\ run \in Run
         /\ run.branch \in Branches /\ run.graph = run.branch
         /\ run.full \in BOOLEAN
         /\ run.scan \in Stats
         /\ graph[run.graph] \in Tree
BY DEF Inv, Types, Running, Chosen, Run

\* The graph of the run is that of the files, as far as the scan is.
LEMMA SaveNext ==
  ASSUME Inv, run.pc = "write", run' = [run EXCEPT !.pc = "save"],
         NEW written \in Tree,
         graph' = [graph EXCEPT ![run.graph] = written],
         \A f \in Files : run.scan[f] = mtime[f] => written[f] = disk[f],
         \A f \in Files : run.scan[f] = None => written[f] = None,
         rooted \subseteq rooted', rooted' \subseteq rooted \cup {run.graph},
         run.graph \in rooted',
         UNCHANGED <<disk, mtime, clock, trees, tip, head, prints, saved, quiet>>
  PROVE  Inv'
<1> USE DEF Inv
<1>1. Running
  BY DEF Running
<1>2. /\ run' \in Run
      /\ run'.pc = "save" /\ run'.branch = run.branch /\ run'.graph = run.graph
      /\ run'.full = run.full /\ run'.scan = run.scan
  BY <1>1, RunTypes DEF Run
<1>3. run.graph \in Branches /\ run.graph = run.branch
  BY <1>1, RunTypes
<1>4. /\ graph'[run.graph] = written
      /\ \A b \in Branches : b # run.graph => graph'[b] = graph[b]
  BY <1>3 DEF Types
<1>5. Types'
  BY <1>2, <1>3 DEF Types, Tree
<1>6. Times'
  BY <1>1, <1>2 DEF Times, Running
<1>7. Follows'
  <2> SUFFICES ASSUME NEW b \in rooted', NEW f \in Files, b # run.graph
               PROVE  /\ prints[b][f] = mtime[f] => graph'[b][f] = disk[f]
                      /\ prints[b][f] = None /\ Known(b) # {} => graph'[b][f] = None
    BY <1>2 DEF Follows, Known
  <2>1. b \in rooted /\ b \in Branches /\ graph'[b] = graph[b]
    BY <1>4 DEF Types
  <2> QED
    BY <2>1 DEF Follows
<1>8. Chosen' /\ Stored'
  BY <1>2, <1>3 DEF Chosen, Stored, Known
<1>9. Written'
  BY <1>2, <1>4 DEF Written
<1>10. Undisturbed' /\ IndexConverges' /\ UpToDate'
  BY <1>1, <1>2 DEF Undisturbed, IndexConverges, UpToDate, JustIndexed, Running
<1> QED
  BY <1>5, <1>6, <1>7, <1>8, <1>9, <1>10

LEMMA WriteFullInv ==
  ASSUME Inv, WriteFull
  PROVE  Inv'
<1> DEFINE written == [f \in Files |-> IF f \in Found THEN disk[f] ELSE None]
<1>1. run.pc = "write" /\ Running
  BY DEF WriteFull, Running
<1>2. /\ run' = [run EXCEPT !.pc = "save"]
      /\ graph' = [graph EXCEPT ![run.graph] = written]
      /\ rooted' = rooted \cup {run.graph}
      /\ UNCHANGED <<disk, mtime, clock, trees, tip, head, prints, saved, quiet>>
  BY DEF WriteFull, tree, git, stored
<1>3. written \in Tree
  BY DEF Inv, Types, Tree
<1>4. \A f \in Files : run.scan[f] = None => written[f] = None
  BY DEF Found
<1>5. \A f \in Files : run.scan[f] = mtime[f] => written[f] = disk[f]
  BY NoneIsNoTime DEF Inv, Types, Found
<1> HIDE DEF written
<1> QED
  BY <1>1, <1>2, <1>3, <1>4, <1>5, SaveNext

LEMMA WriteChangesInv ==
  ASSUME Inv, WriteChanges
  PROVE  Inv'
<1> USE DEF Inv
<1> DEFINE old == graph[run.graph]
           written == [f \in Files |-> CASE f \in Deleted -> None
                                         [] f \in Changed -> disk[f]
                                         [] OTHER -> old[f]]
<1>1. run.pc = "write" /\ ~run.full /\ Running
  BY DEF WriteChanges, Running
<1>2. /\ run \in Run /\ run.branch \in Branches /\ run.graph = run.branch
      /\ run.scan \in Stats /\ old \in Tree
  BY <1>1, RunTypes
<1>3. /\ graph' = [graph EXCEPT ![run.graph] = written]
      /\ UNCHANGED <<disk, mtime, clock, trees, tip, head, prints, saved, rooted, quiet>>
  BY <1>2 DEF WriteChanges, tree, git, stored, Types
<1>4. written \in Tree
  BY <1>2 DEF Types, Tree
<1>5. run.graph \in rooted /\ Known(run.graph) # {}
  BY <1>1, <1>2 DEF Chosen
<1>6. ASSUME NEW f \in Files
      PROVE  /\ prints[run.graph][f] = mtime[f] => old[f] = disk[f]
             /\ prints[run.graph][f] = None => old[f] = None
  BY <1>1, <1>5 DEF Follows
<1>7. ASSUME NEW f \in Files, run.scan[f] = None PROVE written[f] = None
  <2>1. f \notin Found /\ f \notin Changed
    BY <1>7 DEF Found, Changed
  <2>2. f \notin Deleted => prints[run.graph][f] = None
    BY <1>2, <2>1 DEF Deleted, Known
  <2> QED
    BY <1>6, <2>1, <2>2
<1>8. ASSUME NEW f \in Files, run.scan[f] = mtime[f] PROVE written[f] = disk[f]
  <2>1. f \in Found /\ f \notin Deleted
    BY <1>8, NoneIsNoTime DEF Found, Deleted, Types
  <2>2. f \notin Changed => prints[run.graph][f] = mtime[f]
    BY <1>2, <1>8, <2>1 DEF Changed
  <2> QED
    BY <1>6, <2>1, <2>2
<1>9. CASE Changed \cup Deleted # {}
  <2>1. run' = [run EXCEPT !.pc = "save"]
    BY <1>9 DEF WriteChanges
  <2> HIDE DEF written, old, Inv
  <2> QED
    BY <1>1, <1>3, <1>4, <1>5, <1>7, <1>8, <2>1, SaveNext
<1>10. CASE Changed \cup Deleted = {}
  <2>1. run' = [pc |-> "idle"]
    BY <1>10 DEF WriteChanges, Return
  <2>2. written = old
    BY <1>2, <1>10 DEF Tree
  <2>3. graph' = graph
    BY <1>2, <1>3, <2>2 DEF Types
  <2> HIDE DEF written
  <2>4. run'.pc = "idle"
    BY <2>1
  <2>5. Types'
    BY <1>3, <2>1, <2>3 DEF Types
  <2>6. Times' /\ Follows' /\ Chosen' /\ Written' /\ Undisturbed' /\ Stored'
    BY <1>1, <1>3, <2>3, <2>4
       DEF Times, Follows, Chosen, Written, Undisturbed, Stored, Running, Known
  <2>7. IndexConverges'
    <3> SUFFICES ASSUME quiet PROVE head \in rooted /\ graph[head] = disk
      BY <1>3, <2>3 DEF IndexConverges, JustIndexed
    <3>1. head = run.graph
      BY <1>1, <1>2 DEF Undisturbed
    <3>2. ASSUME NEW f \in Files PROVE old[f] = disk[f]
      BY <1>1, <1>7, <1>8, <2>2 DEF Undisturbed
    <3>3. old = disk
      BY <1>2, <3>2 DEF Tree, Types
    <3> QED
      BY <1>5, <3>1, <3>3
  <2>8. UpToDate'
    <3> SUFFICES ASSUME quiet
                 PROVE  /\ head \in saved
                        /\ \A f \in Files :
                             prints[head][f] = IF disk[f] = None THEN None ELSE mtime[f]
      BY <1>3 DEF UpToDate, JustIndexed
    <3>1. /\ head = run.branch
          /\ \A f \in Files :
               run.scan[f] = IF disk[f] = None THEN None ELSE mtime[f]
      BY <1>1 DEF Undisturbed
    <3>2. head \in saved
      BY <1>2, <1>5, <3>1 DEF Stored
    <3>3. \A f \in Files : prints[run.branch][f] = run.scan[f]
      BY <1>10 DEF Changed, Deleted, Found, Known
    <3> QED
      BY <3>1, <3>2, <3>3
  <2> QED
    BY <2>5, <2>6, <2>7, <2>8
<1> QED
  BY <1>9, <1>10

LEMMA SaveInv ==
  ASSUME Inv, Save
  PROVE  Inv'
<1> USE DEF Inv
<1>1. run.pc = "save" /\ Running
  BY DEF Save, Running
<1>2. /\ run.branch \in Branches /\ run.graph = run.branch
      /\ run.scan \in Stats /\ graph[run.graph] \in Tree
  BY <1>1, RunTypes
<1>3. /\ prints' = [prints EXCEPT ![run.graph] = run.scan]
      /\ saved' = saved \cup {run.graph}
      /\ run' = [pc |-> "idle"] /\ run'.pc = "idle"
      /\ UNCHANGED <<disk, mtime, clock, trees, tip, head, graph, rooted, quiet>>
  BY <1>2 DEF Save, Record, Return, tree, git
<1>4. /\ prints'[run.graph] = run.scan
      /\ \A b \in Branches : b # run.graph => prints'[b] = prints[b]
  BY <1>2, <1>3 DEF Types
<1>5. Types'
  BY <1>2, <1>3 DEF Types, Stats
<1>6. Times'
  <2> SUFFICES ASSUME NEW f \in Files, NEW b \in Branches, prints'[b][f] # None
               PROVE  prints'[b][f] <= clock
    BY <1>3 DEF Times, Running
  <2> QED
    BY <1>1, <1>4 DEF Times
<1>7. Follows'
  <2> SUFFICES ASSUME NEW b \in rooted, NEW f \in Files
               PROVE  /\ prints'[b][f] = mtime[f] => graph[b][f] = disk[f]
                      /\ prints'[b][f] = None /\ Known(b)' # {} => graph[b][f] = None
    BY <1>3 DEF Follows
  <2>1. CASE b = run.graph
    BY <1>1, <1>4, <2>1 DEF Written
  <2>2. CASE b # run.graph
    <3>1. b \in Branches /\ prints'[b] = prints[b]
      BY <1>4, <2>2 DEF Types
    <3> QED
      BY <1>1, <2>2, <3>1 DEF Follows, Known
  <2> QED
    BY <2>1, <2>2
<1>8. Chosen' /\ Written' /\ Undisturbed'
  BY <1>3 DEF Chosen, Written, Undisturbed, Running
<1>9. IndexConverges'
  <2> SUFFICES ASSUME quiet PROVE head \in rooted /\ graph[head] = disk
    BY <1>3 DEF IndexConverges, JustIndexed
  <2>1. head = run.graph
    BY <1>1, <1>2 DEF Undisturbed
  <2>2. ASSUME NEW f \in Files PROVE graph[head][f] = disk[f]
    BY <1>1, <2>1 DEF Undisturbed, Written
  <2> QED
    BY <1>1, <1>2, <2>1, <2>2 DEF Written, Tree, Types
<1>10. Stored'
  BY <1>3, <1>4 DEF Stored, Known
<1>11. UpToDate'
  <2> SUFFICES ASSUME quiet PROVE head = run.graph
    BY <1>1, <1>3, <1>4 DEF UpToDate, JustIndexed, Undisturbed
  <2> QED
    BY <1>1, <1>2 DEF Undisturbed
<1> QED
  BY <1>5, <1>6, <1>7, <1>8, <1>9, <1>10, <1>11

----------------------------------------------------------------------------
(* fcg remove.                                                             *)

LEMMA Cleared ==
  ASSUME Inv, Removing,
         NEW some \in SUBSET Branches,
         graph' = [b \in Branches |-> IF b \in some THEN Empty ELSE graph[b]],
         rooted' = rooted \ some,
         \/ UNCHANGED <<prints, saved>>
         \/ prints' = [b \in Branches |-> Empty]
  PROVE  Inv'
<1> USE DEF Inv
<1>1. /\ run.pc = "idle" /\ quiet' = FALSE
      /\ UNCHANGED <<disk, mtime, clock, trees, tip, head, run>>
  BY DEF Removing, tree, git
<1>2. Empty \in Tree /\ Empty \in Stats /\ \A f \in Files : Empty[f] = None
  BY DEF Empty, Tree, Stats
<1>3. Types'
  BY <1>1, <1>2 DEF Types
<1>4. Times'
  BY <1>1, <1>2 DEF Times, Running
<1>5. Follows'
  <2> SUFFICES ASSUME NEW b \in rooted', NEW f \in Files
               PROVE  /\ prints'[b][f] = mtime[f] => graph'[b][f] = disk[f]
                      /\ prints'[b][f] = None /\ Known(b)' # {} => graph'[b][f] = None
    BY <1>1 DEF Follows
  <2>1. b \in Branches /\ b \in rooted /\ graph'[b] = graph[b]
    BY DEF Types
  <2>2. CASE UNCHANGED prints
    BY <1>1, <2>1, <2>2 DEF Follows, Known
  <2>3. CASE prints' = [c \in Branches |-> Empty]
    BY <1>2, <2>1, <2>3, NoneIsNoTime DEF Known, Types
  <2> QED
    BY <2>2, <2>3
<1>6. /\ Chosen' /\ Written' /\ Undisturbed'
      /\ IndexConverges' /\ UpToDate'
  BY <1>1 DEF Chosen, Written, Undisturbed, Running, IndexConverges, UpToDate, JustIndexed
<1>7. Stored'
  BY <1>2 DEF Stored, Known
<1> QED
  BY <1>3, <1>4, <1>5, <1>6, <1>7

LEMMA ClearedGraph ==
  ASSUME Types, NEW b \in Branches, ClearGraph(b)
  PROVE  /\ graph' = [c \in Branches |-> IF c \in {b} THEN Empty ELSE graph[c]]
         /\ rooted' = rooted \ {b}
BY DEF ClearGraph, Types

LEMMA RemovalsInv ==
  ASSUME Inv, (\E b \in Branches : Remove(b)) \/ RemoveGraph \/ RemoveCache
  PROVE  Inv'
<1>1. Types /\ head \in Branches
  BY DEF Inv, Types
<1>2. ASSUME NEW b \in Branches, Remove(b) PROVE Inv'
  BY <1>1, <1>2, ClearedGraph, Cleared DEF Remove, ClearPrints
<1>3. CASE RemoveGraph
  BY <1>1, <1>3, ClearedGraph, Cleared DEF RemoveGraph, stored
<1>4. CASE RemoveCache
  <2>1. graph = [b \in Branches |-> IF b \in {} THEN Empty ELSE graph[b]]
    BY <1>1 DEF Types
  <2> QED
    BY <1>4, <2>1, Cleared DEF RemoveCache, ClearPrints
<1> QED
  BY <1>2, <1>3, <1>4

----------------------------------------------------------------------------
LEMMA StutterInv ==
  ASSUME Inv, UNCHANGED vars
  PROVE  Inv'
BY DEF Inv, vars, tree, git, kept, stored, Types, Times, Follows, Chosen, Written,
       Undisturbed, Stored, IndexConverges, UpToDate, JustIndexed, Running, Known

LEMMA NextInv ==
  ASSUME Inv, Named = FALSE, [Next]_vars
  PROVE  Inv'
<1>1. CASE Developer
  BY <1>1, EditInv, CommitInv, CheckoutInv DEF Developer
<1>2. CASE Index
  BY <1>2, StartInv, WriteFullInv, WriteChangesInv, SaveInv DEF Index
<1>3. CASE (\E b \in Branches : Remove(b)) \/ RemoveGraph \/ RemoveCache
  BY <1>3, RemovalsInv
<1>4. CASE UNCHANGED vars
  BY <1>4, StutterInv
<1> QED
  BY <1>1, <1>2, <1>3, <1>4 DEF Next

\* Whatever was edited, committed, checked out, indexed on other branches or
\* removed before, and over however many files and branches: once an index run
\* (runIndex, handleIndexRepository) of the branch that is checked out has
\* ended and nothing was changed meanwhile, its graph is that of the files.
THEOREM RunsConverge ==
  ASSUME Named = FALSE
  PROVE  Spec => []IndexConverges
<1>1. Inv => IndexConverges
  BY DEF Inv
<1>2. Inv /\ [Next]_vars => Inv'
  BY NextInv
<1> QED
  BY <1>1, <1>2, InitInv, PTL DEF Spec

\* At rest, a graph of a branch that is called fresh has every file which was
\* indexed as it is in the commit the index names as it is now.
LEMMA FreshAtRest ==
  ASSUME Inv, NEW b \in rooted \ packed, run.pc = "idle", ~IsStale(b),
         NEW f \in Files \ Unlisted, graph[b][f] = trees[lastCommit[b]][f]
  PROVE  graph[b][f] = Reference(b)[f]
<1>1. CASE b # head
  BY <1>1 DEF IsStale, StaleElsewhere, Reference
<1>2. CASE b = head
  <2>1. head \in Branches /\ tip[head] # 0 /\ HeadCommit = tip[head]
    BY <1>2 DEF Inv, Types, HeadCommit
  <2>2. Counted(head) = {}
    BY <1>2, <2>1 DEF IsStale, StaleHere
  <2>3. CASE f \in Suspects(head)
    <3>1. prints[head][f] = mtime[f]
      BY <2>2, <2>3 DEF Counted
    <3> QED
      BY <1>2, <3>1 DEF Inv, Follows, Reference
  <2>4. CASE f \notin Suspects(head)
    <3>1. disk[f] = HeadTree[f] /\ trees[lastCommit[head]][f] = HeadTree[f]
      BY <2>1, <2>4 DEF Suspects, ListedDirty, ListedDiff, Dirty, HeadTree
    <3> QED
      BY <1>2, <3>1 DEF Reference
  <2> QED
    BY <2>3, <2>4
<1> QED
  BY <1>1, <1>2

\* An index that CheckIndexStatus calls fresh differs from the working tree in
\* files alone that it took with contents other than those of the commit it
\* names, whatever was edited, committed, checked out or indexed before.
THEOREM FreshIndexIsCurrent ==
  ASSUME Named = FALSE
  PROVE  Spec => []FreshIsCurrent
<1>1. Inv => FreshIsCurrent
  BY FreshAtRest DEF FreshIsCurrent
<1>2. Inv /\ [Next]_vars => Inv'
  BY NextInv
<1> QED
  BY <1>1, <1>2, InitInv, PTL DEF Spec

\* Of an index just made, CheckIndexStatus counts only files that are missing.
THEOREM AlarmsAreReal ==
  ASSUME Named = FALSE
  PROVE  Spec => []NoFalseAlarm
<1>1. Inv => NoFalseAlarm
  <2> SUFFICES ASSUME Inv, JustIndexed
               PROVE  head \in saved /\ \A f \in Counted(head) : disk[f] = None
    BY DEF NoFalseAlarm
  <2>1. head \in saved
    BY DEF Inv, UpToDate
  <2>2. ASSUME NEW f \in Counted(head), disk[f] # None PROVE FALSE
    <3>1. f \in Files
      BY DEF Counted, Suspects, ListedDirty, ListedDiff, Dirty
    <3>2. prints[head][f] = mtime[f] /\ mtime[f] # None
      BY <2>2, <3>1, NoneIsNoTime DEF Inv, UpToDate, Types
    <3> QED
      BY <2>2, <3>2 DEF Counted
  <2> QED
    BY <2>1, <2>2
<1>2. Inv /\ [Next]_vars => Inv'
  BY NextInv
<1> QED
  BY <1>1, <1>2, InitInv, PTL DEF Spec
=============================================================================
