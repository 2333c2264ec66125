----------------------------- MODULE Workspace -----------------------------
(***************************************************************************)
(* A git working copy and what is kept about it: a graph and a file of     *)
(* fingerprints for every branch, and the registry of indexed branches.    *)
(* The developer edits, commits and changes branches at any time; the      *)
(* project is indexed from the command line or over MCP, parts of the      *)
(* index are removed, and somebody asks whether it is stale.               *)
(*                                                                         *)
(* What a run writes into the graph is in IncrementalIndex; here it is the *)
(* content of each file.  Contents have the same size, and every write     *)
(* falls into a second of its own.                                         *)
(***************************************************************************)
EXTENDS Naturals, Sequences

CONSTANTS
  Files, Contents,
  None,          \* no file, no content, no fingerprint
  Branches,
  Main,          \* the branch checked out first
  Nested,        \* files that are alone in their folders
  Named,         \* may "fcg index --branch" name a branch that is not checked out?
  Checkouts,     \* the commits a working copy may start with: the files of each
  MaxTime,       \* bound: writes and checkouts
  MaxCommits,    \* bound: commits, those at the start included
  MaxRemovals    \* bound: fcg remove

ASSUME WorkspaceAssumption ==
  /\ None \notin Contents /\ None \notin Nat
  /\ Main \in Branches
  /\ Nested \subseteq Files
  /\ Named \in BOOLEAN
  /\ Checkouts \subseteq Seq([Files -> Contents \cup {None}]) \ {<<>>}
  /\ MaxTime \in Nat /\ MaxCommits \in Nat /\ MaxRemovals \in Nat

VARIABLES
  disk, mtime, clock,    \* the working tree
  trees,                 \* trees[c]: the files of commit c
  tip, head,             \* the commit of every branch; the branch checked out
  packed,                \* branches whose ref is no file of its own any more
  prints,                \* prints[b]: fingerprints.json of the branch
  saved,                 \* the branches that have one
  lastCommit,            \* LastCommit in it, 0 when none was recorded
  graph, rooted,         \* graph[b]: contents its nodes were made from; graphs with nodes
  registry,              \* registry.json: branches of this project
  run,                   \* the index run that is under way
  quiet,                 \* has nothing been changed since the last run began?
  removals

tree == <<disk, mtime, clock>>
git == <<trees, tip, head, packed>>
stored == <<prints, saved, lastCommit>>
kept == <<stored, graph, rooted, registry>>
vars == <<tree, git, kept, run, quiet, removals>>

HeadTree == trees[tip[head]]
Empty == [f \in Files |-> None]

Init ==
  /\ trees \in Checkouts
  /\ tip = [b \in Branches |-> IF b = Main THEN 1 ELSE Len(trees)]
  /\ head = Main
  /\ packed \in {{}, Branches}
  /\ disk = trees[1]
  /\ mtime = [f \in Files |-> 0] /\ clock = 0
  /\ prints = [b \in Branches |-> Empty] /\ saved = {}
  /\ lastCommit = [b \in Branches |-> 0]
  /\ graph = [b \in Branches |-> Empty] /\ rooted = {}
  /\ registry = {}
  /\ run = [pc |-> "idle"]
  /\ quiet = FALSE
  /\ removals = 0

-----------------------------------------------------------------------------
(* The developer and git, between any two steps of a run.                  *)

\* The files of S are written (or deleted) in the next second.
Put(S, contents) ==
  /\ clock < MaxTime
  /\ clock' = clock + 1
  /\ disk' = [f \in Files |-> IF f \in S THEN contents[f] ELSE disk[f]]
  /\ mtime' = [f \in Files |-> IF f \in S THEN clock' ELSE mtime[f]]
  /\ quiet' = FALSE

\* A file is created, edited, brought back to an earlier content or deleted.
Edit(f, v) ==
  /\ disk[f] # v
  /\ Put({f}, [disk EXCEPT ![f] = v])
  /\ UNCHANGED <<git, kept, run, removals>>

Dirty == {f \in Files : disk[f] # HeadTree[f]}

\* Some of the changes are committed; the ref of the branch is written anew.
Commit(S) ==
  /\ S # {} /\ S \subseteq Dirty
  /\ Len(trees) < MaxCommits
  /\ trees' = Append(trees, [f \in Files |-> IF f \in S THEN disk[f] ELSE HeadTree[f]])
  /\ tip' = [tip EXCEPT ![head] = Len(trees')]
  /\ packed' = packed \ {head}
  /\ quiet' = FALSE
  /\ UNCHANGED <<tree, head, kept, run, removals>>

\* git checkout writes the files in which the branches differ, carries other
\* changes along, and refuses when both would apply to one file.
Checkout(b) ==
  LET differ == {f \in Files : trees[tip[b]][f] # HeadTree[f]}
  IN
  /\ b # head
  /\ differ \cap Dirty = {}
  /\ IF differ = {} THEN UNCHANGED tree /\ quiet' = FALSE ELSE Put(differ, trees[tip[b]])
  /\ head' = b
  /\ UNCHANGED <<trees, tip, packed, kept, run, removals>>

\* readGitHeadCommit reads the file of the ref and knows no packed refs.
HeadCommit == IF head \in packed THEN 0 ELSE tip[head]

-----------------------------------------------------------------------------
(* An index run.  The fingerprints are those of run.branch, the graph that *)
(* of the branch which is checked out when the store is opened.            *)

Known(b) == {f \in Files : prints[b][f] # None}

\* (for a mutant: an empty graph is not noticed)
NoPrints(b, g, force) == force \/ Known(b) = {}

\* shouldFullIndex
FullNeeded(b, g, force) ==
  \/ force
  \/ g \notin rooted
  \/ Known(b) = {}

\* openGraphStore, ResolveGraphName: in a run the configuration names no
\* branch, whatever --branch says.
GraphBranch == head

\* runIndex, handleIndexRepository: the branch is detected unless named, the
\* store is opened, the project is scanned.
Start(b, force) ==
  /\ run.pc = "idle"
  /\ b # head => Named
  /\ run' = [pc |-> "write", branch |-> b, graph |-> GraphBranch,
             full |-> FullNeeded(b, GraphBranch, force),
             scan |-> [f \in Files |-> IF disk[f] = None THEN None ELSE mtime[f]]]
  /\ quiet' = TRUE
  /\ UNCHANGED <<tree, git, kept, removals>>

\* Index returns: the command line registers the branch (Register), the MCP
\* server does not.
Return ==
  /\ \/ registry' = registry \cup {run.branch}
     \/ UNCHANGED registry
  /\ run' = [pc |-> "idle"]

Found == {f \in Files : run.scan[f] # None}
Changed == {f \in Found : prints[run.branch][f] # run.scan[f]}
Deleted == Known(run.branch) \ Found

\* fullIndex: the graph is cleared and every file parsed, as it is by now.
WriteFull ==
  /\ run.pc = "write" /\ run.full
  /\ graph' = [graph EXCEPT ![run.graph] = [f \in Files |-> IF f \in Found THEN disk[f] ELSE None]]
  /\ rooted' = rooted \cup {run.graph}
  /\ run' = [run EXCEPT !.pc = "save"]
  /\ UNCHANGED <<tree, git, stored, registry, quiet, removals>>

\* incrementalIndex: deleted files leave the graph, changed files are parsed.
WriteChanges ==
  /\ run.pc = "write" /\ ~run.full
  /\ graph' = [graph EXCEPT ![run.graph] =
       [f \in Files |-> CASE f \in Deleted -> None [] f \in Changed -> disk[f] [] OTHER -> @[f]]]
  /\ IF Changed \cup Deleted = {}
     THEN Return
     ELSE /\ run' = [run EXCEPT !.pc = "save"]
          /\ UNCHANGED registry
  /\ UNCHANGED <<tree, git, stored, rooted, quiet, removals>>

\* JSONFingerprintStore.Save
Record(b, stats, commit) ==
  /\ prints' = [prints EXCEPT ![b] = stats]
  /\ saved' = saved \cup {b}
  /\ lastCommit' = [lastCommit EXCEPT ![b] = commit]

\* saveFingerprints: the stats of the scan, and the commit of HEAD by now.
Save ==
  /\ run.pc = "save"
  /\ Record(run.branch, run.scan, HeadCommit)
  /\ Return
  /\ UNCHANGED <<tree, git, graph, rooted, quiet, removals>>

-----------------------------------------------------------------------------
(* fcg remove, while no run is under way.                                  *)

Removing ==
  /\ run.pc = "idle"
  /\ removals < MaxRemovals
  /\ removals' = removals + 1
  /\ quiet' = FALSE
  /\ UNCHANGED <<tree, git, run>>

ClearGraph(b) ==
  /\ graph' = [graph EXCEPT ![b] = Empty]
  /\ rooted' = rooted \ {b}

\* The directory of fingerprints goes, with those of all branches.
ClearPrints ==
  /\ prints' = [b \in Branches |-> Empty]
  /\ saved' = {}
  /\ lastCommit' = [b \in Branches |-> 0]

\* fcg remove --id: the graph of one branch, the fingerprints of all.
Remove(b) ==
  /\ Removing
  /\ b \in registry
  /\ ClearGraph(b) /\ ClearPrints
  /\ registry' = registry \ {b}

\* fcg remove --graph: of the branch that is checked out.
RemoveGraph ==
  /\ Removing
  /\ ClearGraph(head)
  /\ UNCHANGED <<stored, registry>>

\* fcg remove --cache
RemoveCache ==
  /\ Removing
  /\ ClearPrints
  /\ UNCHANGED <<graph, rooted, registry>>

-----------------------------------------------------------------------------
(* check_index_status, and the warnings shown with answers.                *)

\* listGitDirtyFiles: an untracked file in a folder without tracked files is
\* reported as its folder, which filterSourceFiles drops.
Unlisted == {f \in Nested : HeadTree[f] = None}
ListedDirty == Dirty \ Unlisted

\* listGitDiffFiles
ListedDiff(c) == {f \in Files : trees[c][f] # HeadTree[f]}

\* (for a mutant: uncommitted changes count only while HEAD stays)
SuspectsOfOne(b) ==
  IF lastCommit[b] = HeadCommit THEN ListedDirty ELSE ListedDiff(lastCommit[b])

Suspects(b) ==
  IF lastCommit[b] = HeadCommit THEN ListedDirty ELSE ListedDiff(lastCommit[b]) \cup ListedDirty

\* (for a mutant: whatever git lists counts, indexed as it is or not)
CountedAll(b) == Suspects(b)

\* Files without a fingerprint (addedCount), and those that are gone or have
\* another stat (modifiedCount).
Counted(b) ==
  {f \in Suspects(b) : prints[b][f] = None \/ disk[f] = None \/ prints[b][f] # mtime[f]}

\* detectSameBranchStaleness; without a commit to start from, what changed on
\* disk is not looked at.
StaleHere ==
  IF lastCommit[head] # 0 /\ HeadCommit # 0
  THEN Counted(head) # {}
  ELSE HeadCommit # lastCommit[head]

\* Of a branch that is not checked out, only the commits are compared;
\* getGitBranchCommit knows packed refs.
StaleElsewhere(b) == lastCommit[b] = 0 \/ tip[b] # lastCommit[b]

\* CheckIndexStatus
IsStale(b) ==
  \/ b \notin saved
  \/ b = head /\ StaleHere
  \/ b # head /\ StaleElsewhere(b)

-----------------------------------------------------------------------------
Developer ==
  \/ \E f \in Files, v \in Contents \cup {None} : Edit(f, v)
  \/ \E S \in SUBSET Files : Commit(S)
  \/ \E b \in Branches : Checkout(b)

Index ==
  \/ \E b \in Branches, force \in BOOLEAN : Start(b, force)
  \/ WriteFull \/ WriteChanges
  \/ Save

Next ==
  \/ Developer
  \/ Index
  \/ \E b \in Branches : Remove(b)
  \/ RemoveGraph \/ RemoveCache

Spec == Init /\ [][Next]_vars

-----------------------------------------------------------------------------
\* The last run was not disturbed, and nothing has changed since.
JustIndexed == run.pc = "idle" /\ quiet

\* Whatever was edited, committed, checked out, indexed on other branches or
\* removed before: once "fcg index" has run, the graph of the branch that is
\* checked out is that of the files on disk.
IndexConverges ==
  JustIndexed => head \in rooted /\ graph[head] = disk

\* What the index of a branch is compared with.
Reference(b) == IF b = head THEN disk ELSE trees[tip[b]]

\* An index that is called fresh differs from the working tree (the last
\* commit, of other branches) in files alone which were not indexed as they
\* are in the commit the index names: those it took uncommitted or
\* half-committed contents of.
FreshIsCurrent ==
  \A b \in rooted \ packed :
    run.pc = "idle" /\ ~IsStale(b) =>
      \A f \in Files \ Unlisted :
        graph[b][f] # Reference(b)[f] => graph[b][f] # trees[lastCommit[b]][f]

\* An index that has just been made is called stale on account of missing
\* files at most: neither edits, new files and commits before the run, nor
\* checkouts, leave a false alarm behind.
NoFalseAlarm ==
  JustIndexed /\ head \notin packed /\ lastCommit[head] # 0 =>
    head \in saved /\ \A f \in Counted(head) : disk[f] = None
=============================================================================
