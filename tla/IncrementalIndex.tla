-------------------------- MODULE IncrementalIndex --------------------------
(***************************************************************************)
(* The index pipeline of internal/service (Indexer.Index): it decides      *)
(* between a full and an incremental run, scans the project, parses files, *)
(* writes the code graph and saves the fingerprints the next run compares  *)
(* with, while the developer keeps editing the files.                      *)
(*                                                                         *)
(* A file is abstracted to the version of its content; a version says      *)
(* which files it imports (IMPORTS edges, between File nodes), which files *)
(* it calls into (CALLS edges, between symbol nodes) and its size.         *)
(***************************************************************************)
EXTENDS Naturals

CONSTANTS
    Files,          \* paths a scan can find
    Versions,       \* contents a file can have
    None,           \* no content, no stat, no node
    ImportsOf,      \* ImportsOf[f][v]: files that version v of f imports
    CallsOf,        \* CallsOf[f][v]: files whose symbols version v of f calls
    SizeOf,         \* SizeOf[f][v]: size in bytes
    UserOps,        \* what the developer does: "edit", "create", "delete"
    SameSecond,     \* may two contents of a file carry the same mtime second?
    ReadFailures,   \* may reading or parsing an existing file fail?
    AllowForce,     \* is "fcg index --force" used?
    AbortsWith,     \* fingerprint files (see fpFile) a run may be cut short with
    MaxTime,        \* bound: seconds the clock can reach
    MaxAborts       \* bound: crashes and error returns of index runs

ASSUME FilesAssumption ==
    /\ None \notin Versions /\ None \notin [mtime : Nat, size : Nat]
    /\ ImportsOf \in [Files -> [Versions -> SUBSET Files]]
    /\ CallsOf \in [Files -> [Versions -> SUBSET Files]]
    /\ SizeOf \in [Files -> [Versions -> Nat]]

ASSUME BoundsAssumption ==
    /\ SameSecond \in BOOLEAN /\ ReadFailures \in BOOLEAN
    /\ AllowForce \in BOOLEAN
    /\ AbortsWith \subseteq {"absent", "torn", "ok"}
    /\ MaxTime \in Nat /\ MaxAborts \in Nat

VARIABLES
    disk,       \* content of every file, None when it does not exist
    mtime,      \* its modification time, in seconds
    clock,
    fpFile,     \* fingerprints.json: "absent", "torn" by a crash, or "ok"
    fps,        \* the fingerprints in it
    rooted,     \* does the graph hold the Repository node?
    fileNodes,  \* files with a File node
    symbols,    \* the version each file's symbol nodes were made from
    imports,    \* IMPORTS edges
    calls,      \* CALLS edges
    pc,         \* where the running Index call is, "idle" when none runs
    scan,       \* scanCtx.files: the stat of every file found
    changed, deleted, affected,
    batch,      \* filesToParse
    todo,       \* files of the batch no worker has read yet
    parsed,     \* parseResults: the version read, None when it failed
    reported,   \* files whose last indexing run listed them in result.Errors
    aborts

project == <<disk, mtime, clock>>
prints == <<fpFile, fps, reported>>
graph == <<rooted, fileNodes, symbols, imports, calls>>
diff == <<changed, deleted, affected>>
run == <<pc, scan, diff, batch, todo, parsed>>
vars == <<project, prints, graph, run, aborts>>

Stat == [mtime : Nat, size : Nat]

\* What the scanner's Walk reports of f: nothing, or seconds and size.
StatOf(f) ==
    IF disk[f] = None
    THEN None
    ELSE [mtime |-> mtime[f], size |-> SizeOf[f][disk[f]]]

Nothing == [f \in Files |-> None]
Scanned == {f \in Files : scan[f] # None}

Init ==
    /\ disk \in [Files -> Versions]
    /\ mtime = [f \in Files |-> 0]
    /\ clock = 0
    /\ fpFile = "absent"
    /\ fps = Nothing
    /\ rooted = FALSE
    /\ fileNodes = {}
    /\ symbols = Nothing
    /\ imports = {}
    /\ calls = {}
    /\ pc = "idle"
    /\ scan = Nothing
    /\ changed = {} /\ deleted = {} /\ affected = {}
    /\ batch = {} /\ todo = {}
    /\ parsed = Nothing
    /\ reported = {}
    /\ aborts = 0

-----------------------------------------------------------------------------
(* The developer.                                                          *)

\* The file is written in second t, the current one or the next.
Stamp(f, t) ==
    /\ t \in {clock, clock + 1}
    /\ t <= MaxTime
    /\ SameSecond \/ mtime[f] < t
    /\ clock' = t
    /\ mtime' = [mtime EXCEPT ![f] = t]

Edit(f, v, t) ==
    /\ "edit" \in UserOps
    /\ disk[f] # None
    /\ Stamp(f, t)
    /\ disk' = [disk EXCEPT ![f] = v]
    /\ UNCHANGED <<prints, graph, run, aborts>>

Create(f, v, t) ==
    /\ "create" \in UserOps
    /\ disk[f] = None
    /\ Stamp(f, t)
    /\ disk' = [disk EXCEPT ![f] = v]
    /\ UNCHANGED <<prints, graph, run, aborts>>

Delete(f) ==
    /\ "delete" \in UserOps
    /\ disk[f] # None
    /\ disk' = [disk EXCEPT ![f] = None]
    /\ UNCHANGED <<mtime, clock, prints, graph, run, aborts>>

-----------------------------------------------------------------------------
(* The graph store.                                                        *)

\* Mutant of Drop: the edges that point at the deleted nodes stay.
DropOutgoing(S) ==
    /\ fileNodes' = fileNodes \ S
    /\ symbols' = [f \in Files |-> IF f \in S THEN None ELSE symbols[f]]
    /\ imports' = {e \in imports : e[1] \notin S}
    /\ calls' = {e \in calls : e[1] \notin S}
    /\ rooted' = rooted

\* DeleteNodesByFile and DeleteNodeByID("file:...") of every file of S:
\* DETACH DELETE takes the edges at both ends along.
Drop(S) ==
    /\ fileNodes' = fileNodes \ S
    /\ symbols' = [f \in Files |-> IF f \in S THEN None ELSE symbols[f]]
    /\ imports' = {e \in imports : e[1] \notin S /\ e[2] \notin S}
    /\ calls' = {e \in calls : e[1] \notin S /\ e[2] \notin S}
    /\ rooted' = rooted

\* writeFileSystemNodes, writeIncrementalFileSystemNodes: the Repository node
\* and a File node for every file of the batch, parsed or not.
PutFileNodes(S) ==
    /\ rooted' = TRUE
    /\ fileNodes' = fileNodes \union S
    /\ UNCHANGED <<symbols, imports, calls>>

\* writeSymbolNodes: nothing is written for a file without a parse result.
PutSymbols(S) ==
    /\ symbols' = [f \in Files |-> IF f \in S THEN parsed[f] ELSE symbols[f]]
    /\ UNCHANGED <<rooted, fileNodes, imports, calls>>

\* ResolveImports matches the imports of the parsed files with the scanned
\* files; CreateEdges MATCHes both File nodes.
PutImports(S) ==
    /\ imports' = imports \union
         {e \in S \X Scanned :
            /\ parsed[e[1]] # None
            /\ e[2] \in ImportsOf[e[1]][parsed[e[1]]]
            /\ {e[1], e[2]} \subseteq fileNodes}
    /\ UNCHANGED <<rooted, fileNodes, symbols, calls>>

\* Mutant of PutCalls: loadAllSymbols is forgotten.
PutCallsToBatch(S) ==
    /\ calls' = calls \union
         {e \in S \X S :
            /\ parsed[e[1]] # None
            /\ e[2] \in CallsOf[e[1]][parsed[e[1]]]
            /\ symbols[e[2]] # None}
    /\ UNCHANGED <<rooted, fileNodes, symbols, imports>>

\* ResolveCalls looks the callees up in the symbol table: the symbols just
\* parsed and those loadAllSymbols read back from the graph.
PutCalls(S) ==
    /\ calls' = calls \union
         {e \in S \X Files :
            /\ parsed[e[1]] # None
            /\ e[2] \in CallsOf[e[1]][parsed[e[1]]]
            /\ symbols[e[2]] # None}
    /\ UNCHANGED <<rooted, fileNodes, symbols, imports>>

-----------------------------------------------------------------------------
(* One Index call.  pc names the stage to be executed next.                *)

Known == {f \in Files : fps[f] # None}
NodeCountZero == ~rooted /\ fileNodes = {} /\ symbols = Nothing

\* shouldFullIndex
FullNeeded(force) ==
    \/ force
    \/ NodeCountZero
    \/ fpFile = "torn"
    \/ Known = {}

Rest ==
    /\ pc' = "idle"
    /\ scan' = Nothing
    /\ changed' = {} /\ deleted' = {} /\ affected' = {}
    /\ batch' = {} /\ todo' = {}
    /\ parsed' = Nothing

\* Index is called: shouldFullIndex, then scanProject.
Start(force) ==
    /\ pc = "idle"
    /\ force => AllowForce
    /\ scan' = [f \in Files |-> StatOf(f)]
    /\ pc' = IF FullNeeded(force) THEN "clear" ELSE "detect"
    /\ UNCHANGED <<project, prints, graph, diff, batch, todo, parsed, aborts>>

\* fullIndex: ClearAll and Migrate; every scanned file will be parsed.
Clear ==
    /\ pc = "clear"
    /\ rooted' = FALSE
    /\ fileNodes' = {}
    /\ symbols' = Nothing
    /\ imports' = {}
    /\ calls' = {}
    /\ batch' = Scanned
    /\ todo' = Scanned
    /\ pc' = "parse"
    /\ UNCHANGED <<project, prints, scan, diff, parsed, aborts>>

\* Mutant of ChangedFiles: the modification time is not compared.
ChangedSize ==
    {f \in Scanned : fps[f] = None \/ fps[f].size # scan[f].size}

\* filterChangedFiles
ChangedFiles == {f \in Scanned : fps[f] # scan[f]}

\* Mutant of Importers: the ends of the edge are mixed up.
Imported(S) == {f \in Scanned \ S : \E g \in S : <<g, f>> \in imports}

\* findImporters: one level of IMPORTS edges.
Importers(S) == {f \in Scanned \ S : \E g \in S : <<f, g>> \in imports}

\* incrementalIndex looks for importers in the graph as it is before anything
\* is deleted.
Detect ==
    /\ pc = "detect"
    /\ changed' = ChangedFiles
    /\ deleted' = Known \ Scanned
    /\ affected' = Importers(changed' \union deleted')
    /\ pc' = "clean"
    /\ UNCHANGED <<project, prints, graph, scan, batch, todo, parsed, aborts>>

\* Mutant of Clean: only the changed files leave the graph.
CleanChanged ==
    /\ pc = "clean"
    /\ Drop(changed)
    /\ IF changed # {} \/ deleted # {}
       THEN /\ pc' = IF changed = {} THEN "save" ELSE "cleanAffected"
            /\ UNCHANGED <<scan, diff, batch, todo, parsed>>
       ELSE Rest
    /\ UNCHANGED <<project, prints, aborts>>

\* Deleted and changed files leave the graph.  With nothing changed the run
\* is over: it returns, after saving the fingerprints if files were deleted.
Clean ==
    /\ pc = "clean"
    /\ Drop(deleted \union changed)
    /\ IF changed # {} \/ deleted # {}
       THEN /\ pc' = IF changed = {} THEN "save" ELSE "cleanAffected"
            /\ UNCHANGED <<scan, diff, batch, todo, parsed>>
       ELSE Rest
    /\ UNCHANGED <<project, prints, aborts>>

\* Mutant of FilesToParse: the affected files are cleaned and left out.
OnlyChanged == changed

\* filesToParse
FilesToParse == changed \union affected

\* Mutant of CleanAffected: workers are fed files that are not in the batch.
CleanAffectedOverfed ==
    /\ pc = "cleanAffected"
    /\ Drop(affected)
    /\ batch' = changed
    /\ todo' = changed \union affected
    /\ pc' = "parse"
    /\ UNCHANGED <<project, prints, scan, diff, parsed, aborts>>

CleanAffected ==
    /\ pc = "cleanAffected"
    /\ Drop(affected)
    /\ batch' = FilesToParse
    /\ todo' = FilesToParse
    /\ pc' = "parse"
    /\ UNCHANGED <<project, prints, scan, diff, parsed, aborts>>

\* A worker of parseFiles reads and parses f, whatever it contains by now.
Parse(f) ==
    /\ pc = "parse"
    /\ f \in todo
    /\ todo' = todo \ {f}
    /\ \E read \in {disk[f]} \union (IF ReadFailures THEN {None} ELSE {}) :
          parsed' = [parsed EXCEPT ![f] = read]
    /\ UNCHANGED <<project, prints, graph, pc, scan, diff, batch, aborts>>

\* Mutant of WriteFileNodes: the collector waits for one result per file.
WriteFileNodesWhenAllParsed ==
    /\ pc = "parse"
    /\ todo = {}
    /\ \A f \in batch : parsed[f] # None
    /\ PutFileNodes(batch)
    /\ pc' = "symbols"
    /\ UNCHANGED <<project, prints, scan, diff, batch, todo, parsed, aborts>>

\* parseFiles is over when its channel is drained, whatever failed to parse.
WriteFileNodes ==
    /\ pc = "parse"
    /\ todo = {}
    /\ PutFileNodes(batch)
    /\ pc' = "symbols"
    /\ UNCHANGED <<project, prints, scan, diff, batch, todo, parsed, aborts>>

WriteSymbols ==
    /\ pc = "symbols"
    /\ PutSymbols(batch)
    /\ pc' = "imports"
    /\ UNCHANGED <<project, prints, scan, diff, batch, todo, parsed, aborts>>

WriteImports ==
    /\ pc = "imports"
    /\ PutImports(batch)
    /\ pc' = "calls"
    /\ UNCHANGED <<project, prints, scan, diff, batch, todo, parsed, aborts>>

WriteCalls ==
    /\ pc = "calls"
    /\ PutCalls(batch)
    /\ pc' = "save"
    /\ UNCHANGED <<project, prints, scan, diff, batch, todo, parsed, aborts>>

\* saveFingerprints ends in os.WriteFile, which truncates the file ...
SaveBegin ==
    /\ pc = "save"
    /\ fpFile' = "torn"
    /\ fps' = Nothing
    /\ pc' = "saving"
    /\ UNCHANGED <<project, reported, graph, scan, diff, batch, todo, parsed,
                   aborts>>

\* Mutant of SaveEnd: files are statted again when the run ends.
SaveEndFreshStat ==
    /\ pc = "saving"
    /\ fpFile' = "ok"
    /\ fps' = [f \in Files |-> StatOf(f)]
    /\ reported' = {f \in Scanned :
                      IF f \in batch THEN parsed[f] = None ELSE f \in reported}
    /\ Rest
    /\ UNCHANGED <<project, graph, aborts>>

\* ... and then fills it: every scanned file, with the stat of the scan.
SaveEnd ==
    /\ pc = "saving"
    /\ fpFile' = "ok"
    /\ fps' = scan
    /\ reported' = {f \in Scanned :
                      IF f \in batch THEN parsed[f] = None ELSE f \in reported}
    /\ Rest
    /\ UNCHANGED <<project, graph, aborts>>

\* The run ends early, at any point: an error is returned or the process
\* dies.  Of the deletions and writes of its stage some are done.
Abort ==
    /\ pc # "idle"
    /\ fpFile \in AbortsWith
    /\ aborts < MaxAborts
    /\ aborts' = aborts + 1
    /\ \/ UNCHANGED graph
       \/ /\ pc = "clear"               \* edge tables are dropped first
          /\ imports' \in {imports, {}} /\ calls' \in {calls, {}}
          /\ UNCHANGED <<rooted, fileNodes, symbols>>
       \/ /\ pc = "clear"               \* and then the node tables
          /\ imports' = {} /\ calls' = {}
          /\ rooted' \in {rooted, FALSE}
          /\ fileNodes' \in {fileNodes, {}}
          /\ symbols' \in {symbols, Nothing}
       \/ /\ pc = "clean"
          /\ \E S \in SUBSET (deleted \union changed) : Drop(S)
       \/ /\ pc = "cleanAffected"
          /\ \E S \in SUBSET affected : Drop(S)
       \/ /\ pc = "parse" /\ todo = {}
          /\ \E S \in SUBSET batch : PutFileNodes(S)
       \/ /\ pc = "symbols"
          /\ \E S \in SUBSET batch : PutSymbols(S)
       \/ /\ pc = "imports"
          /\ \E S \in SUBSET batch : PutImports(S)
       \/ /\ pc = "calls"
          /\ \E S \in SUBSET batch : PutCalls(S)
    /\ Rest
    /\ UNCHANGED <<project, prints>>

Step ==
    \/ Clear
    \/ Detect
    \/ Clean
    \/ CleanAffected
    \/ \E f \in Files : Parse(f)
    \/ WriteFileNodes
    \/ WriteSymbols
    \/ WriteImports
    \/ WriteCalls
    \/ SaveBegin
    \/ SaveEnd

Developer ==
    \E f \in Files :
       \/ \E v \in Versions, t \in {clock, clock + 1} :
             Edit(f, v, t) \/ Create(f, v, t)
       \/ Delete(f)

Next ==
    \/ Developer
    \/ \E force \in BOOLEAN : Start(force)
    \/ Step
    \/ Abort

Spec == Init /\ [][Next]_vars

\* A started Index call runs on (it waits for nobody), and the project is
\* indexed again and again; the developer and crashes may stop.
FairSpec == Spec /\ WF_vars(Step) /\ WF_vars(Start(FALSE))

-----------------------------------------------------------------------------
(* Properties.                                                             *)

Stages == {"clear", "detect", "clean", "cleanAffected", "parse", "symbols",
           "imports", "calls", "save", "saving"}

\* Type invariant of the pipeline, the graph and the fingerprint file.
TypeOK ==
    /\ disk \in [Files -> Versions \union {None}]
    /\ mtime \in [Files -> Nat] /\ clock \in Nat
    /\ fpFile \in {"absent", "torn", "ok"}
    /\ fps \in [Files -> Stat \union {None}]
    /\ rooted \in BOOLEAN
    /\ fileNodes \subseteq Files
    /\ symbols \in [Files -> Versions \union {None}]
    /\ imports \subseteq Files \X Files
    /\ calls \subseteq Files \X Files
    /\ pc \in Stages \union {"idle"}
    /\ scan \in [Files -> Stat \union {None}]
    /\ changed \subseteq Files /\ deleted \subseteq Files
    /\ affected \subseteq Files
    /\ batch \subseteq Files /\ todo \subseteq batch
    /\ parsed \in [Files -> Versions \union {None}]
    /\ reported \subseteq Files
    /\ aborts \in Nat

\* The file is on disk and its fingerprint equals its stat: filterChangedFiles
\* would take it for unchanged.
LooksIndexed(f) == disk[f] # None /\ fps[f] = StatOf(f)

\* A file that looks indexed is never in the graph with another content than
\* the one on disk, in spite of edits between scan, parse and save, and of
\* runs that stop halfway.  (saveFingerprints stores the stat of the scan and
\* not one taken after parsing.)
NeverWrongVersion ==
    \A f \in Files :
       LooksIndexed(f) => symbols[f] \in {None, disk[f]}

\* Between runs, a file the next incremental run will skip as unchanged is in
\* the graph with its content on disk, unless the run that stored its
\* fingerprint reported it as unreadable.
SkippedIsCurrent ==
    pc = "idle" =>
       \A f \in Files :
          /\ LooksIndexed(f)
          /\ ~FullNeeded(FALSE)
          /\ f \notin reported
          => f \in fileNodes /\ symbols[f] = disk[f]

\* Every edge in the graph joins nodes of the graph and is justified by the
\* version its source file's nodes were made from: DETACH DELETE and the order
\* of cleaning, node writing and edge writing leave no stale edge behind.
EdgesJustified ==
    /\ \A e \in imports :
          /\ {e[1], e[2]} \subseteq fileNodes
          /\ symbols[e[1]] # None
          /\ e[2] \in ImportsOf[e[1]][symbols[e[1]]]
    /\ \A e \in calls :
          /\ symbols[e[1]] # None /\ symbols[e[2]] # None
          /\ e[2] \in CallsOf[e[1]][symbols[e[1]]]

\* The graph and its fingerprints describe exactly the project on disk, and
\* no run was cut short.
InSync ==
    /\ pc = "idle" /\ fpFile = "ok" /\ aborts = 0
    /\ reported = {}
    /\ \A f \in Files : fps[f] = StatOf(f) /\ symbols[f] = disk[f]

\* The edges fullIndex would write for the project on disk.
FullIndexEdges(refersTo) ==
    {e \in Files \X Files :
       /\ disk[e[1]] # None /\ disk[e[2]] # None
       /\ e[2] \in refersTo[e[1]][disk[e[1]]]}

\* An index in sync with the project has the IMPORTS edges a full index of
\* the same project has ("Same as Full Index").
ImportsMatchFullIndex == InSync => imports = FullIndexEdges(ImportsOf)

\* Likewise for the CALLS edges.
CallsMatchFullIndex == InSync => calls = FullIndexEdges(CallsOf)

\* Every Index call ends.
RunsEnd == pc # "idle" ~> pc = "idle"

\* If the project is indexed again and again and the edits stop, the graph
\* ends up with the content of every file, except those whose last indexing
\* run reported them as unreadable.
EventuallyCurrent ==
    <>[](\A f \in Files : symbols[f] = disk[f] \/ f \in reported)

\* Files the next run would skip, and no run is working on.
Settled ==
    IF pc # "idle" \/ FullNeeded(FALSE) THEN {}
    ELSE {f \in Files : fps[f] = StatOf(f)}

Promise == INSTANCE Index WITH
    nodes <- fileNodes, held <- symbols, running <- pc # "idle", read <- parsed,
    settled <- Settled, failed <- reported

\* The pipeline keeps the promise of Index: no run writes what it has not read
\* itself, no change goes unnoticed, and whenever a run ends, done or cut
\* short, what the next one would skip is in the graph as on disk, and what is
\* gone is gone from it.
ImplementsIndex == Promise!Spec
=============================================================================
