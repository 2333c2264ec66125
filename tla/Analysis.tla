------------------------------ MODULE Analysis ------------------------------
(***************************************************************************)
(* Entry points and processes: what fcg analyze derives from the call     *)
(* graph, writes back into it and marks as done in the status file, while *)
(* other processes index the same project and mark that as well.          *)
(*                                                                         *)
(* A process of the graph is an entry point with its steps: the functions *)
(* a depth-first trace of trusted calls finds under a limit of depth.     *)
(* IncrementalIndex says how a run keeps the graph up to date; here a run *)
(* deletes the nodes of a batch of files and writes them again.           *)
(***************************************************************************)
EXTENDS Integers, Sequences

CONSTANTS
  Funcs, FileOf,      \* functions and the files they are in
  Kind,               \* of each function: what else the graph says about it
  Programs,           \* call graphs of the working tree: sets of calls
  Scopes,             \* scopes of fcg analyze: "all", "entries"
  Confident,          \* whether the store returns confidences with all edges
  MaxDepth,           \* --depth
  MaxTime,            \* bound on the clock
  MaxRuns,            \* bound on index runs and analyses together: one at a
  MaxRaces,           \*   time, and at any time
  Nothing             \* no value

\* trusted: confidence >= ConfidenceLowThreshold
Call == [from : Funcs, to : Funcs, trusted : BOOLEAN]

ASSUME AnalysisAssumption ==
  /\ Programs \subseteq SUBSET Call /\ Programs # {}
  /\ Kind \in [Funcs -> {"remote", "route", "cli", "annotated", "main", "impl", "plain"}]
  /\ FileOf \in [Funcs -> Funcs]
  /\ Scopes \subseteq {"all", "entries"} /\ Confident \in BOOLEAN
  /\ MaxDepth \in Nat /\ MaxTime \in Nat
  /\ MaxRuns \in Nat /\ MaxRaces \in Nat

VARIABLES
  program,              \* calls of the working tree
  present, calls,       \* the graph: Function nodes and CALLS edges
  entryType,            \*   entry_type of a function
  processes, steps,     \*   Process nodes (by entry) and STEP edges
  status,               \* status.json: when indexed, when analyzed
  now, runs,            \* the clock, and what was started so far
  careful,              \* one run at a time, whole, a second each
  ix, batch,            \* the index run, and the functions it writes again
  an, scope,            \* the analysis
  forest, roots,        \*   CallForest; the type of each entry point
  todo, stack, traced,  \*   entries to trace, the stack of traceDFS, steps found
  seen                  \* what MarkIndexed and MarkAnalyzed have read: [ix, an]

tree == <<program, now, runs, careful>>
graph == <<present, calls, entryType, processes, steps>>
indexer == <<ix, batch>>
analyzer == <<an, scope, forest, roots, todo, stack, traced>>
vars == <<tree, graph, status, indexer, analyzer, seen>>

Never == [indexed |-> 0, analyzed |-> 0]

\* Read: a file that does not decode reads as the zero status.
ReadStatus == IF status = Nothing THEN Never ELSE status

NeedsAnalyze ==
  ReadStatus.indexed = 0 \/ ReadStatus.indexed > ReadStatus.analyzed

Init ==
  /\ program \in Programs
  /\ present = {} /\ calls = {} /\ processes = {} /\ steps = {}
  /\ entryType = [f \in Funcs |-> Nothing]
  /\ status = Never
  /\ now = 1 /\ runs = 0
  /\ careful \in BOOLEAN
  /\ ix = "idle" /\ batch = {}
  /\ an = "idle" /\ scope = Nothing /\ forest = {}
  /\ roots = [f \in Funcs |-> Nothing]
  /\ todo = {} /\ stack = <<>> /\ traced = {}
  /\ seen = [ix |-> Never, an |-> Never]

----------------------------------------------------------------------------
(* The developer, the clock, and index runs.                               *)

Edit ==
  /\ careful => ix = "idle" /\ an = "idle"
  /\ program' \in Programs
  /\ UNCHANGED <<now, runs, careful, graph, status, indexer, analyzer, seen>>

Tick ==
  /\ now < MaxTime
  /\ now' = now + 1
  /\ UNCHANGED <<program, runs, careful, graph, status, indexer, analyzer, seen>>

Limit == IF careful THEN MaxRuns ELSE MaxRaces

MayStart ==
  /\ runs < Limit
  /\ careful => /\ ix = "idle" /\ an = "idle"
                /\ now > ReadStatus.indexed /\ now > ReadStatus.analyzed

CallsOf(F, set) == {c \in set : FileOf[c.from] \in F}
Files == {FileOf[f] : f \in Funcs}

\* Files whose calls changed, or that have no nodes, and files with calls
\* into these.
Affected ==
  LET changed == {F \in Files : \/ CallsOf({F}, calls) # CallsOf({F}, program)
                                \/ \E f \in Funcs \ present : FileOf[f] = F}
  IN  changed \cup {FileOf[c.from] : c \in {d \in calls : FileOf[d.to] \in changed}}

\* The nodes of the batch are deleted, and the edges at them; a full run
\* (ClearAll) deletes the analysis, too.
StartIndex(full) ==
  /\ ix = "idle" /\ MayStart
  /\ batch' = IF full THEN Funcs ELSE {f \in Funcs : FileOf[f] \in Affected}
  /\ present' = present \ batch'
  /\ calls' = {c \in calls : {c.from, c.to} \cap batch' = {}}
  /\ steps' = IF full THEN {} ELSE {s \in steps : s.func \notin batch'}
  /\ processes' = IF full THEN {} ELSE processes
  /\ entryType' = [f \in Funcs |-> IF f \in batch' THEN Nothing ELSE entryType[f]]
  /\ ix' = "write"
  /\ runs' = runs + 1
  /\ UNCHANGED <<program, now, careful, status, analyzer, seen>>

WriteIndex ==
  /\ ix = "write"
  /\ present' = present \cup batch
  /\ calls' = calls \cup {c \in program : c.from \in batch /\ c.to \in present'}
  /\ ix' = "read"
  /\ UNCHANGED <<tree, entryType, processes, steps, status, batch, analyzer, seen>>

----------------------------------------------------------------------------
(* The status file: read, changed and written back as a whole.            *)

ReadBy(p) == seen' = [seen EXCEPT ![p] = ReadStatus]

\* What a process had in memory goes with it.
IndexerGone ==
  /\ ix' = "idle" /\ batch' = {}
  /\ seen' = [seen EXCEPT !.ix = Never]

AnalyzerGone ==
  /\ an' = "idle" /\ scope' = Nothing /\ forest' = {}
  /\ roots' = [f \in Funcs |-> Nothing]
  /\ todo' = {} /\ stack' = <<>> /\ traced' = {}
  /\ seen' = [seen EXCEPT !.an = Never]

MarkIndexed ==
  /\ \/ /\ ix = "read" /\ ReadBy("ix") /\ ix' = "truncate"
        /\ UNCHANGED <<status, batch>>
     \/ /\ ix = "truncate" /\ status' = Nothing /\ ix' = "fill"
        /\ UNCHANGED <<seen, batch>>
     \/ /\ ix = "fill" /\ status' = [seen.ix EXCEPT !.indexed = now]
        /\ IndexerGone
  /\ UNCHANGED <<tree, graph, analyzer>>

MarkAnalyzed ==
  /\ \/ /\ an = "read" /\ ReadBy("an") /\ an' = "truncate"
        /\ UNCHANGED <<status, scope, forest, roots, todo, stack, traced>>
     \/ /\ an = "truncate" /\ status' = Nothing /\ an' = "fill"
        /\ UNCHANGED <<seen, scope, forest, roots, todo, stack, traced>>
     \/ /\ an = "fill" /\ status' = [seen.an EXCEPT !.analyzed = now]
        /\ AnalyzerGone
  /\ UNCHANGED <<tree, graph, indexer>>

----------------------------------------------------------------------------
(* The analysis.                                                           *)

\* QueryAllEdges: FalkorDB returns the confidence of an edge; Ladybug and
\* Kuzu do not, and an edge without one counts as not trusted.
Loaded == IF Confident THEN calls ELSE {[c EXCEPT !.trusted = FALSE] : c \in calls}

\* runAnalyze, analyze_repository (which never asks whether it is needed);
\* BuildCallForest: all CALLS edges.
StartAnalyze(s, force) ==
  /\ an = "idle" /\ MayStart
  /\ force \/ NeedsAnalyze
  /\ careful => s = "all"
  /\ an' = "classify" /\ scope' = s
  /\ forest' = Loaded
  /\ runs' = runs + 1
  /\ UNCHANGED <<program, now, careful, graph, status, indexer, roots, todo, stack, traced, seen>>

InForest == UNION {{c.from, c.to} : c \in forest}
Called == {c.to : c \in forest}
Handles(f) == Kind[f] \in {"remote", "route", "cli"}

\* Functions of the forest that nothing calls, and handlers of routes.
Roots == {f \in present : (f \in InForest /\ f \notin Called) \/ Handles(f)}

EntryType(f) ==
  CASE Kind[f] = "remote" -> "remote_client"
    [] Kind[f] = "route" -> "http_endpoint"
    [] Kind[f] = "cli" -> "cli_command"
    [] Kind[f] = "annotated" -> "scheduled_task"
    [] Kind[f] = "main" -> "cli_command"
    [] Kind[f] = "impl" -> "interface_impl"
    [] \A c \in forest : c.from # f -> "suspected_dead"
    [] OTHER -> "unknown_entry"

\* BuildCallForest: all Function nodes; ClassifyRoots.
Classify ==
  /\ an = "classify"
  /\ roots' = [f \in Funcs |-> IF f \in Roots THEN EntryType(f) ELSE Nothing]
  /\ an' = "entries"
  /\ UNCHANGED <<tree, graph, status, indexer, scope, forest, todo, stack, traced, seen>>

Untraced == {"suspected_dead", "unknown_entry", "interface_impl"}

\* WriteEntryPoints: the types of these functions, and of no other.
WriteEntryPoints ==
  /\ an = "entries"
  /\ entryType' = [f \in Funcs |-> IF roots[f] # Nothing /\ f \in present
                                     THEN roots[f] ELSE entryType[f]]
  /\ an' = IF scope = "entries" THEN "read" ELSE "clear"
  /\ UNCHANGED <<tree, present, calls, processes, steps, status, indexer,
                 scope, forest, roots, todo, stack, traced, seen>>

\* Mutant: the processes of the last analysis stay.
ClearNothing ==
  /\ an = "clear"
  /\ todo' = {f \in Funcs : roots[f] # Nothing /\ roots[f] \notin Untraced}
  /\ an' = "trace"
  /\ UNCHANGED <<tree, graph, status, indexer, scope, forest, roots, stack, traced, seen>>

\* ClearAnalysisData; then the entries to trace.
ClearAnalysisData ==
  /\ an = "clear"
  /\ processes' = {} /\ steps' = {}
  /\ todo' = {f \in Funcs : roots[f] # Nothing /\ roots[f] \notin Untraced}
  /\ an' = "trace"
  /\ UNCHANGED <<tree, present, calls, entryType, status, indexer,
                 scope, forest, roots, stack, traced, seen>>

\* TraceProcess
TraceEntry ==
  /\ an = "trace" /\ stack = <<>>
  /\ \E f \in todo :
       /\ todo' = todo \ {f}
       /\ stack' = <<f>>
       /\ traced' = traced \cup {[entry |-> f, func |-> f, depth |-> 0]}
  /\ UNCHANGED <<tree, graph, status, indexer, an, scope, forest, roots, seen>>

Visited == {s.func : s \in {t \in traced : t.entry = stack[1]}}
Unvisited(f) == {c.to : c \in {d \in forest : d.from = f /\ d.trusted}} \ Visited

\* Mutant: only the functions on the stack count as visited.
DescendAgain ==
  /\ an = "trace" /\ stack # <<>>
  /\ Len(stack) <= MaxDepth
  /\ \E c \in forest :
       /\ c.trusted /\ c.from = stack[Len(stack)]
       /\ \A i \in DOMAIN stack : stack[i] # c.to
       /\ traced' = traced \cup {[entry |-> stack[1], func |-> c.to, depth |-> Len(stack)]}
       /\ stack' = Append(stack, c.to)
  /\ UNCHANGED <<tree, graph, status, indexer, an, scope, forest, roots, todo, seen>>

\* Mutant: the limit of depth is not checked.
DescendDeeper ==
  /\ an = "trace" /\ stack # <<>>
  /\ \E g \in Unvisited(stack[Len(stack)]) :
       /\ traced' = traced \cup {[entry |-> stack[1], func |-> g, depth |-> Len(stack)]}
       /\ stack' = Append(stack, g)
  /\ UNCHANGED <<tree, graph, status, indexer, an, scope, forest, roots, todo, seen>>

\* traceDFS: one more call of the function on top of the stack, or back.
Descend ==
  /\ an = "trace" /\ stack # <<>>
  /\ Len(stack) <= MaxDepth
  /\ \E g \in Unvisited(stack[Len(stack)]) :
       /\ traced' = traced \cup {[entry |-> stack[1], func |-> g, depth |-> Len(stack)]}
       /\ stack' = Append(stack, g)
  /\ UNCHANGED <<tree, graph, status, indexer, an, scope, forest, roots, todo, seen>>

\* Mutant: one callee of a function is followed, not all.
ReturnAfterOne ==
  /\ an = "trace" /\ stack # <<>>
  /\ stack' = SubSeq(stack, 1, Len(stack) - 1)
  /\ UNCHANGED <<tree, graph, status, indexer, an, scope, forest, roots, todo, traced, seen>>

\* Mutant: at the limit of depth, too, a function waits for its callees.
ReturnWhenAllVisited ==
  /\ an = "trace" /\ stack # <<>>
  /\ Unvisited(stack[Len(stack)]) = {}
  /\ stack' = SubSeq(stack, 1, Len(stack) - 1)
  /\ UNCHANGED <<tree, graph, status, indexer, an, scope, forest, roots, todo, traced, seen>>

Return ==
  /\ an = "trace" /\ stack # <<>>
  /\ Len(stack) > MaxDepth \/ Unvisited(stack[Len(stack)]) = {}
  /\ stack' = SubSeq(stack, 1, Len(stack) - 1)
  /\ UNCHANGED <<tree, graph, status, indexer, an, scope, forest, roots, todo, traced, seen>>

\* WriteProcesses: the nodes, then the edges to functions that are there.
CreateProcesses ==
  /\ an = "trace" /\ stack = <<>> /\ todo = {}
  /\ processes' = processes \cup {s.entry : s \in traced}
  /\ an' = "steps"
  /\ UNCHANGED <<tree, present, calls, entryType, steps, status, indexer,
                 scope, forest, roots, todo, stack, traced, seen>>

WriteSteps ==
  /\ an = "steps"
  /\ steps' = steps \cup {s \in traced : s.func \in present /\ s.entry \in processes}
  /\ an' = "read"
  /\ UNCHANGED <<tree, present, calls, entryType, processes, status, indexer,
                 scope, forest, roots, todo, stack, traced, seen>>

\* A run or an analysis returns an error, or its process dies.
Abort ==
  /\ ~careful
  /\ \/ ix # "idle" /\ IndexerGone /\ UNCHANGED analyzer
     \/ an # "idle" /\ AnalyzerGone /\ UNCHANGED indexer
  /\ UNCHANGED <<tree, graph, status>>

Analyze ==
  \/ Classify \/ WriteEntryPoints \/ ClearAnalysisData
  \/ TraceEntry \/ Descend \/ Return
  \/ CreateProcesses \/ WriteSteps \/ MarkAnalyzed

Next ==
  \/ Edit \/ Tick
  \/ \E full \in BOOLEAN : StartIndex(full)
  \/ WriteIndex \/ MarkIndexed
  \/ \E s \in Scopes, force \in BOOLEAN : StartAnalyze(s, force)
  \/ Analyze
  \/ Abort

Spec == Init /\ [][Next]_vars
FairSpec == Spec /\ WF_vars(Analyze)

----------------------------------------------------------------------------
Times == 0..MaxTime
Step == [entry : Funcs, func : Funcs, depth : 0..MaxDepth]
Types == {"remote_client", "http_endpoint", "cli_command", "scheduled_task",
          "interface_impl", "suspected_dead", "unknown_entry"}
Status == [indexed : Times, analyzed : Times]

\* Nothing is told apart from every type of an entry point.
ASSUME NothingAssumption == Nothing \notin Types

TypeOK ==
  /\ program \in Programs /\ now \in 1..MaxTime /\ runs \in 0..Limit /\ careful \in BOOLEAN
  /\ present \subseteq Funcs /\ calls \subseteq Call
  /\ entryType \in [Funcs -> Types \cup {Nothing}] /\ roots \in [Funcs -> Types \cup {Nothing}]
  /\ processes \subseteq Funcs /\ steps \subseteq Step /\ traced \subseteq Step
  /\ status \in Status \cup {Nothing} /\ seen \in [{"ix", "an"} -> Status]
  /\ ix \in {"idle", "write", "read", "truncate", "fill"} /\ batch \subseteq Funcs
  /\ an \in {"idle", "classify", "entries", "clear", "trace", "steps", "read", "truncate", "fill"}
  /\ scope \in Scopes \cup {Nothing} /\ forest \subseteq Call /\ todo \subseteq Funcs
  /\ Len(stack) <= MaxDepth + 1 /\ \A i \in DOMAIN stack : stack[i] \in Funcs

\* s is called by one of the steps, one level above it.
Hangs(s, set, in) ==
  \E t \in set, c \in in : /\ t.entry = s.entry /\ t.depth + 1 = s.depth
                         /\ c.from = t.func /\ c.to = s.func /\ c.trusted

\* A trace is a tree: each function is a step once, at the depth of a chain
\* of trusted calls that leads to it, in whatever order calls are followed.
TraceIsTree ==
  \A s \in traced :
    /\ IF s.depth = 0 THEN s.func = s.entry ELSE Hangs(s, traced, forest)
    /\ \A t \in traced : s.entry = t.entry /\ s.func = t.func => s = t

\* Steps above the limit have all their trusted calls among the steps.
Closed(set, in) ==
  \A s \in set : s.depth < MaxDepth =>
    \A c \in in : c.from = s.func /\ c.trusted =>
      \E t \in set : t.entry = s.entry /\ t.func = c.to

\* Only the limit cuts a trace: a function that is missing is called by
\* functions at the limit alone, never by one above it.
OnlyDepthCuts == an = "steps" => Closed(traced, forest)

Idle == ix = "idle" /\ an = "idle"
Settled == careful /\ Idle /\ ~NeedsAnalyze

\* While the status says that no analysis is needed, the processes in the
\* graph are those of the calls in the graph, and every function that calls
\* others and is called by none has its type - as long as runs are made one
\* at a time, to their end, a second apart, and analyses in whole.
CurrentWhenFresh ==
  Settled =>
    /\ \A f \in present :
         Handles(f) \/ ((\E c \in calls : c.from = f) /\ (\A c \in calls : c.to # f)) =>
         /\ entryType[f] # Nothing
         /\ entryType[f] \notin Untraced => f \in processes
    /\ \A e \in processes : [entry |-> e, func |-> e, depth |-> 0] \in steps
    /\ \A s \in steps : s.depth > 0 => Hangs(s, steps, calls)
    /\ Closed(steps, calls)

\* Every trace comes to an end, in call graphs with cycles, too.
TraceEnds == an = "trace" ~> an # "trace"
=============================================================================
