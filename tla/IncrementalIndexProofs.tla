----------------------- MODULE IncrementalIndexProofs -----------------------
(***************************************************************************)
(* What IncrementalIndex guarantees for every project, every set of files  *)
(* and every schedule of edits, runs, read failures and aborted runs.      *)
(***************************************************************************)
EXTENDS IncrementalIndex, TLAPS

(* The inductive invariants.                                               *)

\* Until its symbols are written, a file of the batch has none in the graph.
BatchIsClean ==
    /\ pc = "cleanAffected" => \A f \in changed : symbols[f] = None
    /\ pc \in {"parse", "symbols"} => \A f \in batch : symbols[f] = None

\* While edges are written, the symbols of the batch are those just parsed.
BatchIsWritten ==
    pc \in {"imports", "calls"} => \A f \in batch : symbols[f] = parsed[f]

EdgesInv == TypeOK /\ EdgesJustified /\ BatchIsClean /\ BatchIsWritten

\* No stat taken earlier is from the future.
StatsArePast ==
    \A f \in Files :
       /\ scan[f] # None => scan[f].mtime <= mtime[f]
       /\ fps[f] # None => fps[f].mtime <= mtime[f]

\* The file on disk is the one with the stat s.
Still(f, s) == disk[f] # None /\ s = StatOf(f)

\* Parse results exist from parsing to the end of the run.
ParsedInRun ==
    pc \in {"idle", "clear", "detect", "clean", "cleanAffected"}
      => parsed = Nothing

\* What was parsed of a file is what it still holds, if its stat is still the
\* one that was scanned, or the one in the fingerprints.
ParsedIsCurrent ==
    \A f \in Files :
       parsed[f] # None /\ (Still(f, scan[f]) \/ Still(f, fps[f]))
         => parsed[f] = disk[f]

\* Between the comparison with the fingerprints and their renewal, the graph
\* may be trusted on the files whose stat is still the scanned one.
ScanIsTrusted ==
    /\ pc = "clean" =>
         \A f \in Files \ changed :
            Still(f, scan[f]) => symbols[f] \in {None, disk[f]}
    /\ pc \in Stages \ {"clear", "detect", "clean"} =>
         \A f \in Files : Still(f, scan[f]) => symbols[f] \in {None, disk[f]}

VersionInv ==
    /\ TypeOK
    /\ StatsArePast
    /\ ParsedInRun
    /\ ParsedIsCurrent
    /\ ScanIsTrusted
    /\ NeverWrongVersion

-----------------------------------------------------------------------------
(* Type correctness.                                                       *)

\* The stat of an existing file is a stat.
LEMMA StatType ==
    ASSUME TypeOK, NEW f \in Files
    PROVE  /\ StatOf(f) \in Stat \union {None}
           /\ disk[f] # None => StatOf(f) \in Stat
BY FilesAssumption DEF TypeOK, StatOf, Stat

\* Each way of changing the graph keeps the graph's types.
GraphTypeOK ==
    /\ rooted \in BOOLEAN
    /\ fileNodes \subseteq Files
    /\ symbols \in [Files -> Versions \union {None}]
    /\ imports \subseteq Files \X Files
    /\ calls \subseteq Files \X Files

LEMMA DropType ==
    ASSUME GraphTypeOK, NEW S \in SUBSET Files, Drop(S)
    PROVE  GraphTypeOK'
BY DEF GraphTypeOK, Drop

LEMMA PutFileNodesType ==
    ASSUME GraphTypeOK, NEW S \in SUBSET Files, PutFileNodes(S)
    PROVE  GraphTypeOK'
BY DEF GraphTypeOK, PutFileNodes

LEMMA PutSymbolsType ==
    ASSUME GraphTypeOK, NEW S \in SUBSET Files, PutSymbols(S),
           parsed \in [Files -> Versions \union {None}]
    PROVE  GraphTypeOK'
BY DEF GraphTypeOK, PutSymbols

LEMMA PutImportsType ==
    ASSUME GraphTypeOK, NEW S \in SUBSET Files, PutImports(S)
    PROVE  GraphTypeOK'
BY DEF GraphTypeOK, PutImports, Scanned

LEMMA PutCallsType ==
    ASSUME GraphTypeOK, NEW S \in SUBSET Files, PutCalls(S)
    PROVE  GraphTypeOK'
BY DEF GraphTypeOK, PutCalls

\* The state apart from the graph.
RunTypeOK ==
    /\ disk \in [Files -> Versions \union {None}]
    /\ mtime \in [Files -> Nat] /\ clock \in Nat
    /\ fpFile \in {"absent", "torn", "ok"}
    /\ fps \in [Files -> Stat \union {None}]
    /\ pc \in Stages \union {"idle"}
    /\ scan \in [Files -> Stat \union {None}]
    /\ changed \subseteq Files /\ deleted \subseteq Files
    /\ affected \subseteq Files
    /\ batch \subseteq Files /\ todo \subseteq batch
    /\ parsed \in [Files -> Versions \union {None}]
    /\ reported \subseteq Files
    /\ aborts \in Nat

LEMMA TypeSplit == TypeOK <=> GraphTypeOK /\ RunTypeOK
BY DEF TypeOK, GraphTypeOK, RunTypeOK

LEMMA TypeSplitNext == TypeOK' <=> GraphTypeOK' /\ RunTypeOK'
BY DEF TypeOK, GraphTypeOK, RunTypeOK

LEMMA TypeInit == Init => TypeOK
<1> SUFFICES ASSUME Init PROVE TypeOK
    OBVIOUS
<1>1. disk \in [Files -> Versions \union {None}]
  BY DEF Init
<1>2. /\ Nothing \in [Files -> Stat \union {None}]
      /\ Nothing \in [Files -> Versions \union {None}]
  BY DEF Nothing
<1> QED BY <1>1, <1>2 DEF Init, TypeOK

LEMMA RestType == ASSUME Rest PROVE
    /\ pc' = "idle" /\ scan' \in [Files -> Stat \union {None}]
    /\ changed' \subseteq Files /\ deleted' \subseteq Files
    /\ affected' \subseteq Files
    /\ batch' \subseteq Files /\ todo' \subseteq batch'
    /\ parsed' \in [Files -> Versions \union {None}]
BY DEF Rest, Nothing

\* Every step keeps the types.
LEMMA TypeStep == TypeOK /\ [Next]_vars => TypeOK'
<1> SUFFICES ASSUME TypeOK, [Next]_vars PROVE TypeOK'
    OBVIOUS
<1> USE TypeSplit, TypeSplitNext
<1>1. ASSUME NEW f \in Files, NEW v \in Versions, NEW t \in {clock, clock + 1},
             Edit(f, v, t) \/ Create(f, v, t)
      PROVE  TypeOK'
  BY <1>1 DEF Edit, Create, Stamp, GraphTypeOK, RunTypeOK, prints, graph, run, diff
<1>2. ASSUME NEW f \in Files, Delete(f) PROVE TypeOK'
  BY <1>2 DEF Delete, GraphTypeOK, RunTypeOK, prints, graph, run, diff
<1>3. ASSUME NEW force \in BOOLEAN, Start(force) PROVE TypeOK'
  <2>1. scan' \in [Files -> Stat \union {None}]
    BY <1>3, StatType DEF Start
  <2>2. pc' \in Stages
    BY <1>3 DEF Start, Stages
  <2> QED BY <1>3, <2>1, <2>2
          DEF Start, GraphTypeOK, RunTypeOK, project, prints, graph, diff
<1>4. CASE Clear
  <2>1. GraphTypeOK'
    BY <1>4 DEF Clear, GraphTypeOK, Nothing
  <2>2. RunTypeOK'
    BY <1>4 DEF Clear, RunTypeOK, Scanned, Stages, project, prints, diff
  <2> QED BY <2>1, <2>2
<1>5. CASE Detect
  <2>1. pc' \in Stages
    BY <1>5 DEF Detect, Stages
  <2> QED BY <1>5, <2>1 DEF Detect, ChangedFiles, Importers, Known, Scanned,
             GraphTypeOK, RunTypeOK, project, prints, graph
<1>6. CASE Clean
  <2>1. GraphTypeOK'
    <3>1. deleted \union changed \in SUBSET Files
      BY DEF RunTypeOK
    <3> QED BY <1>6, <3>1, DropType DEF Clean
  <2>2. RunTypeOK'
    <3>1. CASE changed # {} \/ deleted # {}
      BY <1>6, <3>1 DEF Clean, RunTypeOK, Stages, project, prints, diff
    <3>2. CASE ~(changed # {} \/ deleted # {})
      BY <1>6, <3>2, RestType DEF Clean, RunTypeOK, project, prints
    <3> QED BY <3>1, <3>2
  <2> QED BY <2>1, <2>2
<1>7. CASE CleanAffected
  <2>1. GraphTypeOK'
    <3>1. affected \in SUBSET Files
      BY DEF RunTypeOK
    <3> QED BY <1>7, <3>1, DropType DEF CleanAffected
  <2>2. RunTypeOK'
    BY <1>7 DEF CleanAffected, FilesToParse, RunTypeOK, Stages, project, prints,
                diff
  <2> QED BY <2>1, <2>2
<1>8. ASSUME NEW f \in Files, Parse(f) PROVE TypeOK'
  <2>1. parsed' \in [Files -> Versions \union {None}]
    BY <1>8 DEF Parse, RunTypeOK
  <2> QED BY <1>8, <2>1 DEF Parse, GraphTypeOK, RunTypeOK, project, prints,
             graph, diff
<1> DEFINE Kept == UNCHANGED <<project, prints, scan, diff, batch, todo, parsed,
                               aborts>>
<1>9. ASSUME Kept, pc' \in Stages PROVE RunTypeOK'
  BY <1>9 DEF RunTypeOK, project, prints, diff
<1>10. batch \in SUBSET Files /\ parsed \in [Files -> Versions \union {None}]
  BY DEF RunTypeOK
<1>11. CASE WriteFileNodes
  BY <1>9, <1>10, <1>11, PutFileNodesType DEF WriteFileNodes, Stages
<1>12. CASE WriteSymbols
  BY <1>9, <1>10, <1>12, PutSymbolsType DEF WriteSymbols, Stages
<1>13. CASE WriteImports
  BY <1>9, <1>10, <1>13, PutImportsType DEF WriteImports, Stages
<1>14. CASE WriteCalls
  BY <1>9, <1>10, <1>14, PutCallsType DEF WriteCalls, Stages
<1>15. CASE SaveBegin
  BY <1>15 DEF SaveBegin, GraphTypeOK, RunTypeOK, Nothing, Stages, project,
               graph, diff
<1>16. CASE SaveEnd
  BY <1>16, RestType DEF SaveEnd, GraphTypeOK, RunTypeOK, Scanned, project, graph
<1>17. CASE Abort
  <2>1. RunTypeOK'
    BY <1>17, RestType DEF Abort, RunTypeOK, project, prints
  <2>2. deleted \union changed \in SUBSET Files /\ affected \in SUBSET Files
    BY DEF RunTypeOK
  <2>3. CASE UNCHANGED graph
    BY <2>1, <2>3 DEF GraphTypeOK, graph
  <2>4. ASSUME imports' \in {imports, {}}, calls' \in {calls, {}}, rooted' \in {rooted, FALSE},
               fileNodes' \in {fileNodes, {}}, symbols' \in {symbols, Nothing}
        PROVE  TypeOK'
    BY <2>1, <2>4 DEF GraphTypeOK, Nothing
  <2>5. ASSUME NEW S \in SUBSET (deleted \union changed), Drop(S) PROVE TypeOK'
    BY <2>1, <2>2, <2>5, DropType
  <2>6. ASSUME NEW S \in SUBSET affected, Drop(S) PROVE TypeOK'
    BY <2>1, <2>2, <2>6, DropType
  <2>7. ASSUME NEW S \in SUBSET batch, PutFileNodes(S) PROVE TypeOK'
    BY <1>10, <2>1, <2>7, PutFileNodesType
  <2>8. ASSUME NEW S \in SUBSET batch, PutSymbols(S) PROVE TypeOK'
    BY <1>10, <2>1, <2>8, PutSymbolsType
  <2>9. ASSUME NEW S \in SUBSET batch, PutImports(S) PROVE TypeOK'
    BY <1>10, <2>1, <2>9, PutImportsType
  <2>10. ASSUME NEW S \in SUBSET batch, PutCalls(S) PROVE TypeOK'
    BY <1>10, <2>1, <2>10, PutCallsType
  <2> QED BY <1>17, <2>3, <2>4, <2>5, <2>6, <2>7, <2>8, <2>9, <2>10 DEF Abort
<1>18. CASE UNCHANGED vars
  BY <1>18 DEF vars, project, prints, graph, run, diff, GraphTypeOK, RunTypeOK
<1> QED BY <1>1, <1>2, <1>3, <1>4, <1>5, <1>6, <1>7, <1>8, <1>11, <1>12, <1>13,
           <1>14, <1>15, <1>16, <1>17, <1>18 DEF Next, Developer, Step

\* Type correctness of the pipeline.
THEOREM TypeCorrect == Spec => []TypeOK
BY TypeInit, TypeStep, PTL DEF Spec
-----------------------------------------------------------------------------
(* Edges.                                                                  *)

\* Deleting whole files, with the edges at both ends, leaves justified edges.
LEMMA DropEdges ==
    ASSUME EdgesJustified, TypeOK, NEW S, Drop(S)
    PROVE  EdgesJustified'
BY DEF EdgesJustified, TypeOK, Drop

LEMMA PutFileNodesEdges ==
    ASSUME EdgesJustified, NEW S, PutFileNodes(S)
    PROVE  EdgesJustified'
BY DEF EdgesJustified, PutFileNodes

\* Symbols are only made for files that have none, hence no edges either.
LEMMA PutSymbolsEdges ==
    ASSUME EdgesJustified, TypeOK, NEW S, PutSymbols(S),
           \A f \in S : symbols[f] = None
    PROVE  EdgesJustified'
<1>1. \A f \in Files : symbols[f] # None => symbols'[f] = symbols[f]
  BY DEF PutSymbols
<1> QED BY <1>1 DEF EdgesJustified, TypeOK, PutSymbols

LEMMA PutImportsEdges ==
    ASSUME EdgesJustified, TypeOK, NEW S \in SUBSET Files, PutImports(S),
           \A f \in S : symbols[f] = parsed[f]
    PROVE  EdgesJustified'
BY DEF EdgesJustified, TypeOK, PutImports

LEMMA PutCallsEdges ==
    ASSUME EdgesJustified, TypeOK, NEW S \in SUBSET Files, PutCalls(S),
           \A f \in S : symbols[f] = parsed[f]
    PROVE  EdgesJustified'
BY DEF EdgesJustified, TypeOK, PutCalls

LEMMA EdgesInit == Init => EdgesInv
BY TypeInit DEF Init, EdgesInv, EdgesJustified, BatchIsClean, BatchIsWritten

LEMMA EdgesStep == EdgesInv /\ [Next]_vars => EdgesInv'
<1> SUFFICES ASSUME EdgesInv, [Next]_vars PROVE EdgesInv'
    OBVIOUS
<1> USE DEF EdgesInv
<1>0. TypeOK'
  BY TypeStep
<1> DEFINE Inv == EdgesJustified /\ BatchIsClean /\ BatchIsWritten
<1> SUFFICES Inv'
  BY <1>0
<1>a. ASSUME UNCHANGED graph PROVE EdgesJustified'
  BY <1>a DEF graph, EdgesJustified
<1>b. ASSUME UNCHANGED graph, UNCHANGED run PROVE Inv'
  BY <1>a, <1>b DEF graph, run, diff, BatchIsClean, BatchIsWritten
<1>c. ASSUME EdgesJustified', pc' \in {"idle", "clear", "detect", "clean",
                                       "save", "saving"}
      PROVE  Inv'
  BY <1>c DEF BatchIsClean, BatchIsWritten
<1>1. ASSUME NEW f \in Files, NEW v \in Versions, NEW t \in {clock, clock + 1},
             Edit(f, v, t) \/ Create(f, v, t)
      PROVE  Inv'
  BY <1>1, <1>b DEF Edit, Create
<1>2. ASSUME NEW f \in Files, Delete(f) PROVE Inv'
  BY <1>2, <1>b DEF Delete
<1>3. ASSUME NEW force \in BOOLEAN, Start(force) PROVE Inv'
  BY <1>3, <1>a, <1>c DEF Start
<1>4. CASE Clear
  <2>1. EdgesJustified'
    BY <1>4 DEF Clear, EdgesJustified
  <2>2. BatchIsClean' /\ BatchIsWritten'
    BY <1>4 DEF Clear, BatchIsClean, BatchIsWritten, Nothing, Scanned
  <2> QED BY <2>1, <2>2
<1>5. CASE Detect
  BY <1>5, <1>a, <1>c DEF Detect
<1>6. CASE Clean
  <2>1. EdgesJustified'
    BY <1>6, DropEdges DEF Clean
  <2>2. \A f \in changed : symbols'[f] = None
    BY <1>6 DEF Clean, Drop, TypeOK
  <2>3. CASE changed # {}
    BY <1>6, <2>1, <2>2, <2>3 DEF Clean, BatchIsClean, BatchIsWritten, diff
  <2>4. CASE changed = {}
    BY <1>6, <2>1, <2>4, <1>c DEF Clean, Rest
  <2> QED BY <2>3, <2>4
<1>7. CASE CleanAffected
  <2>1. EdgesJustified'
    BY <1>7, DropEdges DEF CleanAffected
  <2>2. \A f \in changed \union affected : symbols'[f] = None
    BY <1>7 DEF CleanAffected, Drop, BatchIsClean, TypeOK
  <2> QED BY <1>7, <2>1, <2>2
          DEF CleanAffected, FilesToParse, BatchIsClean, BatchIsWritten
<1>8. ASSUME NEW f \in Files, Parse(f) PROVE Inv'
  BY <1>8, <1>a DEF Parse, BatchIsClean, BatchIsWritten, graph
<1>9. CASE WriteFileNodes
  <2>1. EdgesJustified'
    BY <1>9, PutFileNodesEdges DEF WriteFileNodes
  <2> QED BY <1>9, <2>1 DEF WriteFileNodes, PutFileNodes, BatchIsClean,
                            BatchIsWritten
<1>10. CASE WriteSymbols
  <2>1. EdgesJustified'
    BY <1>10, PutSymbolsEdges DEF WriteSymbols, BatchIsClean
  <2> QED BY <1>10, <2>1 DEF WriteSymbols, PutSymbols, BatchIsClean,
                             BatchIsWritten, TypeOK
<1>11. CASE WriteImports
  <2>1. EdgesJustified'
    BY <1>11, PutImportsEdges DEF WriteImports, BatchIsWritten, TypeOK
  <2> QED BY <1>11, <2>1 DEF WriteImports, PutImports, BatchIsClean,
                             BatchIsWritten
<1>12. CASE WriteCalls
  <2>1. EdgesJustified'
    BY <1>12, PutCallsEdges DEF WriteCalls, BatchIsWritten, TypeOK
  <2> QED BY <1>12, <2>1, <1>c DEF WriteCalls
<1>13. CASE SaveBegin
  BY <1>13, <1>a, <1>c DEF SaveBegin
<1>14. CASE SaveEnd
  BY <1>14, <1>a, <1>c DEF SaveEnd, Rest
<1>15. CASE Abort
  <2>0. pc' = "idle"
    BY <1>15 DEF Abort, Rest
  <2>1. CASE UNCHANGED graph
    BY <2>1, <1>a, <2>0, <1>c
  <2>2. CASE imports' = {} /\ calls' = {}
    BY <2>2, <2>0, <1>c DEF EdgesJustified
  <2>8. CASE /\ imports' \in {imports, {}} /\ calls' \in {calls, {}}
             /\ UNCHANGED <<rooted, fileNodes, symbols>>
    BY <2>8, <2>0, <1>c DEF EdgesJustified
  <2>3. ASSUME NEW S, Drop(S) PROVE Inv'
    BY <2>3, DropEdges, <2>0, <1>c
  <2>4. ASSUME NEW S, PutFileNodes(S) PROVE Inv'
    BY <2>4, PutFileNodesEdges, <2>0, <1>c
  <2>5. ASSUME pc = "symbols", NEW S \in SUBSET batch, PutSymbols(S) PROVE Inv'
    BY <2>5, PutSymbolsEdges, <2>0, <1>c DEF BatchIsClean
  <2>6. ASSUME pc = "imports", NEW S \in SUBSET batch, PutImports(S) PROVE Inv'
    BY <2>6, PutImportsEdges, <2>0, <1>c DEF BatchIsWritten, TypeOK
  <2>7. ASSUME pc = "calls", NEW S \in SUBSET batch, PutCalls(S) PROVE Inv'
    BY <2>7, PutCallsEdges, <2>0, <1>c DEF BatchIsWritten, TypeOK
  <2> QED BY <1>15, <2>1, <2>2, <2>3, <2>4, <2>5, <2>6, <2>7, <2>8 DEF Abort
<1>16. CASE UNCHANGED vars
  BY <1>16, <1>b DEF vars
<1> QED BY <1>1, <1>2, <1>3, <1>4, <1>5, <1>6, <1>7, <1>8, <1>9, <1>10, <1>11,
           <1>12, <1>13, <1>14, <1>15, <1>16 DEF Next, Developer, Step

\* No edge of the graph is stale, dangling or half removed, in whatever order
\* files are edited, indexed and runs cut short.
THEOREM EdgesAlwaysJustified == Spec => []EdgesJustified
<1>1. EdgesInv => EdgesJustified
  BY DEF EdgesInv
<1> QED BY EdgesInit, EdgesStep, <1>1, PTL DEF Spec
-----------------------------------------------------------------------------
(* Versions.                                                               *)

\* Whoever writes a file gives it a later second, so that no stat taken
\* before is its stat any more; the other files keep theirs.
LEMMA Rewritten ==
    ASSUME SameSecond = FALSE, TypeOK, TypeOK', StatsArePast,
           NEW f \in Files, NEW v \in Versions, NEW t \in {clock, clock + 1},
           Edit(f, v, t) \/ Create(f, v, t)
    PROVE  /\ StatsArePast'
           /\ ~Still(f, scan[f])' /\ ~Still(f, fps[f])'
           /\ \A g \in Files \ {f} : disk'[g] = disk[g] /\ mtime'[g] = mtime[g]
<1>0. UNCHANGED <<prints, graph, run>>
  BY DEF Edit, Create
<1>1. \A g \in Files \ {f} : disk'[g] = disk[g] /\ mtime'[g] = mtime[g]
  BY DEF Edit, Create, Stamp, TypeOK
<1>2. mtime'[f] = t /\ mtime[f] < t /\ t \in Nat /\ disk'[f] = v
  BY DEF Edit, Create, Stamp, TypeOK
<1>3. StatsArePast'
  <2> SUFFICES ASSUME NEW g \in Files
               PROVE  /\ scan[g] # None => scan[g].mtime <= mtime'[g]
                      /\ fps[g] # None => fps[g].mtime <= mtime'[g]
    BY <1>0 DEF StatsArePast, prints, run
  <2>1. /\ scan[g] # None => scan[g].mtime \in Nat
        /\ fps[g] # None => fps[g].mtime \in Nat
        /\ mtime[g] \in Nat
    BY DEF TypeOK, Stat
  <2>2. mtime'[g] \in Nat /\ mtime[g] <= mtime'[g]
    BY <1>1, <1>2, <2>1
  <2> QED BY <2>1, <2>2 DEF StatsArePast
<1>4. (StatOf(f))' = [mtime |-> t, size |-> SizeOf[f][v]]
  BY <1>2, FilesAssumption DEF StatOf
<1>5. (StatOf(f))' \in Stat /\ (StatOf(f))' # None /\ (StatOf(f))'.mtime = t
  BY <1>2, <1>4, FilesAssumption DEF Stat
<1>6. ~Still(f, scan[f])' /\ ~Still(f, fps[f])'
  <2>1. /\ scan[f] # None => scan[f].mtime \in Nat /\ scan[f].mtime <= mtime[f]
        /\ fps[f] # None => fps[f].mtime \in Nat /\ fps[f].mtime <= mtime[f]
        /\ mtime[f] \in Nat
    BY DEF TypeOK, Stat, StatsArePast
  <2>2. scan' = scan /\ fps' = fps
    BY <1>0 DEF prints, run
  <2> QED BY <1>2, <1>5, <2>1, <2>2 DEF Still
<1> QED BY <1>1, <1>3, <1>6

\* Deleting nodes, and writing nodes or edges other than symbols, makes no
\* symbol version wrong.
LEMMA SymbolsKept ==
    ASSUME TypeOK, NEW S, Drop(S) \/ PutFileNodes(S) \/ PutImports(S) \/ PutCalls(S)
    PROVE  \A f \in Files : symbols'[f] \in {None, symbols[f]}
BY DEF Drop, PutFileNodes, PutImports, PutCalls, TypeOK

\* A step that leaves the files and all stats alone, and gives a file with a
\* current stat no symbols but those of its content, keeps what is trusted.
LEMMA KeepTrust ==
    ASSUME VersionInv, UNCHANGED <<project, prints, scan, parsed>>,
           \A f \in Files :
              symbols'[f] \in {None, symbols[f], parsed[f]}
    PROVE  /\ StatsArePast' /\ ParsedIsCurrent' /\ NeverWrongVersion'
           /\ \A f \in Files :
                 /\ Still(f, scan[f])' <=> Still(f, scan[f])
                 /\ /\ Still(f, scan[f])
                    /\ symbols[f] \in {None, disk[f]}
                    => symbols'[f] \in {None, disk'[f]}
<1>1. \A f \in Files : /\ (StatOf(f))' = StatOf(f)
                       /\ Still(f, scan[f])' <=> Still(f, scan[f])
                       /\ Still(f, fps[f])' <=> Still(f, fps[f])
                       /\ LooksIndexed(f)' <=> LooksIndexed(f)
                       /\ LooksIndexed(f) => Still(f, fps[f])
  BY DEF StatOf, Still, LooksIndexed, project, prints
<1>2. StatsArePast' /\ ParsedIsCurrent'
  BY <1>1 DEF StatsArePast, ParsedIsCurrent, VersionInv, project, prints
<1>3. disk' = disk
  BY DEF project
<1>4. \A f \in Files : Still(f, scan[f]) \/ Still(f, fps[f])
        => parsed[f] \in {None, disk[f]}
  BY DEF VersionInv, ParsedIsCurrent
<1>5. NeverWrongVersion'
  BY <1>1, <1>3, <1>4 DEF NeverWrongVersion, VersionInv
<1> QED BY <1>1, <1>2, <1>3, <1>4, <1>5
LEMMA VersionInit == Init => VersionInv
<1> SUFFICES ASSUME Init PROVE VersionInv
    OBVIOUS
<1> USE DEF Init, Nothing
<1>1. TypeOK
  BY TypeInit
<1>2. StatsArePast /\ ParsedInRun /\ ParsedIsCurrent
  BY DEF StatsArePast, ParsedInRun, ParsedIsCurrent
<1>3. ScanIsTrusted /\ NeverWrongVersion
  BY DEF ScanIsTrusted, NeverWrongVersion, Stages
<1> QED BY <1>1, <1>2, <1>3 DEF VersionInv

LEMMA VersionStep ==
    ASSUME SameSecond = FALSE
    PROVE  VersionInv /\ [Next]_vars => VersionInv'
<1> SUFFICES ASSUME VersionInv, [Next]_vars PROVE VersionInv'
    OBVIOUS
<1>0. TypeOK /\ TypeOK'
  BY TypeStep DEF VersionInv
<1> DEFINE Inv == /\ StatsArePast /\ ParsedInRun /\ ParsedIsCurrent
                  /\ ScanIsTrusted /\ NeverWrongVersion
<1> SUFFICES Inv'
  BY <1>0 DEF VersionInv
<1> DEFINE Same == UNCHANGED <<project, prints, scan, parsed>>
           NewSymbols == \A f \in Files :
                            symbols'[f] \in {None, symbols[f], parsed[f]}
           Later == Stages \ {"clear", "detect", "clean"}
\* Steps from one stage after the comparison to the next.
<1>a. ASSUME Same, NewSymbols, pc \in Later, pc' \in Later \ {"cleanAffected"}
      PROVE  Inv'
  <2>1. ParsedInRun'
    BY <1>a DEF ParsedInRun, Stages
  <2> QED BY <1>a, <2>1, KeepTrust DEF ScanIsTrusted, VersionInv, Stages
\* Steps that leave the files alone and end in a stage before the comparison.
<1>b. ASSUME StatsArePast', NeverWrongVersion', parsed' = Nothing,
             pc' \in {"idle", "clear", "detect"}
      PROVE  Inv'
  BY <1>b DEF ParsedInRun, ParsedIsCurrent, Nothing, ScanIsTrusted, Stages
\* Runs that end.
<1>c. ASSUME Rest, UNCHANGED <<project, prints>>, NewSymbols PROVE Inv'
  <2>1. StatsArePast'
    BY <1>c DEF VersionInv, StatsArePast, Rest, Nothing, project, prints
  <2>2. NeverWrongVersion'
    <3>1. \A f \in Files : LooksIndexed(f)' => LooksIndexed(f) /\ Still(f, fps[f])
      BY <1>c DEF StatOf, Still, LooksIndexed, project, prints
    <3>2. disk' = disk
      BY <1>c DEF project
    <3> QED BY <1>c, <3>1, <3>2 DEF NeverWrongVersion, VersionInv, ParsedIsCurrent
  <2> QED BY <1>b, <1>c, <2>1, <2>2 DEF Rest
<1>1. ASSUME NEW f \in Files, NEW v \in Versions, NEW t \in {clock, clock + 1},
             Edit(f, v, t) \/ Create(f, v, t)
      PROVE  Inv'
  <2>1. /\ StatsArePast'
        /\ ~Still(f, scan[f])' /\ ~Still(f, fps[f])'
        /\ \A g \in Files \ {f} : disk'[g] = disk[g] /\ mtime'[g] = mtime[g]
    BY <1>0, <1>1, Rewritten DEF VersionInv
  <2>2. UNCHANGED <<prints, graph, run>>
    BY <1>1 DEF Edit, Create
  <2>4. \A g \in Files : /\ Still(g, scan[g])' => Still(g, scan[g]) /\ g # f
                         /\ Still(g, fps[g])' => Still(g, fps[g]) /\ g # f
    <3> SUFFICES ASSUME NEW g \in Files
                 PROVE  /\ Still(g, scan[g])' => Still(g, scan[g]) /\ g # f
                        /\ Still(g, fps[g])' => Still(g, fps[g]) /\ g # f
        OBVIOUS
    <3>1. CASE g = f
      BY <2>1, <3>1
    <3>2. CASE g # f
      BY <2>1, <2>2, <3>2 DEF Still, StatOf, prints, run
    <3> QED BY <3>1, <3>2
  <2>5. ParsedInRun' /\ ParsedIsCurrent'
    BY <2>1, <2>2, <2>4 DEF VersionInv, ParsedInRun, ParsedIsCurrent, Nothing, run
  <2>6. ScanIsTrusted'
    BY <2>1, <2>2, <2>4 DEF VersionInv, ScanIsTrusted, graph, run, diff
  <2>7. NeverWrongVersion'
    <3>1. \A g \in Files : /\ LooksIndexed(g)' => Still(g, fps[g])'
                           /\ Still(g, fps[g]) => LooksIndexed(g)
      BY DEF LooksIndexed, Still
    <3> QED BY <2>1, <2>2, <2>4, <3>1 DEF VersionInv, NeverWrongVersion, graph
  <2> QED BY <2>1, <2>5, <2>6, <2>7
<1>2. ASSUME NEW f \in Files, Delete(f) PROVE Inv'
  <2>1. UNCHANGED <<mtime, clock, prints, graph, run>>
    BY <1>2 DEF Delete
  <2>2. disk'[f] = None /\ \A g \in Files \ {f} : disk'[g] = disk[g]
    BY <1>0, <1>2 DEF Delete, TypeOK
  <2>3. \A g \in Files : /\ Still(g, scan[g])' => Still(g, scan[g]) /\ g # f
                         /\ Still(g, fps[g])' => Still(g, fps[g]) /\ g # f
    BY <2>1, <2>2 DEF Still, StatOf, prints, run
  <2>4. StatsArePast' /\ ParsedInRun' /\ ParsedIsCurrent'
    BY <2>1, <2>2, <2>3
       DEF VersionInv, StatsArePast, ParsedInRun, ParsedIsCurrent, Nothing, run,
           prints
  <2>5. ScanIsTrusted'
    BY <2>1, <2>2, <2>3 DEF VersionInv, ScanIsTrusted, graph, run, diff
  <2>6. NeverWrongVersion'
    <3>1. \A g \in Files : /\ LooksIndexed(g)' => Still(g, fps[g])'
                           /\ Still(g, fps[g]) => LooksIndexed(g)
      BY DEF LooksIndexed, Still
    <3> QED BY <2>1, <2>2, <2>3, <3>1 DEF VersionInv, NeverWrongVersion, graph
  <2> QED BY <2>4, <2>5, <2>6
<1>3. ASSUME NEW force \in BOOLEAN, Start(force) PROVE Inv'
  <2>1. \A f \in Files : scan'[f] = StatOf(f)
    BY <1>3 DEF Start
  <2>2. \A f \in Files : scan'[f] # None => scan'[f].mtime = mtime'[f]
    BY <1>3, <2>1 DEF Start, StatOf, project
  <2>3. StatsArePast'
    BY <1>0, <1>3, <2>2 DEF Start, VersionInv, StatsArePast, project, prints, TypeOK
  <2>4. NeverWrongVersion'
    BY <1>3 DEF Start, VersionInv, NeverWrongVersion, LooksIndexed, StatOf,
                project, prints, graph
  <2>5. parsed' = Nothing /\ pc' \in {"clear", "detect"}
    BY <1>3 DEF Start, VersionInv, ParsedInRun
  <2> QED BY <1>b, <2>3, <2>4, <2>5
<1>4. CASE Clear
  <2>1. Same
    BY <1>4 DEF Clear
  <2>2. \A f \in Files : symbols'[f] = None
    BY <1>4 DEF Clear, Nothing
  <2>3. pc' = "parse"
    BY <1>4 DEF Clear
  <2> QED BY <2>1, <2>2, <2>3, KeepTrust DEF ParsedInRun, ScanIsTrusted
<1>5. CASE Detect
  <2>1. Same /\ symbols' = symbols /\ pc' = "clean" /\ changed' = ChangedFiles
    BY <1>5 DEF Detect, prints, graph
  <2>2. parsed = Nothing
    BY <1>5 DEF Detect, VersionInv, ParsedInRun
  <2>3. \A f \in Files \ changed' : Still(f, scan[f]) => LooksIndexed(f)
    BY <1>0, <2>1, StatType, FilesAssumption
       DEF ChangedFiles, Scanned, Still, LooksIndexed, Stat
  <2>4. \A f \in Files \ changed' : Still(f, scan[f]) => symbols[f] \in {None, disk[f]}
    BY <2>3 DEF VersionInv, NeverWrongVersion
  <2> QED BY <2>1, <2>2, <2>4, KeepTrust DEF ParsedInRun, ScanIsTrusted
<1>6. CASE Clean
  <2>0. UNCHANGED <<project, prints>> /\ NewSymbols
    BY <1>0, <1>6, SymbolsKept DEF Clean
  <2>1. CASE changed # {} \/ deleted # {}
    <3>1. Same /\ pc' \in {"save", "cleanAffected"} /\ parsed' = Nothing
      BY <1>6, <2>1 DEF Clean, VersionInv, ParsedInRun
    <3>2. \A f \in changed : symbols'[f] = None
      BY <1>0, <1>6 DEF Clean, Drop, TypeOK
    <3>3. \A f \in Files : Still(f, scan[f])' => symbols'[f] \in {None, disk'[f]}
      BY <1>6, <2>0, <3>1, <3>2, KeepTrust DEF Clean, VersionInv, ScanIsTrusted
    <3> QED BY <2>0, <3>1, <3>3, KeepTrust DEF ParsedInRun, ScanIsTrusted
  <2>2. CASE ~(changed # {} \/ deleted # {})
    BY <1>6, <1>c, <2>0, <2>2 DEF Clean
  <2> QED BY <2>1, <2>2
<1>7. CASE CleanAffected
  <2>1. NewSymbols
    BY <1>0, <1>7, SymbolsKept DEF CleanAffected
  <2> QED BY <1>7, <1>a, <2>1 DEF CleanAffected, Stages
<1>8. ASSUME NEW f \in Files, Parse(f) PROVE Inv'
  <2>1. /\ UNCHANGED <<project, prints, graph, pc, scan, diff>>
        /\ pc = "parse"
    BY <1>8 DEF Parse
  <2>2. PICK read \in {disk[f], None} : parsed' = [parsed EXCEPT ![f] = read]
    BY <1>8 DEF Parse
  <2>3. parsed'[f] \in {None, disk[f]} /\ \A g \in Files \ {f} : parsed'[g] = parsed[g]
    BY <1>0, <2>2 DEF TypeOK
  <2>4. \A g \in Files : /\ Still(g, scan[g])' <=> Still(g, scan[g])
                         /\ Still(g, fps[g])' <=> Still(g, fps[g])
                         /\ LooksIndexed(g)' <=> LooksIndexed(g)
    BY <2>1 DEF Still, StatOf, LooksIndexed, project, prints
  <2>5. StatsArePast' /\ ParsedInRun'
    BY <2>1 DEF VersionInv, StatsArePast, ParsedInRun, project, prints
  <2>6. ParsedIsCurrent'
    BY <2>1, <2>3, <2>4 DEF VersionInv, ParsedIsCurrent, project
  <2>7. ScanIsTrusted' /\ NeverWrongVersion'
    BY <2>1, <2>4 DEF VersionInv, ScanIsTrusted, NeverWrongVersion, project,
                      graph, diff
  <2> QED BY <2>5, <2>6, <2>7
<1>9. CASE WriteFileNodes
  <2>1. NewSymbols
    BY <1>0, <1>9, SymbolsKept DEF WriteFileNodes
  <2> QED BY <1>9, <1>a, <2>1 DEF WriteFileNodes, Stages
<1>10. CASE WriteSymbols
  <2>1. NewSymbols
    BY <1>10 DEF WriteSymbols, PutSymbols
  <2> QED BY <1>10, <1>a, <2>1 DEF WriteSymbols, Stages
<1>11. CASE WriteImports
  <2>1. NewSymbols
    BY <1>0, <1>11, SymbolsKept DEF WriteImports
  <2> QED BY <1>11, <1>a, <2>1 DEF WriteImports, Stages
<1>12. CASE WriteCalls
  <2>1. NewSymbols
    BY <1>0, <1>12, SymbolsKept DEF WriteCalls
  <2> QED BY <1>12, <1>a, <2>1 DEF WriteCalls, Stages
<1>13. CASE SaveBegin
  <2>1. /\ UNCHANGED <<project, symbols, scan, parsed>> /\ fps' = Nothing
        /\ pc = "save" /\ pc' = "saving"
    BY <1>13 DEF SaveBegin, graph
  <2>2. \A f \in Files : Still(f, scan[f])' <=> Still(f, scan[f])
    BY <2>1 DEF Still, StatOf, project
  <2>3. \A f \in Files : ~Still(f, fps[f])' /\ ~LooksIndexed(f)'
    <3>1. \A f \in Files : disk'[f] # None => (StatOf(f))' = StatOf(f) /\ StatOf(f) # None
      BY <1>0, <2>1, StatType, FilesAssumption DEF StatOf, project, Stat
    <3> QED BY <2>1, <3>1 DEF Still, LooksIndexed, Nothing
  <2>4. StatsArePast' /\ ParsedInRun'
    BY <2>1 DEF VersionInv, StatsArePast, ParsedInRun, Nothing, project
  <2>5. ParsedIsCurrent' /\ NeverWrongVersion'
    BY <2>1, <2>2, <2>3 DEF VersionInv, ParsedIsCurrent, NeverWrongVersion, project
  <2>6. ScanIsTrusted'
    BY <2>1, <2>2 DEF VersionInv, ScanIsTrusted, Stages, project
  <2> QED BY <2>4, <2>5, <2>6
<1>14. CASE SaveEnd
  <2>1. /\ UNCHANGED <<project, symbols>> /\ fps' = scan /\ pc = "saving"
        /\ scan' = Nothing /\ parsed' = Nothing /\ pc' = "idle"
    BY <1>14 DEF SaveEnd, Rest, graph
  <2>2. StatsArePast'
    BY <2>1 DEF VersionInv, StatsArePast, Nothing, project
  <2>3. \A f \in Files : LooksIndexed(f)' => Still(f, scan[f])
    BY <2>1 DEF LooksIndexed, Still, StatOf, project
  <2>4. NeverWrongVersion'
    BY <2>1, <2>3 DEF VersionInv, ScanIsTrusted, NeverWrongVersion, Stages, project
  <2> QED BY <1>b, <2>1, <2>2, <2>4
<1>15. CASE Abort
  <2>1. UNCHANGED <<project, prints>> /\ Rest
    BY <1>15 DEF Abort
  <2>2. CASE UNCHANGED graph
    BY <2>2, <2>1, <1>c DEF graph
  <2>3. CASE symbols' \in {symbols, Nothing}
    BY <2>3, <2>1, <1>c DEF Nothing
  <2>4. ASSUME NEW S, Drop(S) \/ PutFileNodes(S) \/ PutImports(S) \/ PutCalls(S)
        PROVE  Inv'
    BY <1>0, <2>4, <2>1, <1>c, SymbolsKept
  <2>5. ASSUME NEW S, PutSymbols(S) PROVE Inv'
    BY <2>5, <2>1, <1>c DEF PutSymbols
  <2> QED BY <1>15, <2>2, <2>3, <2>4, <2>5 DEF Abort
<1>16. CASE UNCHANGED vars
  BY <1>16 DEF vars, project, prints, graph, run, diff, VersionInv, StatsArePast,
               ParsedInRun, ParsedIsCurrent, ScanIsTrusted, NeverWrongVersion,
               LooksIndexed, Still, StatOf
<1> QED BY <1>1, <1>2, <1>3, <1>4, <1>5, <1>6, <1>7, <1>8, <1>9, <1>10, <1>11,
           <1>12, <1>13, <1>14, <1>15, <1>16 DEF Next, Developer, Step

\* When no two contents of a file share their second, a file that looks
\* indexed is never in the graph with another content than the one on disk,
\* whatever is edited while an index run is under way and wherever runs stop.
THEOREM VersionsAreRight ==
    ASSUME SameSecond = FALSE
    PROVE  Spec => []NeverWrongVersion
<1>1. VersionInv => NeverWrongVersion
  BY DEF VersionInv
<1> QED BY VersionInit, VersionStep, <1>1, PTL DEF Spec
-----------------------------------------------------------------------------
(* Skipped files.                                                          *)

\* f is in the graph with its content on disk.
Current(f) == f \in fileNodes /\ symbols[f] = disk[f]

\* A file with the stat s was not reported, so it should be in the graph.
Reliable(f, s) == Still(f, s) /\ f \notin reported

\* The invariant, stage by stage: which files are known to be current.
FingerprintsComplete == fpFile # "ok" => fps = Nothing

SkipBefore ==
    pc \in {"idle", "detect"} =>
       \A f \in Files : Reliable(f, fps[f]) => Current(f)

SkipCompared ==
    pc = "clean" =>
       /\ changed = ChangedFiles /\ deleted = Known \ Scanned
       /\ \A f \in Files : Reliable(f, fps[f]) => Current(f)

SkipCleaning ==
    pc = "cleanAffected" =>
       \A f \in Files \ (changed \union affected) :
          Reliable(f, scan[f]) => Current(f)

SkipAfter ==
    pc \in {"parse", "symbols", "imports", "calls", "save", "saving"} =>
       \A f \in Files \ batch : Reliable(f, scan[f]) => Current(f)

BatchStarts ==
    pc \in {"idle", "clear", "detect", "clean", "cleanAffected"} => batch = {}

BatchDone ==
    /\ pc \in {"symbols", "imports", "calls", "save", "saving"} =>
         batch \subseteq fileNodes
    /\ pc \in {"imports", "calls", "save", "saving"} =>
         \A f \in batch : symbols[f] = parsed[f]

SkipInv ==
    /\ FingerprintsComplete
    /\ SkipBefore /\ SkipCompared /\ SkipCleaning /\ SkipAfter
    /\ BatchStarts /\ BatchDone

\* None is nobody's stat.
LEMMA StillIsStat ==
    ASSUME TypeOK, NEW f \in Files, NEW s, Still(f, s)
    PROVE  s # None
BY StatType, FilesAssumption DEF Still, Stat

LEMMA SkipInit == Init => SkipInv
<1> SUFFICES ASSUME Init PROVE SkipInv
    OBVIOUS
<1>1. TypeOK
  BY TypeInit
<1>2. \A f \in Files : ~Still(f, fps[f])
  BY <1>1, StillIsStat DEF Init, Nothing
<1> QED BY <1>2 DEF Init, SkipInv, FingerprintsComplete, SkipBefore, SkipCompared,
           SkipCleaning, SkipAfter, BatchStarts, BatchDone, Reliable

\* A step of the developer makes no stat valid and changes no file whose stat
\* stays valid.
LEMMA DeveloperSteps ==
    ASSUME SameSecond = FALSE, TypeOK, TypeOK', StatsArePast, NEW f \in Files,
           \/ \E v \in Versions, t \in {clock, clock + 1} :
                 Edit(f, v, t) \/ Create(f, v, t)
           \/ Delete(f)
    PROVE  /\ UNCHANGED <<prints, graph, run, aborts>>
           /\ \A g \in Files :
                 /\ Still(g, scan[g])' => Still(g, scan[g]) /\ disk'[g] = disk[g]
                 /\ Still(g, fps[g])' => Still(g, fps[g]) /\ disk'[g] = disk[g]
<1>1. UNCHANGED <<prints, graph, run, aborts>>
  BY DEF Edit, Create, Delete
<1>2. CASE \E v \in Versions, t \in {clock, clock + 1} :
             Edit(f, v, t) \/ Create(f, v, t)
  <2>1. /\ ~Still(f, scan[f])' /\ ~Still(f, fps[f])'
        /\ \A g \in Files \ {f} : disk'[g] = disk[g] /\ mtime'[g] = mtime[g]
    BY <1>2, Rewritten
  <2> SUFFICES ASSUME NEW g \in Files
               PROVE  /\ Still(g, scan[g])' => Still(g, scan[g]) /\ disk'[g] = disk[g]
                      /\ Still(g, fps[g])' => Still(g, fps[g]) /\ disk'[g] = disk[g]
    BY <1>1
  <2>2. CASE g = f
    BY <2>1, <2>2
  <2>3. CASE g # f
    BY <1>1, <2>1, <2>3 DEF Still, StatOf, prints, run
  <2> QED BY <2>2, <2>3
<1>3. CASE Delete(f)
  <2>1. disk'[f] = None /\ mtime' = mtime
        /\ \A g \in Files \ {f} : disk'[g] = disk[g]
    BY <1>3 DEF Delete, TypeOK
  <2> QED BY <1>1, <2>1 DEF Still, StatOf, prints, run
<1> QED BY <1>2, <1>3

LEMMA SkipStep ==
    ASSUME SameSecond = FALSE, "ok" \notin AbortsWith
    PROVE  VersionInv /\ VersionInv' /\ SkipInv /\ [Next]_vars => SkipInv'
<1> SUFFICES ASSUME VersionInv, VersionInv', SkipInv, [Next]_vars PROVE SkipInv'
    OBVIOUS
<1>0. TypeOK /\ TypeOK' /\ StatsArePast /\ ParsedIsCurrent
  BY DEF VersionInv
<1> USE DEF SkipInv
<1> DEFINE Stages0 == {"idle", "clear", "detect", "clean", "cleanAffected"}
           Stages1 == {"parse", "symbols", "imports", "calls", "save", "saving"}
\* With the project and all stats alone, reliable files stay so.
<1>a. ASSUME UNCHANGED <<project, prints, scan>>
      PROVE  \A f \in Files : /\ Reliable(f, fps[f])' <=> Reliable(f, fps[f])
                              /\ Reliable(f, scan[f])' <=> Reliable(f, scan[f])
  BY <1>a DEF Reliable, Still, StatOf, project, prints
\* No fingerprints, no reliable file.
<1>b. ASSUME fps' = Nothing PROVE \A f \in Files : ~Reliable(f, fps[f])'
  <2> SUFFICES ASSUME NEW f \in Files PROVE ~Still(f, fps[f])'
      BY DEF Reliable
  <2>1. disk'[f] # None => (StatOf(f))' # None
    BY <1>0, FilesAssumption DEF StatOf, TypeOK
  <2> QED BY <1>b, <2>1 DEF Still, Nothing
\* A run ends, with the fingerprints and the graph agreeing.
<1>c. ASSUME Rest, FingerprintsComplete',
             \A f \in Files : Reliable(f, fps[f])' => Current(f)'
      PROVE  SkipInv'
  BY <1>c DEF Rest, SkipBefore, SkipCompared, SkipCleaning, SkipAfter, BatchStarts,
              BatchDone
\* Writing stages: the files outside the batch are left alone.
<1>d. ASSUME UNCHANGED <<project, prints, scan, batch>>, pc \in Stages1, pc' \in Stages1,
             BatchDone', \A f \in Files \ batch : Current(f) => Current(f)'
      PROVE  SkipInv'
  <2>1. SkipAfter'
    BY <1>a, <1>d DEF SkipAfter
  <2>2. FingerprintsComplete'
    BY <1>d DEF FingerprintsComplete, prints
  <2> QED BY <1>d, <2>1, <2>2 DEF SkipBefore, SkipCompared, SkipCleaning, BatchStarts
<1>1. ASSUME NEW f \in Files,
             \/ \E v \in Versions, t \in {clock, clock + 1} :
                   Edit(f, v, t) \/ Create(f, v, t)
             \/ Delete(f)
      PROVE  SkipInv'
  <2>1. UNCHANGED <<prints, graph, run, aborts>>
    BY <1>0, <1>1, DeveloperSteps
  <2>2. \A g \in Files :
           /\ Reliable(g, scan[g])' => Reliable(g, scan[g]) /\ disk'[g] = disk[g]
           /\ Reliable(g, fps[g])' => Reliable(g, fps[g]) /\ disk'[g] = disk[g]
    <3> SUFFICES ASSUME NEW g \in Files
        PROVE /\ Reliable(g, scan[g])' => Reliable(g, scan[g]) /\ disk'[g] = disk[g]
              /\ Reliable(g, fps[g])' => Reliable(g, fps[g]) /\ disk'[g] = disk[g]
        OBVIOUS
    <3>1. /\ Still(g, scan[g])' => Still(g, scan[g]) /\ disk'[g] = disk[g]
          /\ Still(g, fps[g])' => Still(g, fps[g]) /\ disk'[g] = disk[g]
      BY <1>0, <1>1, DeveloperSteps
    <3> QED BY <2>1, <3>1 DEF Reliable, prints
  <2>3. \A g \in Files : Current(g) /\ disk'[g] = disk[g] => Current(g)'
    BY <2>1 DEF Current, graph
  <2>4. SkipBefore' /\ SkipCleaning' /\ SkipAfter'
    BY <2>1, <2>2, <2>3 DEF SkipBefore, SkipCleaning, SkipAfter, run, diff
  <2>5. SkipCompared'
    BY <2>1, <2>2, <2>3 DEF SkipCompared, ChangedFiles, Known, Scanned, run, diff, prints
  <2>6. FingerprintsComplete' /\ BatchStarts' /\ BatchDone'
    BY <2>1 DEF FingerprintsComplete, BatchStarts, BatchDone, run, prints, graph
  <2> QED BY <2>4, <2>5, <2>6
<1>2. ASSUME NEW force \in BOOLEAN, Start(force) PROVE SkipInv'
  <2>1. \A f \in Files : Reliable(f, fps[f])' <=> Reliable(f, fps[f])
    BY <1>2 DEF Start, Reliable, Still, StatOf, project, prints
  <2>2. \A f \in Files : Current(f)' <=> Current(f)
    BY <1>2 DEF Start, Current, project, graph
  <2> QED BY <1>2, <2>1, <2>2
          DEF Start, FingerprintsComplete, SkipBefore, SkipCompared, SkipCleaning,
              SkipAfter, BatchStarts, BatchDone, prints
<1>3. CASE Clear
  <2>1. SkipAfter'
    <3>1. \A f \in Files \ batch' : scan'[f] = None
      BY <1>3 DEF Clear, Scanned
    <3> SUFFICES ASSUME NEW f \in Files \ batch' PROVE ~Still(f, scan[f])'
        BY DEF SkipAfter, Reliable
    <3>2. ~Still(f, scan[f])
      BY <1>0, <1>3, <3>1, StillIsStat DEF Clear
    <3> QED BY <1>3, <3>2 DEF Clear, Still, StatOf, project
  <2> QED BY <1>3, <2>1 DEF Clear, FingerprintsComplete, SkipBefore, SkipCompared,
             SkipCleaning, BatchStarts, BatchDone, prints
<1>4. CASE Detect
  <2>1. /\ UNCHANGED <<project, prints, graph, scan, batch>> /\ pc = "detect"
        /\ pc' = "clean" /\ changed' = ChangedFiles /\ deleted' = Known \ Scanned
    BY <1>4 DEF Detect
  <2>2. SkipCompared'
    <3>1. \A f \in Files : Reliable(f, fps[f])' => Current(f)
      BY <1>a, <2>1 DEF SkipBefore
    <3>2. \A f \in Files : Current(f)' <=> Current(f)
      BY <2>1 DEF Current, project, graph
    <3> QED BY <2>1, <3>1, <3>2
            DEF SkipCompared, ChangedFiles, Known, Scanned, prints
  <2> QED BY <2>1, <2>2 DEF FingerprintsComplete, SkipBefore, SkipCleaning, SkipAfter,
             BatchStarts, BatchDone, prints
<1>5. CASE Clean
  <2>1. /\ UNCHANGED <<project, prints>> /\ pc = "clean" /\ batch = {}
        /\ Drop(deleted \union changed) /\ changed = ChangedFiles
        /\ deleted = Known \ Scanned
    BY <1>5 DEF Clean, SkipCompared, BatchStarts
  \* What is scanned and unchanged stays in the graph.
  <2>2. \A f \in Files \ changed : Reliable(f, scan[f]) => Current(f)'
    <3> SUFFICES ASSUME NEW f \in Files \ changed, Reliable(f, scan[f])
                 PROVE  Current(f)'
        OBVIOUS
    <3>1. f \in Scanned /\ fps[f] = scan[f]
      BY <1>0, <2>1, StillIsStat DEF Reliable, ChangedFiles, Scanned
    <3>2. Current(f)
      BY <2>1, <3>1 DEF SkipCompared, Reliable
    <3> QED BY <1>0, <2>1, <3>1, <3>2 DEF Drop, Current, project, Known, TypeOK
  <2>3. CASE changed # {} \/ deleted # {}
    <3>1. /\ UNCHANGED <<scan, diff, batch>>
          /\ pc' = IF changed = {} THEN "save" ELSE "cleanAffected"
      BY <1>5, <2>3 DEF Clean
    <3>2. \A f \in Files \ changed : Reliable(f, scan[f])' => Current(f)'
      BY <1>a, <2>1, <2>2, <3>1
    <3>3. CASE changed = {}
      BY <2>1, <3>1, <3>2, <3>3 DEF FingerprintsComplete, SkipBefore, SkipCompared,
         SkipCleaning, SkipAfter, BatchStarts, BatchDone, prints
    <3>4. CASE changed # {}
      BY <2>1, <3>1, <3>2, <3>4 DEF FingerprintsComplete, SkipBefore, SkipCompared,
         SkipCleaning, SkipAfter, BatchStarts, BatchDone, prints, diff
    <3> QED BY <3>3, <3>4
  <2>4. CASE changed = {} /\ deleted = {}
    <3>1. Rest
      BY <1>5, <2>4 DEF Clean
    <3>2. \A f \in Files : Reliable(f, fps[f])' => Current(f)'
      <4> SUFFICES ASSUME NEW f \in Files, Reliable(f, fps[f])' PROVE Current(f)'
          OBVIOUS
      <4>1. Reliable(f, fps[f])
        BY <2>1 DEF Reliable, Still, StatOf, project, prints
      <4>2. fps[f] = scan[f]
        BY <1>0, <2>1, <2>4, <4>1, StillIsStat
           DEF Reliable, ChangedFiles, Known, Scanned
      <4> QED BY <2>2, <2>4, <4>1, <4>2
    <3> QED BY <1>c, <2>1, <3>1, <3>2 DEF FingerprintsComplete, prints
  <2> QED BY <2>3, <2>4
<1>6. CASE CleanAffected
  <2>1. /\ UNCHANGED <<project, prints, scan>> /\ pc = "cleanAffected"
        /\ pc' = "parse" /\ Drop(affected) /\ batch' = changed \union affected
    BY <1>6 DEF CleanAffected, FilesToParse
  <2>2. \A f \in Files \ affected : Current(f) => Current(f)'
    BY <2>1 DEF Drop, Current, project
  <2>3. SkipAfter'
    BY <1>a, <2>1, <2>2 DEF SkipCleaning, SkipAfter
  <2> QED BY <2>1, <2>3 DEF FingerprintsComplete, SkipBefore, SkipCompared,
             SkipCleaning, BatchStarts, BatchDone, prints
<1>7. ASSUME NEW f \in Files, Parse(f) PROVE SkipInv'
  BY <1>7, <1>d DEF Parse, BatchDone, Current, project, graph
<1>8. CASE WriteFileNodes
  BY <1>8, <1>d DEF WriteFileNodes, PutFileNodes, BatchDone, Current, project
<1>9. CASE WriteSymbols
  <2>1. BatchDone'
    BY <1>0, <1>9 DEF WriteSymbols, PutSymbols, BatchDone, TypeOK
  <2> QED BY <1>0, <1>9, <1>d, <2>1 DEF WriteSymbols, PutSymbols, Current, project
<1>10. CASE WriteImports
  BY <1>10, <1>d DEF WriteImports, PutImports, BatchDone, Current, project
<1>11. CASE WriteCalls
  BY <1>11, <1>d DEF WriteCalls, PutCalls, BatchDone, Current, project
<1>12. CASE SaveBegin
  <2>1. /\ UNCHANGED <<project, reported, graph, scan, batch, parsed>>
        /\ fps' = Nothing /\ pc = "save" /\ pc' = "saving"
    BY <1>12 DEF SaveBegin
  <2>2. \A f \in Files : Reliable(f, scan[f])' <=> Reliable(f, scan[f])
    BY <2>1 DEF Reliable, Still, StatOf, project
  <2>3. \A f \in Files : Current(f)' <=> Current(f)
    BY <2>1 DEF Current, project, graph
  <2>4. SkipAfter' /\ BatchDone'
    BY <2>1, <2>2, <2>3 DEF SkipAfter, BatchDone, graph
  <2> QED BY <2>1, <2>4 DEF FingerprintsComplete, SkipBefore, SkipCompared,
             SkipCleaning, BatchStarts
<1>13. CASE SaveEnd
  <2>1. /\ UNCHANGED <<project, graph>> /\ fps' = scan /\ pc = "saving" /\ Rest
        /\ fpFile' = "ok"
        /\ reported' = {f \in Scanned :
                           IF f \in batch THEN parsed[f] = None ELSE f \in reported}
    BY <1>13 DEF SaveEnd
  <2>2. \A f \in Files : Reliable(f, fps[f])' => Current(f)'
    <3> SUFFICES ASSUME NEW f \in Files, Reliable(f, fps[f])' PROVE Current(f)'
        OBVIOUS
    <3>1. Still(f, scan[f]) /\ f \notin reported'
      BY <2>1 DEF Reliable, Still, StatOf, project
    <3>2. f \in Scanned
      BY <1>0, <3>1, StillIsStat DEF Scanned
    <3>3. Current(f)
      <4>1. CASE f \in batch
        BY <1>0, <2>1, <3>1, <3>2, <4>1 DEF BatchDone, Current, ParsedIsCurrent
      <4>2. CASE f \notin batch
        BY <2>1, <3>1, <3>2, <4>2 DEF SkipAfter, Reliable
      <4> QED BY <4>1, <4>2
    <3> QED BY <2>1, <3>3 DEF Current, project, graph
  <2> QED BY <1>c, <2>1, <2>2 DEF FingerprintsComplete
<1>14. CASE Abort
  <2>1. UNCHANGED <<project, prints>> /\ Rest /\ fpFile # "ok"
    BY <1>14 DEF Abort
  <2>2. fps' = Nothing
    BY <2>1 DEF FingerprintsComplete, prints
  <2> QED BY <1>b, <1>c, <2>1, <2>2 DEF FingerprintsComplete
<1>15. CASE UNCHANGED vars
  BY <1>15 DEF vars, project, prints, graph, run, diff, FingerprintsComplete,
     SkipBefore, SkipCompared, SkipCleaning, SkipAfter, BatchStarts, BatchDone,
     Reliable, Current, Still, StatOf, ChangedFiles, Known, Scanned
<1> QED BY <1>1, <1>2, <1>3, <1>4, <1>5, <1>6, <1>7, <1>8, <1>9, <1>10, <1>11,
           <1>12, <1>13, <1>14, <1>15 DEF Next, Developer, Step

\* If runs are cut short only while no fingerprints are stored, and no two
\* contents of a file share their second, every file the next incremental run
\* will skip is in the graph with its content on disk.
THEOREM SkippedFilesAreCurrent ==
    ASSUME SameSecond = FALSE, "ok" \notin AbortsWith
    PROVE  Spec => []SkippedIsCurrent
<1>1. TypeOK /\ SkipInv => SkippedIsCurrent
  <2> SUFFICES ASSUME TypeOK, SkipInv, pc = "idle", NEW f \in Files,
                      LooksIndexed(f), f \notin reported
               PROVE  f \in fileNodes /\ symbols[f] = disk[f]
      BY DEF SkippedIsCurrent
  <2>1. Reliable(f, fps[f])
    BY DEF LooksIndexed, Reliable, Still
  <2> QED BY <2>1 DEF SkipInv, SkipBefore, Current
<1>2. VersionInv => TypeOK
  BY DEF VersionInv
<1> QED BY VersionInit, VersionStep, SkipInit, SkipStep, <1>1, <1>2, PTL DEF Spec

-----------------------------------------------------------------------------
(* Same as a full index.                                                   *)

\* No file appears while the project is indexed.
NoNewFiles == "create" \notin UserOps

\* A file imports what the files it imports do (cycles of two apart).
ImportsAreTransitive ==
    \A f, g, h \in Files, v, w \in Versions :
       f \notin {g, h} /\ g \in ImportsOf[f][v] /\ h \in ImportsOf[g][w]
         => h \in ImportsOf[f][v]

\* What a file calls in other files, it imports.
CallsAreImported ==
    \A f \in Files, v \in Versions : CallsOf[f][v] \subseteq ImportsOf[f][v] \union {f}

\* What is on disk was there when it was scanned.
ExistInv ==
    /\ FingerprintsComplete
    /\ fpFile = "ok" => \A f \in Files : disk[f] # None => f \in Known
    /\ pc # "idle" => \A f \in Files : disk[f] # None => f \in Scanned
    /\ pc \in {"detect", "clean"} => Scanned \subseteq Known

\* The files whose nodes f refers to.
ImportedBy(f) == IF symbols[f] = None THEN {} ELSE ImportsOf[f][symbols[f]]
CalledBy(f) ==
    IF symbols[f] = None THEN {}
    ELSE {g \in CallsOf[f][symbols[f]] : symbols[g] # None}

ImportsDone(f) == \A g \in ImportedBy(f) \intersect fileNodes : <<f, g>> \in imports
CallsDone(f) == \A g \in CalledBy(f) : <<f, g>> \in calls

\* f has its edges, and none of them is to a file of S.
Apart(f, S) ==
    ImportsDone(f) /\ CallsDone(f) /\ ImportedBy(f) \intersect Scanned \intersect S = {}

NodesMatch ==
    /\ \A f \in Files : symbols[f] # None => f \in fileNodes
    /\ pc \in {"idle", "detect", "clean"} => fileNodes = Known
    /\ pc \in {"idle", "clear", "detect", "clean"} => batch = {}
    /\ pc = "cleanAffected" =>
         fileNodes = Scanned \ changed /\ changed \union affected \subseteq Scanned
    /\ pc = "parse" => fileNodes = Scanned \ batch /\ batch \subseteq Scanned
    /\ pc \in {"symbols", "imports", "calls", "save", "saving"} =>
         fileNodes = Scanned /\ batch \subseteq Scanned

EdgesMatch ==
    /\ pc \in {"idle", "detect", "clean", "save", "saving"} =>
         \A f \in Files : ImportsDone(f) /\ CallsDone(f)
    /\ pc = "clean" =>
         /\ changed = ChangedFiles /\ deleted = Known \ Scanned
         /\ affected = Importers(changed \union deleted)
    /\ pc = "cleanAffected" =>
         \A f \in Files \ (changed \union affected) : Apart(f, changed \union affected)
    /\ pc \in {"parse", "symbols", "imports"} =>
         \A f \in Files \ batch : Apart(f, batch)
    /\ pc = "calls" =>
         /\ \A f \in Files : ImportsDone(f)
         /\ \A f \in Files \ batch : CallsDone(f)

MatchInv == aborts = 0 => NodesMatch /\ EdgesMatch

LEMMA ExistInit == Init => ExistInv
BY DEF Init, ExistInv, FingerprintsComplete

LEMMA ExistStep ==
    ASSUME NoNewFiles
    PROVE  TypeOK /\ ExistInv /\ [Next]_vars => ExistInv'
<1> SUFFICES ASSUME TypeOK, ExistInv, [Next]_vars PROVE ExistInv'
    OBVIOUS
<1> USE DEF ExistInv, FingerprintsComplete
\* Steps that leave the files, the fingerprints and the scan alone.
<1>a. ASSUME UNCHANGED <<disk, fpFile, fps, scan>>, pc # "idle",
             pc' \in {"detect", "clean"} => pc \in {"detect", "clean"}
      PROVE  ExistInv'
  BY <1>a DEF Known, Scanned
\* Steps that end a run.
<1>b. ASSUME UNCHANGED <<disk, fpFile, fps>>, pc' = "idle" PROVE ExistInv'
  BY <1>b DEF Known
\* A step of the developer: no file comes into being.
<1>c. ASSUME UNCHANGED <<prints, run>>,
             \A f \in Files : disk'[f] # None => disk[f] # None
      PROVE  ExistInv'
  BY <1>c DEF Known, Scanned, prints, run
<1>1. ASSUME NEW f \in Files, NEW v \in Versions, NEW t \in {clock, clock + 1},
             Edit(f, v, t) \/ Create(f, v, t)
      PROVE  ExistInv'
  BY <1>1, <1>c DEF Edit, Create, NoNewFiles, TypeOK
<1>2. ASSUME NEW f \in Files, Delete(f) PROVE ExistInv'
  BY <1>2, <1>c DEF Delete, TypeOK
<1>3. ASSUME NEW force \in BOOLEAN, Start(force) PROVE ExistInv'
  <2>1. UNCHANGED <<disk, fpFile, fps>> /\ \A f \in Files : scan'[f] = StatOf(f)
    BY <1>3 DEF Start, project, prints
  <2>2. \A f \in Files : disk[f] # None <=> scan'[f] # None
    <3> SUFFICES ASSUME NEW f \in Files PROVE disk[f] # None <=> StatOf(f) # None
        BY <2>1
    <3>1. disk[f] # None => StatOf(f) \in Stat
      BY StatType
    <3>2. disk[f] = None => StatOf(f) = None
      BY DEF StatOf
    <3> QED BY <3>1, <3>2, FilesAssumption DEF Stat
  <2>3. pc' = "detect" => fpFile = "ok"
    <3>1. pc' = "detect" => fpFile # "torn" /\ Known # {}
      BY <1>3 DEF Start, FullNeeded
    <3>2. fps = Nothing => Known = {}
      BY DEF Known, Nothing
    <3> QED BY <3>1, <3>2
  <2>4. pc' \in {"clear", "detect"}
    BY <1>3 DEF Start
  <2> QED BY <2>1, <2>2, <2>3, <2>4 DEF Known, Scanned
<1>4. CASE Clear
  BY <1>4, <1>a DEF Clear, project, prints
<1>5. CASE Detect
  BY <1>5, <1>a DEF Detect, project, prints
<1>6. CASE Clean
  BY <1>6, <1>a, <1>b DEF Clean, Rest, project, prints
<1>7. CASE CleanAffected
  BY <1>7, <1>a DEF CleanAffected, project, prints
<1>8. ASSUME NEW f \in Files, Parse(f) PROVE ExistInv'
  BY <1>8, <1>a DEF Parse, project, prints
<1>9. CASE WriteFileNodes \/ WriteSymbols \/ WriteImports \/ WriteCalls
  BY <1>9, <1>a DEF WriteFileNodes, WriteSymbols, WriteImports, WriteCalls, project, prints
<1>10. CASE SaveBegin
  BY <1>10 DEF SaveBegin, project, Scanned
<1>11. CASE SaveEnd
  BY <1>11 DEF SaveEnd, Rest, project, Known, Scanned
<1>12. CASE Abort
  BY <1>12, <1>b DEF Abort, Rest, project, prints
<1>13. CASE UNCHANGED vars
  BY <1>13, <1>c DEF vars, project
<1> QED BY <1>1, <1>2, <1>3, <1>4, <1>5, <1>6, <1>7, <1>8, <1>9, <1>10, <1>11, <1>12,
           <1>13 DEF Next, Developer, Step

\* Where the graph does not change, nor does what its files refer to.
LEMMA GraphSays ==
    ASSUME UNCHANGED graph, UNCHANGED scan
    PROVE  \A f : /\ ImportsDone(f)' <=> ImportsDone(f)
                  /\ CallsDone(f)' <=> CallsDone(f)
                  /\ \A S : Apart(f, S)' <=> Apart(f, S)
<1>1. \A f : ImportedBy(f)' = ImportedBy(f) /\ CalledBy(f)' = CalledBy(f)
  BY DEF graph, ImportedBy, CalledBy
<1>2. \A f : (ImportsDone(f)' <=> ImportsDone(f)) /\ (CallsDone(f)' <=> CallsDone(f))
  BY <1>1 DEF graph, ImportsDone, CallsDone
<1> QED BY <1>1, <1>2 DEF Apart, Scanned

\* Deleting nodes takes no edge from the files that stay and whose targets stay.
LEMMA DropDone ==
    ASSUME TypeOK, NEW S \in SUBSET Files, Drop(S), NEW f \in Files \ S,
           ImportsDone(f), CallsDone(f)
    PROVE  /\ ImportsDone(f)' /\ CallsDone(f)'
           /\ ImportedBy(f)' = ImportedBy(f)
<1>1. symbols'[f] = symbols[f] /\ ImportedBy(f)' = ImportedBy(f)
  BY DEF Drop, ImportedBy
<1>2. ImportsDone(f)'
  BY <1>1 DEF Drop, ImportsDone
<1>3. CalledBy(f)' \subseteq CalledBy(f) /\ CalledBy(f)' \intersect S = {}
  <2> SUFFICES ASSUME NEW g \in CalledBy(f)' PROVE g \in CalledBy(f) /\ g \notin S
      OBVIOUS
  <2>1. symbols[f] # None /\ g \in CallsOf[f][symbols[f]] /\ symbols'[g] # None
    BY <1>1 DEF CalledBy
  <2>2. g \in Files
    BY <2>1, FilesAssumption DEF TypeOK
  <2> QED BY <2>1, <2>2 DEF CalledBy, Drop
<1>4. CallsDone(f)'
  BY <1>3 DEF Drop, CallsDone
<1> QED BY <1>1, <1>2, <1>4

LEMMA ImportedAreFiles ==
    ASSUME TypeOK, NEW f \in Files
    PROVE  ImportedBy(f) \subseteq Files /\ CalledBy(f) \subseteq Files
BY FilesAssumption DEF TypeOK, ImportedBy, CalledBy

\* Whoever refers to a file that is indexed again is indexed again.
LEMMA NobodyLeftBehind ==
    ASSUME ImportsAreTransitive, TypeOK, EdgesJustified, pc = "clean",
           Scanned \subseteq Known, NodesMatch, EdgesMatch,
           NEW f \in Files \ (changed \union deleted \union affected)
    PROVE  ImportedBy(f) \intersect Scanned \intersect (changed \union affected) = {}
<1>0. /\ changed = ChangedFiles /\ deleted = Known \ Scanned
      /\ affected = Importers(changed \union deleted) /\ fileNodes = Known
      /\ \A g \in Files : ImportsDone(g)
      /\ \A g \in Files : symbols[g] # None => g \in fileNodes
  BY DEF EdgesMatch, NodesMatch
<1> SUFFICES ASSUME NEW g \in ImportedBy(f), g \in Scanned, g \in changed \union affected
             PROVE  FALSE
    OBVIOUS
<1>1. symbols[f] # None /\ symbols[f] \in Versions /\ g \in ImportsOf[f][symbols[f]]
  BY DEF ImportedBy, TypeOK
<1>2. f \in Scanned
  BY <1>0, <1>1
<1>3. <<f, g>> \in imports /\ g \in fileNodes /\ g \in Files
  BY <1>0 DEF ImportsDone, Scanned
<1>4. g \notin changed \union deleted
  BY <1>0, <1>2, <1>3 DEF Importers
<1>5. PICK h \in changed \union deleted : <<g, h>> \in imports
  BY <1>0, <1>4 DEF Importers
<1>6. /\ h \in fileNodes /\ h \in Files /\ symbols[g] # None /\ symbols[g] \in Versions
      /\ h \in ImportsOf[g][symbols[g]]
  BY <1>5 DEF EdgesJustified, TypeOK
<1>7. f # h /\ f # g
  BY <1>5
<1>8. h \in ImportsOf[f][symbols[f]]
  BY <1>1, <1>3, <1>6, <1>7 DEF ImportsAreTransitive
<1>9. <<f, h>> \in imports
  BY <1>0, <1>1, <1>6, <1>8 DEF ImportsDone, ImportedBy
<1> QED BY <1>0, <1>2, <1>5, <1>9 DEF Importers


LEMMA MatchInit == Init => MatchInv
BY DEF Init, MatchInv, NodesMatch, EdgesMatch, Known, Nothing, ImportsDone, CallsDone,
       ImportedBy, CalledBy

LEMMA MatchStep ==
    ASSUME NoNewFiles, ImportsAreTransitive, CallsAreImported
    PROVE  EdgesInv /\ ExistInv /\ MatchInv /\ [Next]_vars => MatchInv'
<1> SUFFICES ASSUME EdgesInv, ExistInv, MatchInv, [Next]_vars, aborts' = 0
             PROVE  NodesMatch' /\ EdgesMatch'
    BY DEF MatchInv
<1>0. TypeOK /\ EdgesJustified /\ BatchIsClean /\ BatchIsWritten
  BY DEF EdgesInv
<1> DEFINE Before == {"idle", "detect", "clean"}
           Late == {"symbols", "imports", "calls", "save", "saving"}
<1>m. aborts = 0 => NodesMatch /\ EdgesMatch
  BY DEF MatchInv
\* Steps that leave the graph and the run alone.
<1>a. ASSUME UNCHANGED <<graph, run, fps, aborts>> PROVE NodesMatch' /\ EdgesMatch'
  <2>1. UNCHANGED scan
    BY <1>a DEF run
  <2>2. Known' = Known /\ Scanned' = Scanned /\ ChangedFiles' = ChangedFiles
    BY <1>a, <2>1 DEF Known, Scanned, ChangedFiles
  <2>3. NodesMatch'
    BY <1>a, <1>m, <2>2 DEF NodesMatch, graph, run, diff
  <2>4. EdgesMatch'
    BY <1>a, <1>m, <2>1, <2>2, GraphSays DEF EdgesMatch, Importers, graph, run, diff
  <2> QED BY <2>3, <2>4
<1>1. ASSUME NEW f \in Files, NEW v \in Versions, NEW t \in {clock, clock + 1},
             Edit(f, v, t) \/ Create(f, v, t)
      PROVE  NodesMatch' /\ EdgesMatch'
  BY <1>1, <1>a DEF Edit, Create, prints
<1>12. ASSUME NEW f \in Files, Delete(f)
      PROVE  NodesMatch' /\ EdgesMatch'
  BY <1>12, <1>a DEF Delete, prints
<1>2. ASSUME NEW force \in BOOLEAN, Start(force) PROVE NodesMatch' /\ EdgesMatch'
  <2>1. /\ UNCHANGED graph /\ fps' = fps /\ aborts = 0 /\ pc = "idle"
        /\ pc' \in {"clear", "detect"} /\ batch' = batch
    BY <1>2 DEF Start, prints
  <2>2. \A f \in Files : ImportsDone(f) /\ CallsDone(f)
    BY <1>m, <2>1 DEF EdgesMatch
  <2>3. \A f \in Files : ImportsDone(f)' /\ CallsDone(f)'
    BY <2>1, <2>2 DEF graph, ImportsDone, CallsDone, ImportedBy, CalledBy
  <2>4. NodesMatch'
    BY <1>m, <2>1 DEF NodesMatch, graph, Known
  <2> QED BY <2>1, <2>3, <2>4 DEF EdgesMatch
<1>3. CASE Clear
  <2>1. /\ fileNodes' = {} /\ symbols' = Nothing /\ batch' = Scanned /\ pc' = "parse"
        /\ scan' = scan
    BY <1>3 DEF Clear
  <2>2. \A f \in Files : ImportedBy(f)' = {} /\ CalledBy(f)' = {}
    BY <2>1 DEF ImportedBy, CalledBy, Nothing
  <2>3. \A f \in Files : \A S : Apart(f, S)'
    BY <2>2 DEF Apart, ImportsDone, CallsDone
  <2>4. NodesMatch'
    BY <2>1 DEF NodesMatch, Scanned, Nothing
  <2> QED BY <2>1, <2>3, <2>4 DEF EdgesMatch
<1>4. CASE Detect
  <2>1. /\ UNCHANGED graph /\ fps' = fps /\ scan' = scan /\ batch' = batch /\ imports' = imports
        /\ aborts = 0 /\ pc = "detect" /\ pc' = "clean" /\ changed' = ChangedFiles
        /\ deleted' = Known \ Scanned /\ affected' = Importers(changed' \union deleted')
    BY <1>4 DEF Detect, prints, graph
  <2>2. \A f \in Files : ImportsDone(f)' /\ CallsDone(f)'
    BY <1>m, <2>1, GraphSays DEF EdgesMatch
  <2>3. /\ Known' = Known /\ Scanned' = Scanned /\ ChangedFiles' = ChangedFiles
        /\ \A S : Importers(S)' = Importers(S)
    BY <2>1 DEF Known, Scanned, ChangedFiles, Importers
  <2>4. NodesMatch'
    BY <1>m, <2>1, <2>3 DEF NodesMatch, graph
  <2> QED BY <2>1, <2>2, <2>3, <2>4 DEF EdgesMatch
<1>5. CASE Clean
  <2>1. /\ Drop(deleted \union changed) /\ fps' = fps /\ pc = "clean" /\ aborts = 0
        /\ deleted \union changed \in SUBSET Files
    BY <1>0, <1>5 DEF Clean, prints, TypeOK
  <2>2. /\ changed = ChangedFiles /\ deleted = Known \ Scanned
        /\ affected = Importers(changed \union deleted) /\ fileNodes = Known
        /\ Scanned \subseteq Known /\ NodesMatch /\ EdgesMatch
        /\ \A f \in Files : ImportsDone(f) /\ CallsDone(f)
    BY <1>m, <2>1 DEF NodesMatch, EdgesMatch, ExistInv
  <2>3. \A f \in Files : /\ symbols'[f] = IF f \in deleted \union changed THEN None ELSE symbols[f]
                         /\ symbols'[f] # None => f \in fileNodes'
    BY <2>1, <2>2 DEF Drop, NodesMatch
  <2>4. fileNodes' = Scanned \ changed /\ changed \subseteq Scanned /\ affected \subseteq Scanned
    BY <2>1, <2>2 DEF Drop, ChangedFiles, Importers
  <2>5. ASSUME NEW f \in Files PROVE ImportsDone(f)' /\ CallsDone(f)'
    <3>1. CASE f \in deleted \union changed
      BY <2>3, <3>1 DEF ImportsDone, CallsDone, ImportedBy, CalledBy
    <3>2. CASE f \notin deleted \union changed
      BY <1>0, <2>1, <2>2, <3>2, DropDone
    <3> QED BY <3>1, <3>2
  <2>6. CASE changed # {} \/ deleted # {}
    <3>1. /\ scan' = scan /\ changed' = changed /\ deleted' = deleted /\ affected' = affected
          /\ batch' = batch /\ pc' = IF changed = {} THEN "save" ELSE "cleanAffected"
      BY <1>5, <2>6 DEF Clean, diff
    <3>2. Scanned' = Scanned
      BY <3>1 DEF Scanned
    <3>3. CASE changed = {}
      <4>1. batch = {}
        BY <2>1, <2>2 DEF NodesMatch
      <4> QED BY <2>3, <2>4, <2>5, <3>1, <3>2, <3>3, <4>1 DEF NodesMatch, EdgesMatch
    <3>4. CASE changed # {}
      <4>1. ASSUME NEW f \in Files \ (changed \union affected)
            PROVE  Apart(f, changed \union affected)'
        <5>1. CASE f \in deleted
          BY <2>3, <2>5, <5>1 DEF Apart, ImportedBy
        <5>2. CASE f \notin deleted
          <6>1. ImportedBy(f) \intersect Scanned \intersect (changed \union affected) = {}
            BY <1>0, <2>1, <2>2, <4>1, <5>2, NobodyLeftBehind
          <6>2. ImportedBy(f)' = ImportedBy(f)
            BY <1>0, <2>1, <2>2, <4>1, <5>2, DropDone
          <6> QED BY <2>5, <3>1, <3>2, <6>1, <6>2 DEF Apart
        <5> QED BY <5>1, <5>2
      <4>2. NodesMatch'
        BY <2>3, <2>4, <3>1, <3>2, <3>4 DEF NodesMatch
      <4> QED BY <3>1, <3>4, <4>1, <4>2 DEF EdgesMatch
    <3> QED BY <3>3, <3>4
  <2>7. CASE changed = {} /\ deleted = {}
    <3>1. pc' = "idle" /\ batch' = {}
      BY <1>5, <2>7 DEF Clean, Rest
    <3>2. fileNodes' = Known'
      BY <2>1, <2>2, <2>7 DEF Drop, Known
    <3> QED BY <2>3, <2>5, <3>1, <3>2 DEF NodesMatch, EdgesMatch
  <2> QED BY <2>6, <2>7
<1>6. CASE CleanAffected
  <2>1. /\ Drop(affected) /\ pc = "cleanAffected" /\ pc' = "parse" /\ aborts = 0
        /\ scan' = scan /\ batch' = changed \union affected /\ affected \in SUBSET Files
    BY <1>0, <1>6 DEF CleanAffected, FilesToParse, TypeOK
  <2>2. Scanned' = Scanned
    BY <2>1 DEF Scanned
  <2>3. NodesMatch'
    BY <1>m, <2>1, <2>2 DEF NodesMatch, Drop
  <2>4. ASSUME NEW f \in Files, f \notin batch' PROVE Apart(f, batch)'
    <3>1. f \notin affected /\ Apart(f, changed \union affected)
      BY <1>m, <2>1, <2>4 DEF EdgesMatch
    <3>2. ImportsDone(f)' /\ CallsDone(f)' /\ ImportedBy(f)' = ImportedBy(f)
      BY <1>0, <2>1, <2>4, <3>1, DropDone DEF Apart
    <3> QED BY <2>1, <2>2, <3>1, <3>2 DEF Apart
  <2> QED BY <2>1, <2>3, <2>4 DEF EdgesMatch
<1>7. ASSUME NEW f \in Files, Parse(f) PROVE NodesMatch' /\ EdgesMatch'
  <2>1. UNCHANGED graph /\ scan' = scan /\ batch' = batch /\ pc = "parse" /\ pc' = "parse"
        /\ aborts = 0
    BY <1>7 DEF Parse
  <2>2. NodesMatch'
    BY <1>m, <2>1 DEF NodesMatch, Scanned, graph
  <2> QED BY <1>m, <2>1, <2>2, GraphSays DEF EdgesMatch
<1>8. CASE WriteFileNodes
  <2>1. /\ PutFileNodes(batch) /\ pc = "parse" /\ pc' = "symbols" /\ aborts = 0
        /\ scan' = scan /\ batch' = batch /\ Scanned' = Scanned
    BY <1>8 DEF WriteFileNodes, Scanned
  <2>2. fileNodes = Scanned \ batch /\ batch \subseteq Scanned /\ fileNodes' = Scanned
    BY <1>m, <2>1 DEF NodesMatch, PutFileNodes
  <2>3. NodesMatch'
    BY <1>m, <2>1, <2>2 DEF NodesMatch, PutFileNodes
  <2>4. ASSUME NEW f \in Files \ batch PROVE Apart(f, batch)'
    <3>1. Apart(f, batch)
      BY <1>m, <2>1 DEF EdgesMatch
    <3>2. ImportedBy(f)' = ImportedBy(f) /\ CalledBy(f)' = CalledBy(f)
      BY <2>1 DEF PutFileNodes, ImportedBy, CalledBy
    <3>3. ImportsDone(f)'
      BY <2>1, <2>2, <3>1, <3>2 DEF Apart, ImportsDone, PutFileNodes
    <3>4. CallsDone(f)'
      BY <2>1, <3>1, <3>2 DEF Apart, CallsDone, PutFileNodes
    <3> QED BY <2>1, <3>1, <3>2, <3>3, <3>4 DEF Apart
  <2> QED BY <2>1, <2>3, <2>4 DEF EdgesMatch
<1>9. CASE WriteSymbols
  <2>1. /\ PutSymbols(batch) /\ pc = "symbols" /\ pc' = "imports" /\ aborts = 0
        /\ scan' = scan /\ batch' = batch /\ Scanned' = Scanned /\ fileNodes' = fileNodes
    BY <1>9 DEF WriteSymbols, PutSymbols, Scanned
  <2>2. fileNodes = Scanned /\ batch \subseteq Scanned
    BY <1>m, <2>1 DEF NodesMatch
  <2>3. \A f \in Files : symbols'[f] = IF f \in batch THEN parsed[f] ELSE symbols[f]
    BY <2>1 DEF PutSymbols
  <2>4. NodesMatch'
    BY <1>m, <2>1, <2>2, <2>3 DEF NodesMatch
  <2>5. ASSUME NEW f \in Files \ batch PROVE Apart(f, batch)'
    <3>1. Apart(f, batch)
      BY <1>m, <2>1 DEF EdgesMatch
    <3>2. ImportedBy(f)' = ImportedBy(f) /\ symbols'[f] = symbols[f]
      BY <2>3 DEF ImportedBy
    <3>3. ImportsDone(f)'
      BY <2>1, <3>1, <3>2 DEF Apart, ImportsDone, PutSymbols
    <3>4. CalledBy(f)' \subseteq CalledBy(f)
      <4> SUFFICES ASSUME NEW g \in CalledBy(f)' PROVE g \in CalledBy(f)
          OBVIOUS
      <4>1. symbols[f] # None /\ symbols[f] \in Versions
            /\ g \in CallsOf[f][symbols[f]] /\ symbols'[g] # None
        BY <1>0, <3>2 DEF CalledBy, TypeOK
      <4>2. g \in ImportedBy(f) \union {f} /\ g \in Files
        BY <4>1, FilesAssumption DEF CallsAreImported, ImportedBy
      <4>3. g \in Scanned
        BY <2>1, <2>2, <2>4, <4>1, <4>2 DEF NodesMatch
      <4>4. g \notin batch
        BY <3>1, <4>2, <4>3 DEF Apart
      <4> QED BY <2>3, <4>1, <4>2, <4>4 DEF CalledBy
    <3>5. CallsDone(f)'
      BY <2>1, <3>1, <3>4 DEF Apart, CallsDone, PutSymbols
    <3> QED BY <2>1, <3>1, <3>2, <3>3, <3>5 DEF Apart
  <2> QED BY <2>1, <2>4, <2>5 DEF EdgesMatch
<1>10. CASE WriteImports
  <2>1. /\ PutImports(batch) /\ pc = "imports" /\ pc' = "calls" /\ aborts = 0
        /\ scan' = scan /\ batch' = batch /\ Scanned' = Scanned
        /\ UNCHANGED <<fileNodes, symbols, calls>>
    BY <1>10 DEF WriteImports, PutImports, Scanned
  <2>2. fileNodes = Scanned /\ batch \subseteq Scanned
    BY <1>m, <2>1 DEF NodesMatch
  <2>3. NodesMatch'
    BY <1>m, <2>1, <2>2 DEF NodesMatch
  <2>4. \A f : ImportedBy(f)' = ImportedBy(f) /\ CalledBy(f)' = CalledBy(f)
    BY <2>1 DEF ImportedBy, CalledBy
  <2>5. ASSUME NEW f \in Files PROVE ImportsDone(f)'
    <3> SUFFICES ASSUME NEW g \in ImportedBy(f), g \in fileNodes PROVE <<f, g>> \in imports'
        BY <2>1, <2>4 DEF ImportsDone
    <3>1. CASE f \in batch
      <4>1. symbols[f] = parsed[f] /\ parsed[f] # None /\ g \in ImportsOf[f][parsed[f]]
        BY <1>0, <2>1, <3>1 DEF BatchIsWritten, ImportedBy
      <4>2. <<f, g>> \in batch \X Scanned /\ {f, g} \subseteq fileNodes
        BY <2>2, <3>1
      <4> QED BY <2>1, <4>1, <4>2 DEF PutImports
    <3>2. CASE f \notin batch
      BY <1>m, <2>1, <3>2 DEF EdgesMatch, Apart, ImportsDone, PutImports
    <3> QED BY <3>1, <3>2
  <2>6. \A f \in Files \ batch : CallsDone(f)'
    BY <1>m, <2>1, <2>4 DEF EdgesMatch, Apart, CallsDone
  <2> QED BY <2>1, <2>3, <2>5, <2>6 DEF EdgesMatch
<1>11. CASE WriteCalls
  <2>1. /\ PutCalls(batch) /\ pc = "calls" /\ pc' = "save" /\ aborts = 0
        /\ scan' = scan /\ batch' = batch /\ Scanned' = Scanned
        /\ UNCHANGED <<fileNodes, symbols, imports>>
    BY <1>11 DEF WriteCalls, PutCalls, Scanned
  <2>2. NodesMatch'
    BY <1>m, <2>1 DEF NodesMatch
  <2>3. \A f : ImportedBy(f)' = ImportedBy(f) /\ CalledBy(f)' = CalledBy(f)
    BY <2>1 DEF ImportedBy, CalledBy
  <2>4. \A f \in Files : ImportsDone(f)'
    BY <1>m, <2>1, <2>3 DEF EdgesMatch, ImportsDone
  <2>5. ASSUME NEW f \in Files PROVE CallsDone(f)'
    <3> SUFFICES ASSUME NEW g \in CalledBy(f) PROVE <<f, g>> \in calls'
        BY <2>3 DEF CallsDone
    <3>1. CASE f \in batch
      <4>1. /\ symbols[f] = parsed[f] /\ parsed[f] # None /\ g \in CallsOf[f][parsed[f]]
            /\ symbols[g] # None
        BY <1>0, <2>1, <3>1 DEF BatchIsWritten, CalledBy
      <4>2. <<f, g>> \in batch \X Files
        BY <1>0, <3>1, ImportedAreFiles
      <4> QED BY <2>1, <4>1, <4>2 DEF PutCalls
    <3>2. CASE f \notin batch
      BY <1>m, <2>1, <3>2 DEF EdgesMatch, CallsDone, PutCalls
    <3> QED BY <3>1, <3>2
  <2> QED BY <2>1, <2>2, <2>4, <2>5 DEF EdgesMatch
<1>13. CASE SaveBegin
  <2>1. UNCHANGED graph /\ scan' = scan /\ batch' = batch /\ pc = "save" /\ pc' = "saving"
        /\ aborts = 0
    BY <1>13 DEF SaveBegin
  <2>2. NodesMatch'
    BY <1>m, <2>1 DEF NodesMatch, Scanned, graph
  <2> QED BY <1>m, <2>1, <2>2, GraphSays DEF EdgesMatch
<1>14. CASE SaveEnd
  <2>1. UNCHANGED graph /\ fps' = scan /\ pc = "saving" /\ pc' = "idle" /\ batch' = {}
        /\ aborts = 0
    BY <1>14 DEF SaveEnd, Rest
  <2>2. NodesMatch'
    BY <1>m, <2>1 DEF NodesMatch, Scanned, Known, graph
  <2>3. \A f \in Files : ImportsDone(f) /\ CallsDone(f)
    BY <1>m, <2>1 DEF EdgesMatch
  <2>4. \A f \in Files : ImportsDone(f)' /\ CallsDone(f)'
    BY <2>1, <2>3 DEF graph, ImportsDone, CallsDone, ImportedBy, CalledBy
  <2> QED BY <2>1, <2>2, <2>4 DEF EdgesMatch
<1>15. CASE Abort
  BY <1>0, <1>15 DEF Abort, TypeOK
<1>16. CASE UNCHANGED vars
  BY <1>16, <1>a DEF vars, prints
<1> QED BY <1>1, <1>2, <1>3, <1>4, <1>5, <1>6, <1>7, <1>8, <1>9, <1>10, <1>11, <1>12,
           <1>13, <1>14, <1>15, <1>16 DEF Next, Developer, Step

MatchAll == EdgesInv /\ ExistInv /\ MatchInv

\* In an index in sync with the project, files have nodes when they exist.
LEMMA NodesInSync ==
    ASSUME MatchAll, InSync, NEW f \in Files
    PROVE  (f \in fileNodes <=> disk[f] # None) /\ symbols[f] = disk[f]
<1>1. fps[f] = StatOf(f) /\ symbols[f] = disk[f] /\ TypeOK
  BY DEF MatchAll, InSync, EdgesInv
<1>2. fps[f] # None <=> disk[f] # None
  <2>1. disk[f] # None => StatOf(f) \in Stat
    BY <1>1, StatType
  <2>2. disk[f] = None => StatOf(f) = None
    BY DEF StatOf
  <2> QED BY <1>1, <2>1, <2>2, FilesAssumption DEF Stat
<1>3. fileNodes = Known
  BY DEF MatchAll, MatchInv, InSync, NodesMatch
<1> QED BY <1>1, <1>2, <1>3 DEF Known

LEMMA MatchAlways ==
    ASSUME NoNewFiles, ImportsAreTransitive, CallsAreImported
    PROVE  Spec => []MatchAll
<1>1. Init => MatchAll
  BY EdgesInit, ExistInit, MatchInit DEF MatchAll
<1>2. MatchAll /\ [Next]_vars => MatchAll'
  BY EdgesStep, ExistStep, MatchStep DEF MatchAll, EdgesInv
<1> QED BY <1>1, <1>2, PTL DEF Spec

\* "Same as Full Index": while no file is created, no run is cut short, and a
\* file imports whatever the files it imports do, the IMPORTS edges that any
\* number of incremental runs leave are those of a full index.
THEOREM SameImportsAsFullIndex ==
    ASSUME NoNewFiles, ImportsAreTransitive, CallsAreImported
    PROVE  Spec => []ImportsMatchFullIndex
<1>1. MatchAll => ImportsMatchFullIndex
  <2> SUFFICES ASSUME MatchAll, InSync PROVE imports = FullIndexEdges(ImportsOf)
      BY DEF ImportsMatchFullIndex
  <2>1. TypeOK /\ EdgesJustified /\ \A f \in Files : ImportsDone(f)
    BY DEF MatchAll, EdgesInv, MatchInv, InSync, EdgesMatch
  <2>2. ASSUME NEW e \in imports PROVE e \in FullIndexEdges(ImportsOf)
    <3>1. /\ e \in Files \X Files /\ e[1] \in fileNodes /\ e[2] \in fileNodes
          /\ e[2] \in ImportsOf[e[1]][symbols[e[1]]]
      BY <2>1 DEF EdgesJustified, TypeOK
    <3> QED BY <3>1, NodesInSync DEF FullIndexEdges
  <2>3. ASSUME NEW e \in FullIndexEdges(ImportsOf) PROVE e \in imports
    <3>1. /\ e \in Files \X Files /\ disk[e[1]] # None /\ disk[e[2]] # None
          /\ e[2] \in ImportsOf[e[1]][disk[e[1]]]
      BY DEF FullIndexEdges
    <3>2. e[2] \in ImportedBy(e[1]) \intersect fileNodes
      BY <3>1, NodesInSync DEF ImportedBy
    <3>3. <<e[1], e[2]>> \in imports
      BY <2>1, <3>1, <3>2 DEF ImportsDone
    <3> QED BY <3>1, <3>3
  <2> QED BY <2>2, <2>3
<1> QED BY <1>1, MatchAlways, PTL

\* Likewise the CALLS edges, when a file calls only files it imports: the
\* importers of a file are then the callers to index again with it.
THEOREM SameCallsAsFullIndex ==
    ASSUME NoNewFiles, ImportsAreTransitive, CallsAreImported
    PROVE  Spec => []CallsMatchFullIndex
<1>1. MatchAll => CallsMatchFullIndex
  <2> SUFFICES ASSUME MatchAll, InSync PROVE calls = FullIndexEdges(CallsOf)
      BY DEF CallsMatchFullIndex
  <2>1. TypeOK /\ EdgesJustified /\ \A f \in Files : CallsDone(f)
    BY DEF MatchAll, EdgesInv, MatchInv, InSync, EdgesMatch
  <2>2. ASSUME NEW e \in calls PROVE e \in FullIndexEdges(CallsOf)
    <3>1. /\ e \in Files \X Files /\ symbols[e[1]] # None /\ symbols[e[2]] # None
          /\ e[2] \in CallsOf[e[1]][symbols[e[1]]]
      BY <2>1 DEF EdgesJustified, TypeOK
    <3> QED BY <3>1, NodesInSync DEF FullIndexEdges
  <2>3. ASSUME NEW e \in FullIndexEdges(CallsOf) PROVE e \in calls
    <3>1. /\ e \in Files \X Files /\ disk[e[1]] # None /\ disk[e[2]] # None
          /\ e[2] \in CallsOf[e[1]][disk[e[1]]]
      BY DEF FullIndexEdges
    <3>2. e[2] \in CalledBy(e[1])
      BY <3>1, NodesInSync DEF CalledBy
    <3>3. <<e[1], e[2]>> \in calls
      BY <2>1, <3>1, <3>2 DEF CallsDone
    <3> QED BY <3>1, <3>3
  <2> QED BY <2>2, <2>3
<1> QED BY <1>1, MatchAlways, PTL
-----------------------------------------------------------------------------
(* The promise of Index.                                                   *)

\* Nothing of f is in the graph.
Absent(f) == f \notin fileNodes /\ symbols[f] = None

Writing == {"parse", "symbols", "imports", "calls", "save", "saving"}

\* What has no fingerprint, or was not found by the scan, is not in the graph;
\* what a run takes up was found by its scan.
GoneInv ==
    /\ pc \in {"detect", "clean"} => fpFile = "ok"
    /\ pc \in {"idle", "detect", "clean"} /\ fpFile = "ok" =>
         \A f \in Files : fps[f] = None => Absent(f)
    /\ pc \in {"clean", "cleanAffected"} => changed \union affected \subseteq Scanned
    /\ pc \in Writing => batch \subseteq Scanned
    /\ pc \in {"cleanAffected"} \union Writing => \A f \in Files \ Scanned : Absent(f)

LEMMA GoneInit == Init => GoneInv
BY DEF Init, GoneInv, Writing

\* Fingerprints that an incremental run starts from are whole.
LEMMA PrintsAreWhole ==
    ASSUME TypeOK, FingerprintsComplete, ~FullNeeded(FALSE)
    PROVE  fpFile = "ok"
BY DEF TypeOK, FingerprintsComplete, FullNeeded, Known, Nothing

LEMMA DropAbsent ==
    ASSUME TypeOK, NEW S, Drop(S)
    PROVE  \A f \in Files : (f \in S => Absent(f)') /\ (Absent(f) => Absent(f)')
BY DEF TypeOK, Drop, Absent

LEMMA GoneStep ==
    ASSUME "ok" \notin AbortsWith, TypeOK, SkipInv, GoneInv, [Next]_vars
    PROVE  GoneInv'
<1> USE DEF GoneInv
<1>a. ASSUME UNCHANGED <<graph, fpFile, fps, run>> PROVE GoneInv'
  BY <1>a DEF graph, run, diff, Absent, Scanned
\* Stages that write something of the batch.
<1>b. ASSUME pc \in Writing, pc' \in Writing, UNCHANGED <<scan, batch>>,
             \A f \in Files \ batch : Absent(f) => Absent(f)'
      PROVE  GoneInv'
  <2>1. Scanned' = Scanned
    BY <1>b DEF Scanned
  <2> QED BY <1>b, <2>1 DEF Writing
<1>1. CASE Developer
  BY <1>1, <1>a DEF Developer, Edit, Create, Delete, prints
<1>2. ASSUME NEW force \in BOOLEAN, Start(force) PROVE GoneInv'
  <2>1. UNCHANGED <<graph, prints>> /\ pc = "idle"
        /\ pc' = IF FullNeeded(force) THEN "clear" ELSE "detect"
    BY <1>2 DEF Start
  <2>2. ~FullNeeded(force) => fpFile = "ok"
    BY PrintsAreWhole DEF SkipInv, FullNeeded
  <2> QED BY <2>1, <2>2 DEF graph, prints, Absent, Writing
<1>3. CASE Clear
  BY <1>3 DEF Clear, Absent, Nothing, Writing, Scanned
<1>4. CASE Detect
  BY <1>4 DEF Detect, ChangedFiles, Importers, Scanned, graph, prints, Absent, Writing
<1>5. CASE Clean
  <2>1. /\ UNCHANGED prints /\ pc = "clean" /\ Drop(deleted \union changed)
        /\ deleted = Known \ Scanned /\ batch = {} /\ changed = ChangedFiles
    BY <1>5 DEF Clean, SkipInv, SkipCompared, BatchStarts
  <2>2. \A f \in Files : /\ f \in deleted \union changed => Absent(f)'
                         /\ Absent(f) => Absent(f)'
    BY <2>1, DropAbsent
  <2>3. ASSUME NEW f \in Files, fps[f] = None \/ f \notin Scanned PROVE Absent(f)'
    <3>1. CASE fps[f] = None
      <4>1. Absent(f)
        BY <2>1, <3>1
      <4> QED BY <2>2, <4>1
    <3>2. CASE fps[f] # None
      BY <2>1, <2>2, <2>3, <3>2 DEF Known
    <3> QED BY <3>1, <3>2
  <2>4. CASE changed # {} \/ deleted # {}
    <3>1. UNCHANGED <<scan, diff, batch>> /\ pc' \in {"save", "cleanAffected"}
      BY <1>5, <2>4 DEF Clean
    <3>2. Scanned' = Scanned /\ changed' = changed /\ affected' = affected
      BY <3>1 DEF Scanned, diff
    <3> QED BY <2>1, <2>3, <3>1, <3>2 DEF Writing
  <2>5. CASE ~(changed # {} \/ deleted # {})
    BY <1>5, <2>1, <2>3, <2>5 DEF Clean, Rest, prints, Writing
  <2> QED BY <2>4, <2>5
<1>6. CASE CleanAffected
  <2>1. /\ Drop(affected) /\ pc = "cleanAffected" /\ pc' = "parse" /\ scan' = scan
        /\ batch' = changed \union affected
    BY <1>6 DEF CleanAffected, FilesToParse
  <2>2. Scanned' = Scanned
    BY <2>1 DEF Scanned
  <2> QED BY <2>1, <2>2, DropAbsent DEF Writing
<1>7. ASSUME NEW f \in Files, Parse(f) PROVE GoneInv'
  BY <1>7, <1>b DEF Parse, graph, Absent, Writing
<1>8. CASE WriteFileNodes
  BY <1>8, <1>b DEF WriteFileNodes, PutFileNodes, Absent, Writing
<1>9. CASE WriteSymbols
  BY <1>9, <1>b DEF WriteSymbols, PutSymbols, Absent, Writing
<1>10. CASE WriteImports
  BY <1>10, <1>b DEF WriteImports, PutImports, Absent, Writing
<1>11. CASE WriteCalls
  BY <1>11, <1>b DEF WriteCalls, PutCalls, Absent, Writing
<1>12. CASE SaveBegin
  BY <1>12, <1>b DEF SaveBegin, graph, Absent, Writing
<1>13. CASE SaveEnd
  <2>1. /\ UNCHANGED graph /\ fps' = scan /\ pc = "saving" /\ pc' = "idle"
    BY <1>13 DEF SaveEnd, Rest
  <2>2. \A f \in Files : fps'[f] = None => Absent(f)'
    BY <2>1 DEF graph, Absent, Scanned, Writing
  <2> QED BY <2>1, <2>2 DEF Writing
<1>14. CASE Abort
  <2>1. fpFile' = fpFile /\ fpFile # "ok" /\ pc' = "idle"
    BY <1>14 DEF Abort, Rest, prints
  <2> QED BY <2>1 DEF Writing
<1>15. CASE UNCHANGED vars
  BY <1>15, <1>a DEF vars, prints
<1> QED BY <1>1, <1>2, <1>3, <1>4, <1>5, <1>6, <1>7, <1>8, <1>9, <1>10, <1>11, <1>12,
           <1>13, <1>14, <1>15 DEF Next, Step

PromiseInv == VersionInv /\ SkipInv /\ GoneInv

\* What the next run would skip is in the graph as on disk.
LEMMA SettledShown ==
    ASSUME PromiseInv
    PROVE  \A f \in Settled : Promise!Shown(f) \/ f \in reported
<1> SUFFICES ASSUME NEW f \in Settled, f \notin reported PROVE Promise!Shown(f)
    OBVIOUS
<1>0. TypeOK /\ f \in Files /\ pc = "idle" /\ ~FullNeeded(FALSE) /\ fps[f] = StatOf(f)
  BY DEF Settled, PromiseInv, VersionInv
<1>1. CASE disk[f] # None
  <2>1. Current(f)
    BY <1>0, <1>1 DEF PromiseInv, SkipInv, SkipBefore, Reliable, Still
  <2> QED BY <1>1, <2>1 DEF Current, Promise!Shown
<1>2. CASE disk[f] = None
  <2>1. fps[f] = None /\ fpFile = "ok"
    BY <1>0, <1>2, PrintsAreWhole DEF StatOf, PromiseInv, SkipInv
  <2>2. Absent(f)
    BY <1>0, <2>1 DEF PromiseInv, GoneInv
  <2> QED BY <1>2, <2>2 DEF Absent, Promise!Shown
<1> QED BY <1>1, <1>2

\* A run puts nothing into the graph but what it has read.
LEMMA PutOnly ==
    ASSUME TypeOK', \A f \in Files : symbols'[f] \in {symbols[f], None, parsed[f]}
    PROVE  Promise!Put
BY DEF TypeOK, Promise!Put

LEMMA PutsWhatWasRead ==
    ASSUME TypeOK, TypeOK', NEW S \in SUBSET Files,
           \/ Drop(S) \/ PutFileNodes(S) \/ PutSymbols(S) \/ PutImports(S) \/ PutCalls(S)
    PROVE  Promise!Put
<1>1. \A f \in Files : symbols'[f] \in {symbols[f], None, parsed[f]}
  BY DEF TypeOK, Drop, PutFileNodes, PutSymbols, PutImports, PutCalls
<1> QED BY <1>1, PutOnly

LEMMA PutsNothing ==
    ASSUME TypeOK', UNCHANGED graph
    PROVE  Promise!Put
BY PutOnly DEF graph

\* Run steps of the pipeline are steps of a run, or none.
LEMMA RunWrites ==
    ASSUME pc # "idle", pc' # "idle", Promise!Put, UNCHANGED <<disk, parsed, reported>>
    PROVE  Promise!Write
BY DEF Promise!Write, Settled

LEMMA RunEnds ==
    ASSUME PromiseInv', pc # "idle", Rest, Promise!Put, UNCHANGED disk,
           reported' \subseteq reported \union {f \in Files : parsed[f] = None}
    PROVE  Promise!End
<1>1. \A f \in Settled' : (Promise!Shown(f))' \/ f \in reported'
  <2>1. (\A f \in Settled : Promise!Shown(f) \/ f \in reported)'
    BY SettledShown, PTL
  <2> QED BY <2>1
<1>2. Settled' \subseteq Files
  BY DEF Settled
<1>3. pc' = "idle" /\ parsed' = Nothing
  BY DEF Rest
<1> QED BY <1>1, <1>2, <1>3 DEF Promise!End, Promise!Nothing, Nothing

\* Whatever the developer does to a file, the next run will look at it.
LEMMA ChangeIsNoticed ==
    ASSUME SameSecond = FALSE, PromiseInv, TypeOK', NEW f \in Files,
           \/ \E v \in Versions, t \in {clock, clock + 1} :
                 Edit(f, v, t) \/ Create(f, v, t)
           \/ Delete(f)
    PROVE  \E v \in Versions \union {None} : Promise!Change(f, v)
<1>0. UNCHANGED <<prints, graph, run>> /\ TypeOK /\ StatsArePast
  BY DEF Edit, Create, Delete, PromiseInv, VersionInv
<1>1. pc' = pc /\ FullNeeded(FALSE)' = FullNeeded(FALSE)
  BY <1>0 DEF run, prints, graph, FullNeeded, NodeCountZero, Known
<1>2. CASE \E v \in Versions, t \in {clock, clock + 1} : Edit(f, v, t) \/ Create(f, v, t)
  <2>1. PICK v \in Versions, t \in {clock, clock + 1} : Edit(f, v, t) \/ Create(f, v, t)
    BY <1>2
  <2>2. /\ ~Still(f, fps[f])' /\ disk' = [disk EXCEPT ![f] = v] /\ disk'[f] # None
        /\ \A g \in Files \ {f} : disk'[g] = disk[g] /\ mtime'[g] = mtime[g]
    <3>1. disk' = [disk EXCEPT ![f] = v] /\ disk'[f] # None
      BY <1>0, <2>1, FilesAssumption DEF Edit, Create, TypeOK
    <3>2. /\ ~Still(f, fps[f])'
          /\ \A g \in Files \ {f} : disk'[g] = disk[g] /\ mtime'[g] = mtime[g]
      BY <1>0, <2>1, Rewritten
    <3> QED BY <3>1, <3>2
  <2>3. fps'[f] # StatOf(f)'
    BY <2>2 DEF Still
  <2>4. \A g \in Files \ {f} : StatOf(g)' = StatOf(g) /\ fps'[g] = fps[g]
    BY <1>0, <2>2 DEF StatOf, prints
  <2>5. Settled' = Settled \ {f}
    BY <1>1, <2>3, <2>4 DEF Settled
  <2> QED BY <1>0, <1>1, <2>2, <2>5 DEF Promise!Change, prints, graph, run
<1>3. CASE Delete(f)
  <2>1. disk' = [disk EXCEPT ![f] = None] /\ mtime' = mtime /\ fps' = fps
    BY <1>0, <1>3 DEF Delete, prints
  <2>2. StatOf(f)' = None /\ \A g \in Files \ {f} : StatOf(g)' = StatOf(g)
    BY <1>0, <2>1 DEF StatOf, TypeOK
  <2>3. CASE f \in Settled'
    <3>1. pc = "idle" /\ ~FullNeeded(FALSE) /\ fps[f] = None
      BY <1>1, <2>1, <2>2, <2>3 DEF Settled
    <3>2. Absent(f)
      BY <1>0, <3>1, PrintsAreWhole DEF PromiseInv, GoneInv, SkipInv
    <3>3. Settled' = Settled \union {f}
      BY <1>1, <2>1, <2>2, <2>3, <3>1 DEF Settled
    <3> QED BY <1>0, <1>1, <2>1, <3>2, <3>3
            DEF Promise!Change, Absent, prints, graph, run
  <2>4. CASE f \notin Settled'
    <3>1. Settled' = Settled \ {f}
      BY <1>1, <2>1, <2>2, <2>4 DEF Settled
    <3> QED BY <1>0, <1>1, <2>1, <3>1 DEF Promise!Change, prints, graph, run
  <2> QED BY <2>3, <2>4
<1> QED BY <1>2, <1>3

LEMMA PromiseStep ==
    ASSUME SameSecond = FALSE, "ok" \notin AbortsWith, PromiseInv, PromiseInv', [Next]_vars
    PROVE  [Promise!Next]_(Promise!vars)
<1>0. TypeOK /\ TypeOK'
  BY DEF PromiseInv, VersionInv
<1> USE DEF Promise!Next
<1>1. CASE Developer
  <2>1. PICK f \in Files :
          \/ \E v \in Versions, t \in {clock, clock + 1} : Edit(f, v, t) \/ Create(f, v, t)
          \/ Delete(f)
    BY <1>1 DEF Developer
  <2>2. \E v \in Versions \union {None} : Promise!Change(f, v)
    BY <1>0, <2>1, ChangeIsNoticed
  <2> QED BY <2>2
<1>2. ASSUME NEW force \in BOOLEAN, Start(force) PROVE Promise!Begin
  <2>1. pc = "idle" /\ pc' # "idle"
    BY <1>2 DEF Start
  <2> QED BY <1>2, <2>1 DEF Start, Settled, Promise!Begin, project, prints, graph
<1>3. CASE Clear
  <2>1. Promise!Put
    BY <1>0, <1>3, PutOnly DEF Clear, Nothing
  <2> QED BY <1>3, <2>1, RunWrites DEF Clear, project, prints
<1>4. CASE Detect \/ SaveBegin
  <2>1. UNCHANGED <<disk, reported, graph, parsed>> /\ pc # "idle" /\ pc' # "idle"
    BY <1>4 DEF Detect, SaveBegin, project, prints
  <2> QED BY <2>1 DEF Promise!vars, Settled, graph
<1>5. CASE Clean
  <2>0. deleted \union changed \in SUBSET Files
    BY <1>0 DEF TypeOK
  <2>1. Promise!Put /\ UNCHANGED <<disk, reported>> /\ pc = "clean"
    BY <1>0, <1>5, <2>0, PutsWhatWasRead DEF Clean, project, prints
  <2>2. CASE changed # {} \/ deleted # {}
    <3>1. pc' # "idle" /\ parsed' = parsed
      BY <1>5, <2>2 DEF Clean
    <3> QED BY <2>1, <3>1, RunWrites
  <2>3. CASE ~(changed # {} \/ deleted # {})
    <3>1. Rest
      BY <1>5, <2>3 DEF Clean
    <3> QED BY <2>1, <3>1, RunEnds
  <2> QED BY <2>2, <2>3
<1>6. CASE CleanAffected
  <2>1. Drop(affected) /\ affected \in SUBSET Files
    BY <1>0, <1>6 DEF CleanAffected, TypeOK
  <2> QED BY <1>0, <1>6, <2>1, PutsWhatWasRead, RunWrites DEF CleanAffected, project, prints
<1>7. ASSUME NEW f \in Files, Parse(f) PROVE Promise!Read(f)
  BY <1>7 DEF Parse, Promise!Read, Settled, project, prints, graph
<1>8. CASE WriteFileNodes \/ WriteSymbols \/ WriteImports \/ WriteCalls
  <2>1. /\ PutFileNodes(batch) \/ PutSymbols(batch) \/ PutImports(batch) \/ PutCalls(batch)
        /\ UNCHANGED <<disk, reported, parsed>> /\ pc # "idle" /\ pc' # "idle"
        /\ batch \in SUBSET Files
    BY <1>0, <1>8 DEF WriteFileNodes, WriteSymbols, WriteImports, WriteCalls, project, prints,
                     TypeOK
  <2>2. Promise!Put
    BY <1>0, <2>1, PutsWhatWasRead
  <2> QED BY <2>1, <2>2, RunWrites
<1>9. CASE SaveEnd
  <2>1. /\ UNCHANGED <<disk, graph>> /\ pc = "saving" /\ Rest
        /\ reported' \subseteq reported \union {f \in Files : parsed[f] = None}
    BY <1>9 DEF SaveEnd, project, Scanned
  <2> QED BY <1>0, <2>1, PutsNothing, RunEnds
<1>10. CASE Abort
  <2>1. UNCHANGED <<disk, reported>> /\ pc # "idle" /\ Rest
    BY <1>10 DEF Abort, project, prints
  <2>2. deleted \union changed \in SUBSET Files /\ affected \in SUBSET Files
        /\ batch \in SUBSET Files
    BY <1>0 DEF TypeOK
  <2>3. CASE UNCHANGED graph
    BY <1>0, <2>1, <2>3, PutsNothing, RunEnds
  <2>4. ASSUME symbols' \in {symbols, Nothing} PROVE Promise!End
    <3>1. \A f \in Files : symbols'[f] \in {symbols[f], None, parsed[f]}
      BY <2>4 DEF Nothing
    <3> QED BY <1>0, <2>1, <3>1, PutOnly, RunEnds
  <2>5. ASSUME NEW S \in SUBSET Files,
               \/ Drop(S) \/ PutFileNodes(S) \/ PutSymbols(S) \/ PutImports(S) \/ PutCalls(S)
        PROVE  Promise!End
    BY <1>0, <2>1, <2>5, PutsWhatWasRead, RunEnds
  <2>6. \/ UNCHANGED graph \/ symbols' \in {symbols, Nothing}
        \/ \E S \in SUBSET Files :
             \/ Drop(S) \/ PutFileNodes(S) \/ PutSymbols(S) \/ PutImports(S) \/ PutCalls(S)
    BY <1>10, <2>2 DEF Abort
  <2> QED BY <2>3, <2>4, <2>5, <2>6
<1>11. CASE UNCHANGED vars
  BY <1>11 DEF vars, project, prints, graph, run, Promise!vars, Settled, StatOf,
     FullNeeded, NodeCountZero, Known
<1> QED BY <1>1, <1>2, <1>3, <1>4, <1>5, <1>6, <1>7, <1>8, <1>9, <1>10, <1>11
        DEF Next, Step

\* The pipeline keeps the promise of Index, for every set of files: no change
\* of a file goes unnoticed, a run puts nothing into the graph but what it has
\* read itself, and whenever one ends, done or cut short, what the next would
\* skip is in the graph as on disk, or was reported.
THEOREM PromiseIsKept ==
    ASSUME SameSecond = FALSE, "ok" \notin AbortsWith
    PROVE  Spec => ImplementsIndex
<1>1. Init => PromiseInv
  BY VersionInit, SkipInit, GoneInit DEF PromiseInv
<1>2. PromiseInv /\ [Next]_vars => PromiseInv'
  BY VersionStep, SkipStep, GoneStep DEF PromiseInv, VersionInv
<1>3. Init => Promise!Init
  <2> SUFFICES ASSUME Init PROVE Promise!Init
      OBVIOUS
  <2>1. Known = {}
    BY DEF Init, Known, Nothing
  <2>2. Settled = {}
    BY <2>1 DEF Settled, FullNeeded
  <2> QED BY <2>2 DEF Init, Promise!Init, Promise!Nothing, Nothing
<1>4. PromiseInv /\ PromiseInv' /\ [Next]_vars => [Promise!Next]_(Promise!vars)
  BY PromiseStep
<1> QED BY <1>1, <1>2, <1>3, <1>4, PTL DEF Spec, ImplementsIndex, Promise!Spec
=============================================================================
