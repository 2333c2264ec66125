------------------------- MODULE ExportPropagation -------------------------
(***************************************************************************)
(* Re-exports: which symbol a name of a barrel stands for.  A single pass *)
(* over the imports, in the order the parse results arrived, registers    *)
(* each re-exported name, or has it wait for the name it depends on.      *)
(***************************************************************************)
EXTENDS SymbolTable

VARIABLES
  phase,            \* what the run does
  next,             \* the entry it does it to
  importEdges,      \* IMPORTS edges: <<file, file>>
  importFileMap,    \* <<file, symbol name>> |-> the file it is imported from
  waitingFor        \* [awaited, waiter]: a name waits for another

exportVars == <<importEdges, importFileMap, waitingFor>>

Entries == Collect(parseOrder, "imports")

Files == DOMAIN project.files

----------------------------------------------------------------------------
(* Files of import paths.                                                  *)

Relative(path) == path # <<>> /\ Head(path) \in {".", ".."}

\* From a directory on, segment by segment: "." stays, ".." goes up.
Resolve(dir, path) ==
  FoldLeft(LAMBDA at, segment :
             CASE segment = "."                -> at
               [] segment = ".." /\ at = <<>>  -> at
               [] segment = ".." /\ at # <<>>  -> Front(at)
               [] OTHER                        -> Append(at, segment),
           dir, path)

\* A file in preference to the index of a directory, for Python the other
\* way round.
Module(path) ==
  LET inside == Append(path, IF project.lang = "python" THEN "__init__" ELSE "index")
      first == IF project.lang = "python" THEN inside ELSE path
      second == IF project.lang = "python" THEN path ELSE inside
  IN CASE first \in Files                        -> first
       [] first \notin Files /\ second \in Files -> second
       [] OTHER                                  -> Nothing

\* buildImportPathIndex: a path that starts with an alias of tsconfig is
\* that of a file in the directory the alias stands for.
AliasFile(module) ==
  LET stands(f) == \E a \in project.aliases :
        /\ IsPrefix(a.prefix, module) /\ IsPrefix(a.dir, f)
        /\ SubSeq(module, Len(a.prefix) + 1, Len(module))
             = SubSeq(f, Len(a.dir) + 1, Len(f))
  IN IF \E f \in Files : stands(f) THEN CHOOSE f \in Files : stands(f)
                                  ELSE Nothing

\* An alias, a relative path, for Python an absolute one.  The name of a
\* module that is neither never is that of a file: files have extensions.
ResolveTargetFile(e) ==
  CASE AliasFile(e.module) # Nothing -> AliasFile(e.module)
    [] AliasFile(e.module) = Nothing
       /\ (Relative(e.module) \/ project.lang = "python") ->
         Module(IF Relative(e.module) THEN Resolve(Front(e.file), e.module)
                                      ELSE e.module)
    [] OTHER -> Nothing

----------------------------------------------------------------------------
(* The first pass registers what the files themselves export, the second  *)
(* what they re-export.                                                    *)

InitExports ==
  /\ phase = "imports" /\ next = 1
  /\ importEdges = {}
  /\ importFileMap = Empty
  /\ waitingFor = {}

\* ResolveImports: the file whose name, without directory and extension, is
\* that of the imported symbol, or else the last segment of the module.  Of
\* files of the same name the last one scanned.
ImportedFile(e) ==
  LET named(n) == SelectLastInSeq(project.scanned, LAMBDA f : Last(f) = n)
      last == Last(e.module)
  IN CASE e.name # Nothing /\ named(e.name) > 0 -> project.scanned[named(e.name)]
       [] (e.name = Nothing \/ named(e.name) = 0) /\ named(last) > 0 ->
            project.scanned[named(last)]
       [] OTHER -> Nothing

ResolveImports ==
  /\ phase = "imports"
  /\ importEdges' = {<<e.file, ImportedFile(e)>> :
                       e \in {x \in ToSet(Entries) : ImportedFile(x) # Nothing}}
  /\ phase' = "exports"
  /\ UNCHANGED <<tableVars, next, importFileMap, waitingFor>>

\* The languages that have re-exports; all others resolve no target files.
HasReExports == project.lang \in {"typescript", "python"}

NameIn(file, name) == Append(DerivePackage(file), name)

OwnName(s) == NameIn(s.file, Last(s.qn))

\* Where the parse results have a symbol that is exported.
Exported == {i \in DOMAIN OwnSymbols : OwnSymbols[i].exported}

ExportedAs(n) == {i \in Exported : OwnName(OwnSymbols[i]) = n}

RegisterLocalExports ==
  /\ phase = "exports"
  /\ reExports' =
       IF ~HasReExports THEN Empty
       ELSE [n \in {OwnName(OwnSymbols[i]) : i \in Exported} |->
               FirstAt(ExportedAs(n), OwnSymbols)]
  /\ phase' = IF HasReExports THEN "reexports" ELSE "infer"
  /\ next' = 1
  /\ UNCHANGED <<project, parseOrder, table, exportVars>>

FindSymbolInFile(file, name) ==
  FirstAt({i \in FindExportedByFile(file) :
             Last(table[i].qn) = name \/ (name = "default" /\ table[i].isDefault)},
          table)

\* Mutant of Woken: those that wait for the name itself, and not for those.
WokenOnce(names) ==
  names \cup {w.waiter : w \in {v \in waitingFor : v.awaited \in names}}

\* The names that wait for a name, for one of those, and so on: the least set
\* that whoever waits for one of its names belongs to.
Woken(names) ==
  LET all == names \cup {w.waiter : w \in waitingFor}
      AllAwake(set) == \A w \in waitingFor : w.awaited \in set => w.waiter \in set
  IN {n \in all : \A set \in SUBSET all : names \subseteq set /\ AllAwake(set) => n \in set}

\* AddReExport and propagateWaiters.
Register(name, symbol) ==
  /\ reExports' = [n \in DOMAIN reExports \cup Woken({name}) |->
                     IF n \in Woken({name}) THEN symbol ELSE reExports[n]]
  /\ waitingFor' = {w \in waitingFor : w.awaited \notin Woken({name})}

Entry == Entries[next]
Target == ResolveTargetFile(Entry)
Barrel == NameIn(Entry.file, Entry.localName)
Source == NameIn(Target, Entry.name)

Advance ==
  /\ phase = "reexports" /\ next <= Len(Entries)
  /\ importFileMap' =
       IF Target # Nothing /\ Entry.name # Nothing
       THEN (<<Entry.file, Entry.name>> :> Target) @@ importFileMap
       ELSE importFileMap
  /\ next' = next + 1
  /\ UNCHANGED <<project, parseOrder, table, phase, importEdges>>

Named == Entry.isReexport /\ Target # Nothing /\ ~Entry.isWildcard

SkipImport ==
  /\ Advance
  /\ ~Entry.isReexport \/ Target = Nothing
  /\ UNCHANGED <<reExports, waitingFor>>

\* export * from: what the target itself exports and the barrel does not.
RegisterWildcard ==
  /\ Advance
  /\ Entry.isReexport /\ Target # Nothing /\ Entry.isWildcard
  /\ LET names == {NameIn(Entry.file, Last(table[i].qn)) : i \in FindExportedByFile(Target)}
         named(n) == {i \in FindExportedByFile(Target) : Last(table[i].qn) = Last(n)}
     IN reExports' = [n \in DOMAIN reExports \cup names |->
                        IF n \in DOMAIN reExports THEN reExports[n]
                        ELSE FirstAt(named(n), table)]
  /\ UNCHANGED waitingFor

SkipRegistered ==
  /\ Advance /\ Named /\ Barrel \in DOMAIN reExports
  /\ UNCHANGED <<reExports, waitingFor>>

\* The target defines the symbol.
RegisterDirect ==
  /\ Advance /\ Named /\ Barrel \notin DOMAIN reExports
  /\ FindSymbolInFile(Target, Entry.name) # Nothing
  /\ Register(Barrel, FindSymbolInFile(Target, Entry.name))

\* The target is a barrel that has the name by now, or may have it later.
RegisterViaBarrel ==
  /\ Advance /\ Named /\ Barrel \notin DOMAIN reExports
  /\ FindSymbolInFile(Target, Entry.name) = Nothing
  /\ Source \in DOMAIN reExports
  /\ Register(Barrel, reExports[Source])

WaitForBarrel ==
  /\ Advance /\ Named /\ Barrel \notin DOMAIN reExports
  /\ FindSymbolInFile(Target, Entry.name) = Nothing
  /\ Source \notin DOMAIN reExports
  /\ waitingFor' = waitingFor \cup {[awaited |-> Source, waiter |-> Barrel]}
  /\ UNCHANGED reExports

ExportsPropagated ==
  /\ phase = "reexports" /\ next > Len(Entries)
  /\ phase' = "infer" /\ next' = 1
  /\ UNCHANGED <<tableVars, exportVars>>

PropagateExports ==
  \/ ResolveImports \/ RegisterLocalExports
  \/ SkipImport \/ RegisterWildcard \/ SkipRegistered
  \/ RegisterDirect \/ RegisterViaBarrel \/ WaitForBarrel
  \/ ExportsPropagated

----------------------------------------------------------------------------

ExportedSymbols == {s \in ToSet(OwnSymbols) : s.exported}

ReExportEntries == {e \in ToSet(Entries) : e.isReexport}

\* The names a symbol may have: its own, those that re-exports of a name give,
\* and, where a wildcard passes them on, each of these in its file, too.
PossibleNames(s) ==
  LET renamed == {e \in ReExportEntries : ~e.isWildcard}
      passing == {e \in ReExportEntries : e.isWildcard}
      short == {Last(s.qn)} \cup {e.localName : e \in renamed}
  IN {OwnName(s)} \cup {NameIn(e.file, e.localName) : e \in renamed}
                  \cup {NameIn(e.file, x) : e \in passing, x \in short}

\* A re-export passes a name of the package of its target on, if it asks for
\* that name or for all; it may ask for the default export of its target, too.
PassedBy(e, s) ==
  LET target == ResolveTargetFile(e)
  IN {n \in PossibleNames(s) :
        /\ target # Nothing /\ Front(n) = DerivePackage(target)
        /\ \/ e.isWildcard \/ Last(n) = e.name
           \/ e.name = "default" /\ s.isDefault /\ s.file = target}

NameGiven(e, n) == NameIn(e.file, IF e.isWildcard THEN Last(n) ELSE e.localName)

\* The names that are passed on, and as what.
Passing(s) ==
  UNION {{<<n, NameGiven(e, n)>> : n \in PassedBy(e, s)} : e \in ReExportEntries}

\* The names that stand for a symbol, by any number of re-exports: the least
\* set with its own name that has what is passed on of the names in it.
NamesOf(s) ==
  LET passing == Passing(s)
      complete == {names \in SUBSET PossibleNames(s) :
                     /\ OwnName(s) \in names
                     /\ \A p \in passing : p[1] \in names => p[2] \in names}
  IN {n \in PossibleNames(s) : \A names \in complete : n \in names}

\* A name is registered only for a symbol that some file exports and that
\* a chain of re-exports leads to, whatever the order of the files: names
\* that wait are woken with the symbol they waited for, and where two files
\* are one package no name is given to a symbol that neither passes on.
ReExportsAreReal ==
  LET exported == ExportedSymbols
  IN \A n \in DOMAIN reExports :
       reExports[n] \in exported /\ n \in NamesOf(reExports[n])

\* Once all imports are processed, no chain of named re-exports is lost,
\* however long it is and in whatever order its files were parsed.  A
\* wildcard wakes nobody, so nothing is said of projects that have one.
BarrelsResolve ==
  phase \notin {"imports", "exports", "reexports"} /\ HasReExports
  /\ (\A e \in ToSet(Entries) : ~(e.isReexport /\ e.isWildcard))
  => \A s \in ExportedSymbols : NamesOf(s) \subseteq DOMAIN reExports
=============================================================================
