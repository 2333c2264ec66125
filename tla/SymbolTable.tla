---------------------------- MODULE SymbolTable ----------------------------
(***************************************************************************)
(* The symbol table of an index run: what the parser found in the files   *)
(* of a project, in the order the parse workers added it, and the index   *)
(* of re-exported names.                                                   *)
(*                                                                         *)
(* Qualified names, types and paths of files are sequences of segments:   *)
(* app.Svc.run is <<"app", "Svc", "run">>, app/Svc.ts is <<"app", "Svc">>; *)
(* the files of a project have the same extension.  The path of a module  *)
(* that is relative to the file that imports it starts with "." or "..".  *)
(***************************************************************************)
EXTENDS Naturals, FiniteSets, SequencesExt

CONSTANTS
  Projects,       \* the projects that may be indexed
  Nothing         \* no value

ASSUME ProjectsAssumption ==
  \A p \in Projects : IsFiniteSet(DOMAIN p.files) /\ DOMAIN p.files # {}

\* Symbols, imports and clauses say which file they are of.
ASSUME PartsAssumption ==
  \A p \in Projects : p.lang \in STRING /\ DOMAIN p.files \subseteq Seq(STRING) /\
    \A f \in DOMAIN p.files : \A part \in {"symbols", "imports", "heritage"} :
      LET list == p.files[f][part]
      IN list \in Seq(ToSet(list)) /\ \A x \in ToSet(list) : x # Nothing /\ x.file = f

VARIABLES
  project,        \* the project that is indexed
  parseOrder,     \* its files in the order their parse results arrived
  table,          \* symbols in the order they were added
  reExports       \* reExportIndex: qualified name |-> symbol

tableVars == <<project, parseOrder, table, reExports>>

Empty == [x \in {} |-> Nothing]

\* Qualified names, scopes, types and paths.
Path == Seq(STRING)

\* A part of the parse results of the files, put end to end.
Collect(files, part) ==
  FlattenSeq([i \in 1..Len(files) |-> project.files[files[i]][part]])

OwnSymbols == Collect(parseOrder, "symbols")

\* parseFiles: the workers add a file's symbols and append its parse result
\* in two steps, so the two orders need not agree.
InitTable ==
  /\ project \in Projects
  /\ parseOrder \in SetToSeqs(DOMAIN project.files)
  /\ \E added \in SetToSeqs(DOMAIN project.files) :
       table = Collect(added, "symbols")
  /\ reExports = Empty

----------------------------------------------------------------------------

First(s) == IF s = <<>> THEN Nothing ELSE Head(s)

FindByName(n) == SelectSeq(table, LAMBDA s : s.qn # <<>> /\ Last(s.qn) = n)

FindByQualifiedName(qn) == SelectSeq(table, LAMBDA s : s.qn = qn)

FindByFile(f) == SelectSeq(table, LAMBDA s : s.file = f)

\* The symbol at the first of these places of a list.
FirstAt(places, list) == IF places = {} THEN Nothing ELSE list[Min(places)]

\* Mutant of FindExportedByFile: what a file keeps to itself counts, too.
Unfiltered(f) == {i \in DOMAIN table : table[i].file = f}

\* The places in the table of the symbols that a file exports.
FindExportedByFile(f) == {i \in DOMAIN table : table[i].file = f /\ table[i].exported}

\* The functions a class owns: those of its qualified name and one segment.
IsMethodOf(s, class) == s.kind = "Function" /\ Len(s.qn) > 1 /\ Front(s.qn) = class

FindMethodsByQualifiedName(class) == SelectSeq(table, LAMBDA s : IsMethodOf(s, class))

\* The same, in no order.
Methods(class) == {s \in ToSet(table) : IsMethodOf(s, class)}

FindByQualifiedNameWithReExport(qn) ==
  CASE FindByQualifiedName(qn) # <<>> -> FindByQualifiedName(qn)
    [] FindByQualifiedName(qn) = <<>> /\ qn \in DOMAIN reExports ->
         <<reExports[qn]>>
    [] OTHER -> <<>>

Fields == UNION {ToSet(project.files[f].fields) : f \in DOMAIN project.files}

\* The type of a field of a class, if a file declares it.
FindFieldByOwner(class, name) ==
  IF \E x \in Fields : x.owner = class /\ x.name = name
  THEN (CHOOSE x \in Fields : x.owner = class /\ x.name = name).type
  ELSE Nothing

IsClassLike(s) == s.kind \in {"Class", "Interface"}

FirstClass(symbols) == First(SelectSeq(symbols, IsClassLike))

\* An index file or __init__ stands for its directory.  Only the extensions
\* of TypeScript and Python are taken off.
DerivePackage(path) ==
  CASE project.lang \notin {"typescript", "python"} -> Append(path, project.lang)
    [] project.lang \in {"typescript", "python"}
       /\ Len(path) > 1 /\ Last(path) \in {"index", "__init__"} -> Front(path)
    [] OTHER -> path
=============================================================================
