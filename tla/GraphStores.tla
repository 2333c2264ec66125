---------------------------- MODULE GraphStores -----------------------------
(***************************************************************************)
(* What index runs and the analyzer ask of a graph store, what the         *)
(* interface GraphStore promises of it, and what each store makes of it.   *)
(* A behaviour uses one of the stores.                                     *)
(*                                                                         *)
(* A run is the sequence of the calls it makes.  A call that returns an    *)
(* error the run does not ignore ends it; what runs do to a graph after    *)
(* that is not followed until a full run starts again.                     *)
(***************************************************************************)
EXTENDS GraphSchema, Relation

CONSTANTS
  Code,           \* what is parsed from each version of each file: a path is
                  \* a sequence of words, an id too
  MaxRuns         \* bound: runs

VARIABLES
  store,          \* the store in use
  graph,          \* what its engine holds
  want,           \* what the calls so far asked for
  code,           \* the version of each file, 0: there is none
  calls,          \* the calls the current run has left
  sound,          \* no run has failed since the last full one started
  runs

vars == <<store, graph, want, code, calls, sound, runs>>

L == INSTANCE LadybugStore
K == INSTANCE KuzuStore
F == INSTANCE FalkorStore

Stores == {"ladybug", "memory", "kuzu", "falkor"}
Files == DOMAIN Code

NewGraphs(s) ==
  CASE s = "falkor" -> {F!NewGraph}
    [] s = "kuzu" -> {K!NewGraph(strict) : strict \in BOOLEAN}
    [] OTHER -> {L!NewGraph(s = "memory", strict) : strict \in BOOLEAN}

NoWant == [nodes |-> <<>>, edges |-> <<>>]

Init ==
  /\ store \in Stores
  /\ graph \in NewGraphs(store)
  /\ want = NoWant
  /\ code \in [Files -> {1}]
  /\ calls = <<>>
  /\ sound = FALSE
  /\ runs = 0

----------------------------------------------------------------------------
(* The interface                                                           *)

Perform(g, c) ==
  CASE c.op = "ClearAll" ->
         CASE store = "kuzu" -> K!ClearAll(g)
           [] store = "falkor" -> F!ClearAll(g)
           [] OTHER -> L!ClearAll(g)
    [] c.op = "Migrate" ->
         CASE store = "kuzu" -> K!Migrate(g)
           [] store = "falkor" -> F!Migrate(g)
           [] OTHER -> L!Migrate(g)
    [] c.op = "CreateNodes" ->
         CASE store = "kuzu" -> K!CreateNodes(g, c.items)
           [] store = "falkor" -> F!CreateNodes(g, c.items)
           [] OTHER -> L!CreateNodes(g, c.items)
    [] c.op = "WriteNodes" ->
         CASE store = "kuzu" -> K!WriteNodes(g, c.items)
           [] store = "falkor" -> F!WriteNodes(g, c.items)
           [] OTHER -> L!WriteNodes(g, c.items)
    [] c.op = "CreateEdges" ->
         CASE store = "kuzu" -> K!CreateEdges(g, c.items)
           [] store = "falkor" -> F!CreateEdges(g, c.items)
           [] OTHER -> L!CreateEdges(g, c.items)
    [] c.op = "WriteEdges" ->
         CASE store = "kuzu" -> K!WriteEdges(g, c.items)
           [] store = "falkor" -> F!WriteEdges(g, c.items)
           [] OTHER -> L!WriteEdges(g, c.items)
    [] c.op = "DeleteNodesByFile" ->
         CASE store = "kuzu" -> K!DeleteNodesByFile(g, c.path)
           [] store = "falkor" -> F!DeleteNodesByFile(g, c.path)
           [] OTHER -> L!DeleteNodesByFile(g, c.path)
    [] c.op = "DeleteNodeByID" ->
         CASE store = "kuzu" -> K!DeleteNodeByID(g, c.id)
           [] store = "falkor" -> F!DeleteNodeByID(g, c.id)
           [] OTHER -> L!DeleteNodeByID(g, c.id)
    [] c.op = "DeleteAllByKind" ->
         CASE store = "kuzu" -> K!DeleteAllByKind(g, c.kind)
           [] store = "falkor" -> F!DeleteAllByKind(g, c.kind)
           [] OTHER -> L!DeleteAllByKind(g, c.kind)
    [] c.op = "BatchUpdateNodeProperties" ->
         CASE store = "kuzu" ->
                K!BatchUpdateNodeProperties(g, c.kind, c.items)
           [] store = "falkor" ->
                F!BatchUpdateNodeProperties(g, c.kind, c.items)
           [] OTHER -> L!BatchUpdateNodeProperties(g, c.kind, c.items)

Answer(g, q) ==
  CASE q.ask = "QueryNodeByID" ->
         CASE store = "kuzu" -> K!QueryNodeByID(g, q.id)
           [] store = "falkor" -> F!QueryNodeByID(g, q.id)
           [] OTHER -> L!QueryNodeByID(g, q.id)
    [] q.ask = "QueryNodeByQualifiedName" ->
         CASE store = "kuzu" -> K!QueryNodeByQualifiedName(g, q.name)
           [] store = "falkor" -> F!QueryNodeByQualifiedName(g, q.name)
           [] OTHER -> L!QueryNodeByQualifiedName(g, q.name)
    [] q.ask = "QueryNodesByName" ->
         CASE store = "kuzu" -> K!QueryNodesByName(g, q.name, q.kinds)
           [] store = "falkor" -> F!QueryNodesByName(g, q.name, q.kinds)
           [] OTHER -> L!QueryNodesByName(g, q.name, q.kinds)
    [] q.ask = "QueryEdges" ->
         UNION {CASE store = "kuzu" -> K!QueryEdges(g, q.id, k, q.rel, q.dir)
                  [] store = "falkor" -> F!QueryEdges(g, q.id, k, q.rel, q.dir)
                  [] OTHER -> L!QueryEdges(g, q.id, k, q.rel, q.dir)
                  : k \in q.kinds}
    [] q.ask = "QueryAllEdges" ->
         CASE store = "kuzu" -> K!QueryAllEdges(g, q.rel)
           [] store = "falkor" -> F!QueryAllEdges(g, q.rel)
           [] OTHER -> L!QueryAllEdges(g, q.rel)
    [] q.ask = "QueryNodesByIDs" ->
         CASE store = "kuzu" -> K!QueryNodesByIDs(g, q.ids)
           [] store = "falkor" -> F!QueryNodesByIDs(g, q.ids)
           [] OTHER -> L!QueryNodesByIDs(g, q.ids)
    [] q.ask = "QueryEdgesByNodeIDs" ->
         CASE store = "kuzu" -> K!QueryEdgesByNodeIDs(g, q.ids, q.rel, q.dir)
           [] store = "falkor" -> F!QueryEdgesByNodeIDs(g, q.ids, q.rel, q.dir)
           [] OTHER -> L!QueryEdgesByNodeIDs(g, q.ids, q.rel, q.dir)
    [] q.ask = "QueryNodesByFile" ->
         CASE store = "kuzu" -> K!QueryNodesByFile(g, q.path)
           [] store = "falkor" -> F!QueryNodesByFile(g, q.path)
           [] OTHER -> L!QueryNodesByFile(g, q.path)
    [] q.ask = "QueryAllByKind" ->
         CASE store = "kuzu" -> K!QueryAllByKind(g, q.kind)
           [] store = "falkor" -> F!QueryAllByKind(g, q.kind)
           [] OTHER -> L!QueryAllByKind(g, q.kind)
    [] q.ask = "QueryNodesByProperty" ->
         CASE store = "kuzu" ->
                K!QueryNodesByProperty(g, q.kind, q.key, q.value, q.mode)
           [] store = "falkor" ->
                F!QueryNodesByProperty(g, q.kind, q.key, q.value, q.mode)
           [] OTHER ->
                L!QueryNodesByProperty(g, q.kind, q.key, q.value, q.mode)
    [] q.ask = "SearchFTS" ->
         CASE store = "kuzu" -> K!SearchFTS(g, q.word)
           [] store = "falkor" -> F!SearchFTS(g, q.word)
           [] OTHER -> L!SearchFTS(g, q.word)
    [] q.ask = "GetStats" ->
         CASE store = "kuzu" -> K!GetStats(g)
           [] store = "falkor" -> F!GetStats(g)
           [] OTHER -> L!GetStats(g)

AllByKind(g, kind) == Answer(g, [ask |-> "QueryAllByKind", kind |-> kind])

AllEdges(g, rel) == Answer(g, [ask |-> "QueryAllEdges", rel |-> rel])

(* What the interface promises of a call: WriteNodes updates what is there,
   an edge joins the nodes with its ids, CREATE adds one, a MERGE only a
   first, and a node that goes takes its edges with it.  A process belongs
   to the analysis, not to the file of its entry.                           *)

Without(w, gone) ==
  LET left == DOMAIN w.nodes \ gone
  IN  [nodes |-> [id \in left |-> w.nodes[id]],
       edges |-> [e \in {e \in DOMAIN w.edges : {e.from, e.to} \subseteq left}
                    |-> w.edges[e]]]

WithNode(w, n) ==
  LET known == [c \in DOMAIN n.props \cap NodeColumns[n.kind] |-> n.props[c]]
      old == IF n.id \in DOMAIN w.nodes THEN w.nodes[n.id].props ELSE <<>>
  IN  [w EXCEPT !.nodes = n.id :> [kind |-> n.kind, props |-> known @@ old] @@ @]

WithEdge(w, e, most) ==
  LET edge == [kind |-> e.kind, from |-> e.from, to |-> e.to]
      old == IF edge \in DOMAIN w.edges THEN w.edges[edge] ELSE 0
  IN  IF ~({e.from, e.to} \subseteq DOMAIN w.nodes) \/ old >= most THEN w
      ELSE [w EXCEPT !.edges = edge :> old + 1 @@ @]

Promise(w, c) ==
  CASE c.op = "ClearAll" -> NoWant
    [] c.op = "Migrate" -> w
    [] c.op \in {"CreateNodes", "WriteNodes"} ->
         FoldLeft(WithNode, w, c.items)
    [] c.op = "CreateEdges" ->
         FoldLeft(LAMBDA u, e : WithEdge(u, e, 9), w, c.items)
    [] c.op = "WriteEdges" ->
         FoldLeft(LAMBDA u, e : WithEdge(u, e, 1), w, c.items)
    [] c.op = "DeleteNodesByFile" ->
         Without(w, {id \in DOMAIN w.nodes :
                       /\ w.nodes[id].kind # "Process"
                       /\ "file_path" \in DOMAIN w.nodes[id].props
                       /\ w.nodes[id].props.file_path = c.path})
    [] c.op = "DeleteNodeByID" -> Without(w, {c.id})
    [] c.op = "DeleteAllByKind" ->
         Without(w, {id \in DOMAIN w.nodes : w.nodes[id].kind = c.kind})
    [] c.op = "BatchUpdateNodeProperties" ->
         FoldLeft(WithNode, w,
                  [i \in DOMAIN c.items |->
                     [kind |-> c.kind, id |-> c.items[i].id,
                      props |-> c.items[i].props]])

----------------------------------------------------------------------------
(* What runs write                                                         *)

Value == <<"some">>     \* of a column no query looks into

NodeOf(kind, id, props) == [kind |-> kind, id |-> id, props |-> props]

EdgeOf(kind, from, fromKind, to, toKind, props) ==
  [kind |-> kind, from |-> from, to |-> to, fromKind |-> fromKind,
   toKind |-> toKind, props |-> props]

Repo == <<"repo">>
FileID(f) == <<"file">> \o f
DirID(f) == <<"dir">> \o Front(f)

Present == {f \in Files : code[f] # 0}

Parsed(f) == Code[f][code[f]]

\* One result of each file of the batch after another.
Over(batch, Of1(_)) ==
  LET order == SetToSeq(batch)
  IN  FlattenSeq([i \in DOMAIN order |-> Of1(order[i])])

Mapped(Of1(_), items) == [i \in DOMAIN items |-> Of1(items[i])]

RepositoryNode ==
  NodeOf("Repository", Repo,
         [name |-> Repo, path |-> Value, index_timestamp |-> Value,
          frameworks |-> Value])

DirectoryNodes(batch) ==
  LET dirs == SetToSeq({Front(f) : f \in batch})
  IN  [i \in DOMAIN dirs |->
         NodeOf("Directory", <<"dir">> \o dirs[i], [path |-> dirs[i]])]

FileNodes(batch) ==
  Over(batch, LAMBDA f : <<NodeOf("File", FileID(f),
                                  [path |-> f, language |-> Value])>>)

StructuralEdges(batch) ==
  Over(batch, LAMBDA f :
         <<EdgeOf("CONTAINS", Repo, "Repository", FileID(f), "", {}),
           EdgeOf("CONTAINS", DirID(f), "Directory", FileID(f), "", {})>>)

\* The classes of the batch, and of the rest those the graph has.
ClassMap(batch, g) ==
  LET parsed == {s \in UNION {ToSet(Parsed(f).symbols) : f \in batch} :
                   s.kind \in {"Class", "Interface"}}
      stored == {n \in DOMAIN g.nodes :
                   \E k \in {"Class", "Interface"} :
                     <<n.kind, n.id>> \in AllByKind(g, k)}
  IN  {[name |-> s.id, id |-> s.id, kind |-> s.kind] : s \in parsed} \cup
      {[name |-> g.nodes[n].qualified_name, id |-> n.id, kind |-> n.kind] :
         n \in {m \in stored : \A s \in parsed :
                                 s.id # g.nodes[m].qualified_name}}

\* What contains a symbol: the class its qualified name starts with, and
\* its file.
SymbolEdges(f, symbol, classes) ==
  LET owners == {c \in classes : symbol.kind = "Function"
                              /\ c.name = Front(symbol.id)}
      way == [Class |-> "FileClass", Interface |-> "FileInterface",
              Variable |-> "FileVar", Function |-> "File"]
  IN  Mapped(LAMBDA c : EdgeOf("CONTAINS", c.id,
                               IF c.kind = "Interface" THEN "InterfaceFunc"
                               ELSE "ClassFunc", symbol.id, "", {}),
             SetToSeq(owners))
        \o <<EdgeOf("CONTAINS", FileID(f), way[symbol.kind], symbol.id, "", {})>>

SymbolNode(f, symbol) ==
  NodeOf(symbol.kind, symbol.id,
         [name |-> <<Last(symbol.id)>>, qualified_name |-> symbol.id,
          file_path |-> f]
         @@ (IF symbol.kind = "Variable" THEN [line |-> Value]
             ELSE [start_line |-> Value, end_line |-> Value])
         @@ (IF symbol.kind \in {"Class", "Interface"}
             THEN [fields |-> symbol.fields] ELSE <<>>))

RouteID(f, r) == <<"route">> \o r.path \o f

RouteNodes(f) ==
  Mapped(LAMBDA r : NodeOf("Route", RouteID(f, r),
                           [path_pattern |-> r.path, file_path |-> f]),
         Parsed(f).routes)

HandlesEdges(f) ==
  Mapped(LAMBDA r : EdgeOf("HANDLES", r.handler, "Function", RouteID(f, r), "",
                           {"handler_order"}),
         Parsed(f).routes)

QueryID(caller) == <<"query">> \o caller

QueryNodes(f) ==
  Mapped(LAMBDA caller : NodeOf("QueryNode", QueryID(caller),
                                [caller |-> caller, file_path |-> f]),
         Parsed(f).queries)

ExecutesEdges(f) ==
  Mapped(LAMBDA caller : EdgeOf("EXECUTES", caller, "Function",
                                QueryID(caller), "", {}),
         Parsed(f).queries)

AnnotationID(a) == a.on \o a.name

AnnotationNodes(f) ==
  Mapped(LAMBDA a : NodeOf("Annotation", AnnotationID(a),
                           [name |-> a.name, layer |-> a.layer,
                            params |-> a.params, file_path |-> f,
                            line |-> Value]),
         Parsed(f).annotations)

HasAnnotationEdges(f) ==
  Mapped(LAMBDA a : EdgeOf("HAS_ANNOTATION", a.on, a.kind, AnnotationID(a), "",
                           {}),
         Parsed(f).annotations)

\* A remote call no route of the project answers goes to a service.
ExternalID(service) == <<"ext", service>>

ExternalNodes(f) ==
  Mapped(LAMBDA r : NodeOf("ExternalService", ExternalID(r.service),
                           [name |-> <<r.service>>, discovered_by |-> r.caller,
                            file_path |-> f]),
         Parsed(f).remote)

RemoteEdges(f) ==
  Mapped(LAMBDA r : EdgeOf("REMOTE_CALLS_EXT", r.caller, "Function",
                           ExternalID(r.service), "", {"confidence"}),
         Parsed(f).remote)

ImportEdges(f) ==
  Mapped(LAMBDA h : EdgeOf("IMPORTS", FileID(f), "", FileID(h), "",
                           {"symbol_name", "alias"}),
         SelectSeq(Parsed(f).imports, LAMBDA h : h \in Present))

RelationProps(kind) ==
  CASE kind = "USES" -> {"line", "ref_kind"}
    [] kind = "CALLS" -> Confident \cup {"line"}
    [] OTHER -> Confident

\* What is resolved to a symbol the run knows.
RelationEdges(f, known) ==
  Mapped(LAMBDA r : EdgeOf(r.kind, r.from, r.fromKind, r.to, r.toKind,
                           RelationProps(r.kind)),
         SelectSeq(Parsed(f).relations,
                   LAMBDA r : {r.from, r.to} \subseteq known))

HintEdges(f, known) ==
  Mapped(LAMBDA h : EdgeOf("UNRESOLVED_CALL", h.from, "Function", h.to,
                           h.toKind, {"hint_type", "line"}),
         SelectSeq(Parsed(f).hints, LAMBDA h : h.to \in known))

\* A call whose error ends the run, and one whose error is ignored.
Must(op, items) == [op |-> op, items |-> items, fatal |-> TRUE]
May(call) == call @@ [fatal |-> FALSE]

Semantic(batch, classes, known) ==
  <<Must("CreateNodes", Over(batch, LAMBDA f :
           Mapped(LAMBDA s : SymbolNode(f, s), Parsed(f).symbols))),
    Must("CreateNodes", Over(batch, RouteNodes)),
    Must("CreateEdges", Over(batch, HandlesEdges)),
    Must("CreateNodes", Over(batch, QueryNodes)),
    Must("CreateEdges", Over(batch, ExecutesEdges)),
    Must("CreateNodes", Over(batch, AnnotationNodes)),
    Must("CreateEdges", Over(batch, HasAnnotationEdges)),
    Must("CreateNodes", Over(batch, ExternalNodes)),
    Must("CreateEdges", Over(batch, RemoteEdges)),
    Must("CreateEdges", Over(batch, LAMBDA f :
           FlattenSeq(Mapped(LAMBDA s : SymbolEdges(f, s, classes),
                             Parsed(f).symbols)))),
    Must("CreateEdges", Over(batch, ImportEdges)),
    Must("CreateEdges", Over(batch, LAMBDA f : RelationEdges(f, known))),
    Must("CreateEdges", Over(batch, LAMBDA f : HintEdges(f, known)))>>

\* Nothing to write, no call.
Written(writes) == SelectSeq(writes, LAMBDA c : c.items # <<>>)

SymbolsOf(batch) ==
  {s.id : s \in UNION {ToSet(Parsed(f).symbols) : f \in batch}}

FullRun ==
  LET all == Present
      noGraph == [nodes |-> <<>>, edges |-> <<>>]
  IN  <<May([op |-> "ClearAll"]), [op |-> "Migrate", fatal |-> TRUE]>>
        \o Written(<<Must("CreateNodes", <<RepositoryNode>> \o FileNodes(all)
                                           \o DirectoryNodes(all)),
                     Must("CreateEdges", StructuralEdges(all))>>
                   \o Semantic(all, ClassMap(all, noGraph), SymbolsOf(all)))

Cleanup(f) ==
  <<May([op |-> "DeleteNodesByFile", path |-> f]),
    May([op |-> "DeleteNodeByID", id |-> FileID(f)])>>

\* A run's writes that depend on what the graph holds after the cleanup.
\* Variables of other files are not loaded.
Rewrite(batch, g) ==
  LET known == SymbolsOf(batch) \cup
                 {r[2] : r \in UNION {AllByKind(g, k) :
                                        k \in ToSet(BaseSymbolKinds)}}
  IN  Written(<<Must("WriteNodes", <<RepositoryNode>> \o DirectoryNodes(batch)),
               Must("CreateNodes", FileNodes(batch)),
               Must("CreateEdges", StructuralEdges(batch))>>
             \o Semantic(batch, ClassMap(batch, g), known))

\* A directory that contains nothing any more is deleted.
CleanEmpty(dir, g) ==
  IF Answer(g, [ask |-> "QueryEdges", id |-> dir, kinds |-> {"Directory"},
                rel |-> "CONTAINS", dir |-> "outgoing"]) \in {{}, QueryError}
  THEN <<May([op |-> "DeleteNodeByID", id |-> dir])>> ELSE <<>>

FindImporters(f) ==
  {h \in Present \ {f} : <<FileID(h), FileID(f)>> \in AllEdges(graph, "IMPORTS")}

\* Functions that handle a route are entries; a process runs from its entry
\* through the calls.
Analysed ==
  LET entries == {e[1] : e \in AllEdges(graph, "HANDLES")}
      functions == {r[2] : r \in AllByKind(graph, "Function")}
      calls1 == AllEdges(graph, "CALLS")
      leads == TransitiveClosure([x \in functions \X functions |-> x \in calls1],
                                 functions)
      Steps(e) == {e} \cup {x \in functions : leads[<<e, x>>]}
      ProcessID(e) == <<"process">> \o e
      FileOf(e) == graph.nodes[CHOOSE n \in WithId(graph, "Function", e) :
                                 TRUE].file_path
      order == SetToSeq(entries)
  IN  SelectSeq(
        <<May([op |-> "BatchUpdateNodeProperties", kind |-> "Function",
               items |-> Mapped(LAMBDA e :
                           [id |-> e, props |-> [entry_type |-> <<"route">>,
                                                 entry_point_score |-> Value]],
                         order)]),
          May([op |-> "DeleteAllByKind", kind |-> "Process", items |-> <<1>>]),
          May([op |-> "CreateNodes", items |-> Mapped(LAMBDA e :
                 NodeOf("Process", ProcessID(e),
                        [name |-> Value, entry_point |-> e,
                         file_path |-> FileOf(e)]), order)]),
          May([op |-> "WriteEdges", items |-> FlattenSeq(Mapped(LAMBDA e :
                 Mapped(LAMBDA x : EdgeOf("STEP", ProcessID(e), "", x, "",
                                          {"order", "depth", "confidence"}),
                        SetToSeq(Steps(e))), order))])>>,
        LAMBDA c : c.items # <<>>)

----------------------------------------------------------------------------

Begin(its) ==
  /\ calls = <<>>
  /\ runs < MaxRuns
  /\ runs' = runs + 1
  /\ calls' = its
  /\ UNCHANGED <<store, graph, want, sound>>

\* A full index run.
FullIndex == Begin(FullRun) /\ UNCHANGED code

\* A file is written, and an incremental run indexes it with its importers.
IncrementalIndex(f, v) ==
  LET batch == {f} \cup FindImporters(f)
  IN  /\ sound
      /\ v # code[f]
      /\ code' = [code EXCEPT ![f] = v]
      /\ Begin(Over(batch, Cleanup) \o <<[op |-> "Rewrite", batch |-> batch]>>)

\* A file is deleted, and an incremental run finds no other change.
DeleteFile(f) ==
  /\ sound
  /\ code[f] # 0
  /\ code' = [code EXCEPT ![f] = 0]
  /\ Begin(Cleanup(f) \o <<[op |-> "CleanEmpty", dir |-> DirID(f)]>>)

Analyse == sound /\ Begin(Analysed) /\ UNCHANGED code

\* The next call of the run.
Call ==
  LET c == Head(calls)
  IN  /\ calls # <<>>
      /\ c.op \notin {"Rewrite", "CleanEmpty"}
      /\ \E r \in Perform(graph, c) :
           /\ graph' = r.g
           /\ IF r.ok \/ ~c.fatal
              THEN /\ calls' = Tail(calls)
                   /\ sound' = (sound \/ c.op = "ClearAll")
              ELSE calls' = <<>> /\ sound' = FALSE
      /\ want' = Promise(want, c)
      /\ UNCHANGED <<store, code, runs>>

\* The run looks at the graph and decides on the calls to come.
Look ==
  LET c == Head(calls)
  IN  /\ calls # <<>>
      /\ \/ c.op = "Rewrite" /\ calls' = Rewrite(c.batch, graph)
         \/ c.op = "CleanEmpty" /\ calls' = CleanEmpty(c.dir, graph)
      /\ UNCHANGED <<store, graph, want, code, sound, runs>>

Next ==
  \/ FullIndex
  \/ \E f \in Files : \E v \in DOMAIN Code[f] : IncrementalIndex(f, v)
  \/ \E f \in Files : DeleteFile(f)
  \/ Analyse
  \/ Call
  \/ Look

Spec == Init /\ [][Next]_vars

----------------------------------------------------------------------------
(* What the stores do not do, although a caller asks for it.               *)

Embedded == store # "falkor"

Kind(w, id) == w.nodes[id].kind

\* Only a bulk load of LadybugDB tells the kinds of an edge's ends apart: the
\* other ways take every callee for a function and every base for a class.
\* FalkorDB takes everything a file contains for a function.  The tables of
\* steps have none of the columns that are written.
Keeps(w, e) ==
  LET target == Kind(w, e.to)
  IN  /\ e.kind \in {"CALLS", "UNRESOLVED_CALL"} /\ target = "Class"
           => store = "ladybug"
      /\ e.kind = "EXTENDS" /\ target = "Interface" => store = "ladybug"
      /\ e.kind = "CONTAINS" /\ target \in {"Class", "Interface", "Variable"}
           => Embedded
      /\ e.kind = "STEP" => store = "kuzu" \/ ~graph.strict

\* FalkorDB keeps these when their file goes, and makes new ones.
Stale == IF Embedded THEN {} ELSE {"Variable", "ExternalService"}

----------------------------------------------------------------------------
(* Properties                                                              *)

RelationOf(table) ==
  CASE table \in {"DIR_CONTAINS", "FILE_CONTAINS", "FILE_CONTAINS_CLASS",
                  "FILE_CONTAINS_IFACE", "FILE_CONTAINS_VAR",
                  "CLASS_CONTAINS_FUNC", "IFACE_CONTAINS_FUNC"} -> "CONTAINS"
    [] table \in {"HAS_ANNOTATION_FUNC", "HAS_ANNOTATION_CLASS",
                  "HAS_ANNOTATION_IFACE"} -> "HAS_ANNOTATION"
    [] table = "REMOTE_CALLS" -> "REMOTE_CALLS_EXT"
    [] OTHER -> table

\* The edges between two ids, of any table and between any copies.
HeldEdges ==
  {[kind |-> RelationOf(e.rel), from |-> e.from.id, to |-> e.to.id] :
     e \in DOMAIN graph.edges}

HeldTimes(edge) ==
  FoldSet(LAMBDA e, n : n + graph.edges[e], 0,
          {e \in DOMAIN graph.edges :
             RelationOf(e.rel) = edge.kind
             /\ e.from.id = edge.from /\ e.to.id = edge.to})

\* The nodes the calls have asked for are in the graph, once, with the values
\* they were given, and no others; and so are the edges, as often as they
\* were created.  Four ways to write a graph, and whatever runs did before,
\* come to the same.
HoldsGraph ==
  sound =>
    /\ \A n \in DOMAIN graph.nodes : n.kind \notin Stale =>
         /\ n.copy = 0
         /\ n.id \in DOMAIN want.nodes
         /\ want.nodes[n.id] = [kind |-> n.kind, props |-> graph.nodes[n]]
    /\ \A id \in DOMAIN want.nodes : WithId(graph, Kind(want, id), id) # {}
    /\ \A e \in DOMAIN want.edges : Keeps(want, e) =>
         /\ e \in HeldEdges
         /\ Kind(want, e.to) \notin Stale => HeldTimes(e) = want.edges[e]
    /\ \A e \in DOMAIN graph.edges : e.to.kind \notin Stale =>
         [kind |-> RelationOf(e.rel), from |-> e.from.id, to |-> e.to.id]
           \in DOMAIN want.edges

\* What answers are about: the graph asked for, less what the store does not
\* keep, with what it keeps too long.
Basis ==
  LET long == {n \in DOMAIN graph.nodes : n.kind \in Stale}
  IN  [nodes |-> [id \in {n.id : n \in long} |->
                    LET n == CHOOSE m \in long : m.id = id
                    IN  [kind |-> n.kind, props |-> graph.nodes[n]]]
                 @@ want.nodes,
       edges |-> {e \in DOMAIN want.edges : Keeps(want, e)} \cup
                 {e \in HeldEdges : \E n \in long : n.id = e.to}]

\* The answer the interface promises, from the ids and their values alone.
Promised(q) ==
  LET nodes == Basis.nodes
      edges == Basis.edges
      All(ids) == {<<nodes[id].kind, id>> : id \in ids}
      Is(id, column, value) == /\ column \in DOMAIN nodes[id].props
                               /\ nodes[id].props[column] = value
      Said(id, column) == /\ column \in DOMAIN nodes[id].props
                          /\ q.word \in ToSet(nodes[id].props[column])
      Between(some) == {<<e.from, e.to>> : e \in some}
      Kinds(kinds) == {id \in DOMAIN nodes : nodes[id].kind \in kinds}
      Near(e) == IF q.dir = "incoming" THEN e.to ELSE e.from
      symbols == Kinds(ToSet(QualifiedNameKinds))
  IN  CASE q.ask = "QueryNodeByID" -> All({q.id})
        [] q.ask = "QueryNodeByQualifiedName" ->
             All({id \in symbols : Is(id, "qualified_name", q.name)})
        [] q.ask = "QueryNodesByName" ->
             All({id \in Kinds(q.kinds) :
                    Is(id, IF Len(q.name) > 1 THEN "qualified_name" ELSE "name",
                       q.name)})
        [] q.ask = "QueryEdges" ->
             Between({e \in edges :
                        /\ e.kind = q.rel
                        /\ Near(e) = q.id
                        /\ q.rel = "UNRESOLVED_CALL"
                             => nodes[e.to].kind = "Function"})
        [] q.ask = "QueryAllEdges" -> Between({e \in edges : e.kind = q.rel})
        [] q.ask = "QueryNodesByIDs" -> All(q.ids)
        [] q.ask = "QueryEdgesByNodeIDs" ->
             Between({e \in edges : e.kind = q.rel /\ Near(e) \in q.ids})
        [] q.ask = "QueryNodesByFile" ->
             All({id \in Kinds(ToSet(BaseSymbolKinds)) :
                    Is(id, "file_path", q.path)})
        [] q.ask = "QueryAllByKind" -> All(Kinds({q.kind}))
        [] q.ask = "QueryNodesByProperty" ->
             All({id \in Kinds({q.kind}) :
                    CASE q.mode = "exact" -> Is(id, q.key, q.value)
                      [] q.mode = "contains" ->
                           q.value \in ToSet(nodes[id].props[q.key])
                      [] OTHER -> q.key \in DOMAIN nodes[id].props})
        [] q.ask = "SearchFTS" ->
             All({id \in symbols : Said(id, "qualified_name")}) \cup
             All({id \in Kinds({"Annotation"}) : Said(id, "params")}) \cup
             {<<"Field", id, q.word>> :
                id \in {i \in Kinds({"Class", "Interface"}) : Said(i, "fields")}}

\* What services ask: about every node there is, and every name there ever was.
Names == {s.id : s \in UNION {ToSet(p.symbols) :
                               p \in UNION {ToSet(Code[f]) : f \in Files}}}

EdgesAsked ==
  {<<"Directory", {"Directory"}, "CONTAINS", "outgoing">>,
   <<"Class", {"Class"}, "CONTAINS", "outgoing">>,
   <<"Interface", {"Interface"}, "CONTAINS", "outgoing">>,
   <<"Class", {"Class"}, "EXTENDS", "outgoing">>,
   <<"Function", {"Function"}, "HAS_ANNOTATION", "outgoing">>,
   <<"Class", {"Class"}, "HAS_ANNOTATION", "outgoing">>,
   <<"Annotation", {"Function", "Class", "Interface"}, "HAS_ANNOTATION",
     "incoming">>,
   <<"Route", {"Route"}, "HANDLES", "incoming">>,
   <<"Variable", {"Function"}, "USES", "incoming">>,
   <<"Function", {"Function"}, "UNRESOLVED_CALL", "outgoing">>,
   <<"Function", {"Function"}, "UNRESOLVED_CALL", "incoming">>}

PropertiesAsked ==
  LET Values(key) == {n.props[key] : n \in {m \in Range(Basis.nodes) :
                                            key \in DOMAIN m.props}}
      Having(kind, key, mode, values) ==
        {[ask |-> "QueryNodesByProperty", kind |-> kind, key |-> key,
          mode |-> mode, value |-> v] : v \in values}
  IN  Having("Function", "entry_type", "exact", {<<"route">>, <<"cli">>}) \cup
      Having("Function", "entry_type", "not_empty", {<<>>}) \cup
      Having("Variable", "qualified_name", "contains", UNION {ToSet(v) :
                                               v \in Names}) \cup
      Having("Route", "path_pattern", "exact", Values("path_pattern")) \cup
      Having("Class", "file_path", "exact", Files) \cup
      Having("Annotation", "layer", "exact", Values("layer"))

Questions ==
  LET ids == DOMAIN Basis.nodes
      On(kind) == {id \in ids : Basis.nodes[id].kind = kind}
  IN  {[ask |-> "QueryNodeByID", id |-> id] : id \in ids} \cup
      {[ask |-> "QueryNodeByQualifiedName", name |-> n] : n \in Names} \cup
      {[ask |-> "QueryNodesByName", name |-> n, kinds |-> {k}] :
         n \in Names \cup {<<Last(n)>> : n \in Names},
         k \in {"Function", "Class", "Interface"}} \cup
      UNION {{[ask |-> "QueryEdges", id |-> id, kinds |-> a[2], rel |-> a[3],
               dir |-> a[4]] : id \in On(a[1])} : a \in EdgesAsked} \cup
      {[ask |-> "QueryAllEdges", rel |-> rel] :
         rel \in {"CALLS", "EXTENDS", "IMPLEMENTS", "OVERRIDES", "IMPORTS",
                  "HANDLES", "HAS_ANNOTATION", "STEP"}} \cup
      {[ask |-> "QueryNodesByIDs", ids |-> On(k)] : k \in {"QueryNode", "Function"}} \cup
      {[ask |-> "QueryEdgesByNodeIDs", ids |-> On("Function"),
        rel |-> "EXECUTES", dir |-> "outgoing"]} \cup
      {[ask |-> "QueryNodesByFile", path |-> f] : f \in Files} \cup
      {[ask |-> "QueryAllByKind", kind |-> k] :
         k \in ToSet(BaseSymbolKinds) \cup {"Route", "Annotation", "Process"}} \cup
      PropertiesAsked \cup
      {[ask |-> "SearchFTS", word |-> w] : w \in UNION {ToSet(n) : n \in Names}}

\* The columns of EXECUTES are not those the embedded stores ask for.
MayFail(q) == q.ask = "QueryEdgesByNodeIDs" /\ Embedded /\ graph.strict

\* Between runs every question a service asks has the answer that the calls
\* made so far promise, in each of the stores; and the nodes of each kind are
\* counted right.
AnswersAgree ==
  calls = <<>> /\ sound =>
    /\ \A q \in Questions :
         Answer(graph, q) = IF MayFail(q) THEN QueryError ELSE Promised(q)
    /\ \A k \in ToSet(AllNodeKinds) \ Stale :
         <<k, Cardinality({id \in DOMAIN want.nodes : Kind(want, id) = k})>>
           \in Answer(graph, [ask |-> "GetStats"])

=============================================================================
