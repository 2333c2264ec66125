---------------------------- MODULE FalkorStore -----------------------------
(* The FalkorDB store: a graph without tables, reached over the network; the
   edges of a call go out together.                                        *)
EXTENDS GraphSchema

NewGraph ==
    [nodes |-> <<>>, edges |-> <<>>, there |-> FALSE, unique |-> FALSE,
     strict |-> FALSE, memory |-> FALSE]

\* Creating an index makes the graph.  Whether the constraint that ids are
\* unique comes about is not looked at.
Migrate(g) == {Done([g EXCEPT !.there = TRUE, !.unique = made]) :
                 made \in BOOLEAN}

DeleteGraph(g) == IF g.there THEN Done(NewGraph) ELSE Failed(g)

ClearAll(g) == {DeleteGraph(g)}

MapRelationType(kind) ==
    IF kind \in {"REMOTE_CALLS_ROUTE", "REMOTE_CALLS_EXT"}
    THEN "REMOTE_CALLS" ELSE kind

\* The labels of the ends of an edge that is written.
EdgeLabels(kind, sourceKind) ==
    CASE kind = "EXTENDS" -> <<"Class", "Class">>
      [] kind = "IMPLEMENTS" -> <<"Class", "Interface">>
      [] kind = "IMPORTS" -> <<"File", "File">>
      [] kind \in {"HANDLES", "REMOTE_CALLS_ROUTE"} ->
           <<"Function", "Route">>
      [] kind = "REMOTE_CALLS_EXT" -> <<"Function", "ExternalService">>
      [] kind = "EXECUTES" -> <<"Function", "QueryNode">>
      [] kind = "STEP" -> <<"Process", "Function">>
      [] kind = "USES" -> <<"Function", "Variable">>
      [] kind = "HAS_ANNOTATION" ->
           <<IF sourceKind \in {"Class", "Interface"} THEN sourceKind
             ELSE "Function", "Annotation">>
      [] kind = "CONTAINS" ->
           CASE sourceKind = "Directory" -> <<"Directory", "File">>
             [] sourceKind = "ClassFunc" -> <<"Class", "Function">>
             [] sourceKind = "InterfaceFunc" -> <<"Interface", "Function">>
             [] sourceKind \in
                  {"File", "FileClass", "FileInterface", "FileVar"} ->
                  <<"File", "Function">>
             [] OTHER -> <<"Repository", "File">>
      [] OTHER -> <<"Function", "Function">>

----------------------------------------------------------------------------
(* Writes                                                                  *)

\* One statement for the nodes of a kind, in no fixed order of the kinds.
\* (At most 5000 nodes here, the size of a batch.)
CreateNodes(g, nodes) ==
    LET Create(h, kind) == CreateKind(h, kind, nodes)
    IN  InAnyOrder(Create, g, {n.kind : n \in ToSet(nodes)})

\* All columns are set, to nothing where the node has no value.
MergeNode(g, node) ==
    LET there == WithId(g, node.kind, node.id)
    IN  IF there = {} THEN Done(Insert(g, node))
        ELSE Done([g EXCEPT !.nodes = [n \in DOMAIN g.nodes |->
               IF n \notin there THEN g.nodes[n]
               ELSE [c \in DOMAIN node.props \cap NodeColumns[node.kind] |->
                       node.props[c]]]])

WriteNodes(g, nodes) == {Each(MergeNode, g, nodes)}

Matched(g, edge) ==
    LET labels == EdgeLabels(edge.kind, edge.fromKind)
    IN  Joins(MapRelationType(edge.kind), WithId(g, labels[1], edge.from),
              WithId(g, labels[2], edge.to))

WriteEdges(g, edges) ==
    {Done(FoldLeft(LAMBDA h, e : Link(h, Matched(h, e)), g, edges))}

CreateEdges(g, edges) ==
    {Done(FoldLeft(LAMBDA h, e : Connect(h, Matched(h, e)), g, edges))}

FileKinds == {"Function", "Class", "Interface", "File", "Route", "QueryNode",
              "Annotation"}

DeleteNodesByFile(g, path) ==
    {Done(Detach(g, {n \in DOMAIN g.nodes : n.kind \in FileKinds
                                         /\ Has(g, n, "file_path", path)}))}

DeleteNodeByID(g, id) ==
    {Done(Detach(g, UNION {WithId(g, k, id) : k \in ToSet(AllNodeKinds)}))}

DeleteAllByKind(g, kind) == {Done(Detach(g, Of(g, kind)))}

BatchUpdateNodeProperties(g, kind, updates) ==
    {Done(FoldLeft(LAMBDA h, u : Put(h, WithId(h, kind, u.id), u.props),
                   g, updates))}

----------------------------------------------------------------------------
(* Queries                                                                 *)

QueryNodeByID(g, id) ==
    First(AllNodeKinds, [k \in ToSet(AllNodeKinds) |-> Rows(WithId(g, k, id))])

QueryNodeByQualifiedName(g, qn) ==
    First(QualifiedNameKinds,
          [k \in ToSet(QualifiedNameKinds) |->
             Rows({n \in Of(g, k) : Has(g, n, "qualified_name", qn)})])

\* A mutant: a qualified name is looked for among the names.
QueryNodesByShortName(g, name, kinds) ==
    LET labels == IF kinds = {} THEN ToSet(BaseSymbolKinds) ELSE kinds
    IN  UNION {Rows({n \in Of(g, k) : Has(g, n, "name", name)}) : k \in labels}

QueryNodesByName(g, name, kinds) ==
    LET labels == IF kinds = {} THEN ToSet(BaseSymbolKinds) ELSE kinds
        column == IF Len(name) > 1 THEN "qualified_name" ELSE "name"
    IN  UNION {Rows({n \in Of(g, k) : Has(g, n, column, name)}) : k \in labels}

\* Only the node the query starts from has a label, and only when the edges
\* leave it.
QueryEdges(g, id, nodeKind, kind, direction) ==
    LET label == IF nodeKind = "" THEN "Function" ELSE nodeKind
        all == Edges(g, MapRelationType(kind))
    IN  CASE direction = "outgoing" ->
               Ends({e \in all : e.from.kind = label /\ e.from.id = id})
          [] direction = "incoming" -> Ends({e \in all : e.to.id = id})

QueryAllEdges(g, kind) == Ends(Edges(g, MapRelationType(kind)))

QueryNodesByIDs(g, ids) ==
    Rows({n \in DOMAIN g.nodes :
            /\ n.kind \in {"Function", "Class", "Interface", "Route",
                           "QueryNode", "Annotation"}
            /\ n.id \in ids})

QueryEdgesByNodeIDs(g, ids, kind, direction) ==
    LET Near(e) == IF direction = "incoming" THEN e.to ELSE e.from
    IN  Ends({e \in Edges(g, MapRelationType(kind)) : Near(e).id \in ids})

\* Symbols whose lines are known
QueryNodesByFile(g, path) ==
    Rows({n \in DOMAIN g.nodes :
            /\ n.kind \in ToSet(BaseSymbolKinds)
            /\ Has(g, n, "file_path", path)
            /\ {"start_line", "end_line"} \subseteq DOMAIN g.nodes[n]})

QueryAllByKind(g, kind) == Rows(Of(g, kind))

QueryNodesByProperty(g, kind, key, value, mode) ==
    Rows({n \in Of(g, kind) :
            CASE mode = "contains" -> Says(g, n, key, value)
              [] mode = "not_empty" -> /\ key \in DOMAIN g.nodes[n]
                                       /\ g.nodes[n][key] # <<>>
              [] mode = "exact" -> Has(g, n, key, value)})

\* A hit for each field of a class whose name or type has the word.
ExtractFieldResults(g, n, word) ==
    {<<"Field", n.id, f>> : f \in ToSet(g.nodes[n].fields) \cap {word}}

SearchClassAndInterfaceFields(g, word) ==
    UNION {ExtractFieldResults(g, n, word) :
             n \in {m \in Of(g, "Class") \cup Of(g, "Interface") :
                      Says(g, m, "fields", word)}}

SearchFTS(g, word) ==
    LET Hits(kind, column) == {n \in Of(g, kind) : Says(g, n, column, word)}
    IN  UNION {Rows(Hits(k, "name") \cup Hits(k, "qualified_name")) :
                 k \in ToSet(QualifiedNameKinds)}
          \cup Rows(Hits("Annotation", "params"))
          \cup SearchClassAndInterfaceFields(g, word)

StatEdges ==
    {"CALLS", "EXTENDS", "IMPLEMENTS", "OVERRIDES", "IMPORTS", "HANDLES",
     "EXECUTES", "REMOTE_CALLS", "CONTAINS", "HAS_ANNOTATION", "STEP",
     "UNRESOLVED_CALL", "USES"}

GetStats(g) ==
    {<<k, Cardinality(Of(g, k))>> : k \in ToSet(AllNodeKinds)} \cup
    {<<r, FoldSet(LAMBDA e, n : n + g.edges[e], 0, Edges(g, r))>>
       : r \in StatEdges}
=============================================================================
