----------------------------- MODULE KuzuStore ------------------------------
(* The KuzuDB store: tables like LadybugDB's, single statements only.      *)
EXTENDS GraphSchema

NewGraph(strict) ==
    [nodes |-> <<>>, edges |-> <<>>, there |-> FALSE, unique |-> TRUE,
     strict |-> strict, memory |-> FALSE]

Migrate(g) == {Done([g EXCEPT !.there = TRUE])}

\* The tables stay.
ClearAll(g) == {Done(Detach(g, DOMAIN g.nodes))}

Relation(rel, from, to) == [rel |-> rel, from |-> from, to |-> to]

\* The table of a relation and the labels of its ends.
MapRelation(kind, sourceKind) ==
    CASE kind \in {"CALLS", "OVERRIDES", "DISPATCHES", "INJECTS",
                   "UNRESOLVED_CALL"} ->
           Relation(kind, "Function", "Function")
      [] kind = "EXTENDS" -> Relation(kind, "Class", "Class")
      [] kind = "IMPLEMENTS" -> Relation(kind, "Class", "Interface")
      [] kind = "IMPORTS" -> Relation(kind, "File", "File")
      [] kind \in {"HANDLES", "FETCHES", "REMOTE_CALLS_ROUTE"} ->
           Relation(kind, "Function", "Route")
      [] kind = "REMOTE_CALLS_EXT" ->
           Relation(kind, "Function", "ExternalService")
      [] kind = "EXECUTES" -> Relation(kind, "Function", "QueryNode")
      [] kind = "USES" -> Relation(kind, "Function", "Variable")
      [] kind = "STEP" -> Relation(kind, "Process", "Function")
      [] kind = "DEPENDS_ON" -> Relation(kind, "Directory", "Directory")
      [] kind = "MEMBER_OF" ->
           IF sourceKind = "Class"
           THEN Relation("MEMBER_OF_CLASS", "Class", "Community")
           ELSE Relation("MEMBER_OF_FUNC", "Function", "Community")
      [] kind = "HAS_ANNOTATION" ->
           CASE sourceKind = "Class" ->
                  Relation("HAS_ANNOTATION_CLASS", "Class", "Annotation")
             [] sourceKind = "Interface" ->
                  Relation("HAS_ANNOTATION_IFACE", "Interface", "Annotation")
             [] OTHER ->
                  Relation("HAS_ANNOTATION_FUNC", "Function", "Annotation")
      [] kind = "CONTAINS" ->
           CASE sourceKind = "Directory" ->
                  Relation("DIR_CONTAINS", "Directory", "File")
             [] sourceKind \in {"ClassFunc", "Class"} ->
                  Relation("CLASS_CONTAINS_FUNC", "Class", "Function")
             [] sourceKind \in {"InterfaceFunc", "Interface"} ->
                  Relation("IFACE_CONTAINS_FUNC", "Interface", "Function")
             [] sourceKind = "File" ->
                  Relation("FILE_CONTAINS", "File", "Function")
             [] sourceKind = "FileClass" ->
                  Relation("FILE_CONTAINS_CLASS", "File", "Class")
             [] sourceKind = "FileInterface" ->
                  Relation("FILE_CONTAINS_IFACE", "File", "Interface")
             [] sourceKind = "FileVar" ->
                  Relation("FILE_CONTAINS_VAR", "File", "Variable")
             [] OTHER -> Relation("CONTAINS", "Repository", "File")
      [] OTHER -> Relation("", "", "")

Unknown(edge) == MapRelation(edge.kind, edge.fromKind).rel = ""

NoColumns(g, edge) ==
    Refused(g, edge.props,
            EdgeColumns[MapRelation(edge.kind, edge.fromKind).rel].columns)

----------------------------------------------------------------------------
(* Writes, one node or edge at a time, up to the first that is refused.    *)

\* Properties without a column are left out.
CreateNode(g, node) ==
    IF ~g.there \/ (g.unique /\ WithId(g, node.kind, node.id) # {})
    THEN Failed(g) ELSE Done(Insert(g, node))

CreateNodes(g, nodes) == {Each(CreateNode, g, nodes)}

\* MERGE, then SET: all properties, or, when that is refused, one by one
\* those that are not.
MergeNode(g, node) ==
    LET h == IF WithId(g, node.kind, node.id) # {} THEN g
             ELSE Insert(g, [node EXCEPT !.props = <<>>])
    IN  IF ~g.there THEN Failed(g)
        ELSE Done(Put(h, WithId(h, node.kind, node.id), node.props))

WriteNodes(g, nodes) == {Each(MergeNode, g, nodes)}

Matched(g, edge) ==
    LET table == MapRelation(edge.kind, edge.fromKind)
    IN  Joins(table.rel, WithId(g, table.from, edge.from),
              WithId(g, table.to, edge.to))

\* Properties are part of the CREATE.
CreateEdge(g, edge) ==
    IF Unknown(edge) \/ NoColumns(g, edge) THEN Failed(g)
    ELSE Done(Connect(g, Matched(g, edge)))

CreateEdges(g, edges) == {Each(CreateEdge, g, edges)}

\* Properties are set after the MERGE, and when that is refused it is no
\* error: the edge is there without them.
WriteEdge(g, edge) ==
    IF Unknown(edge) THEN Failed(g) ELSE Done(Link(g, Matched(g, edge)))

WriteEdges(g, edges) == {Each(WriteEdge, g, edges)}

\* A mutant: annotations are forgotten.
AllButAnnotations ==
    {"Function", "Class", "Interface", "Variable", "Route", "QueryNode",
     "ExternalService"}

FileKinds ==
    {"Function", "Class", "Interface", "Variable", "Route", "QueryNode",
     "Annotation", "ExternalService"}

DeleteNodesByFile(g, path) ==
    {Done(Detach(g, {n \in DOMAIN g.nodes : n.kind \in FileKinds
                                         /\ Has(g, n, "file_path", path)}))}

DeleteNodeByID(g, id) ==
    {Done(Detach(g, {n \in DOMAIN g.nodes : n.id = id}))}

DeleteAllByKind(g, kind) == {Done(Detach(g, Of(g, kind)))}

BatchUpdateNodeProperties(g, kind, updates) ==
    LET Update(h, u) ==
          IF Refused(h, DOMAIN u.props, NodeColumns[kind]) THEN Failed(h)
          ELSE Done(Put(h, WithId(h, kind, u.id), u.props))
    IN  {Each(Update, g, updates)}

----------------------------------------------------------------------------
(* Queries.  A kind whose query fails is passed over.                      *)

QueryNodeByID(g, id) ==
    First(AllNodeKinds, [k \in ToSet(AllNodeKinds) |-> Rows(WithId(g, k, id))])

QueryNodeByQualifiedName(g, qn) ==
    First(QualifiedNameKinds,
          [k \in ToSet(QualifiedNameKinds) |->
             Rows({n \in Of(g, k) : Has(g, n, "qualified_name", qn)})])

\* A name with a dot is a qualified name.
QueryNodesByName(g, name, kinds) ==
    LET column == IF Len(name) > 1 THEN "qualified_name" ELSE "name"
        tables == IF kinds = {} THEN ToSet(BaseSymbolKinds) ELSE kinds
    IN  Rows({n \in DOMAIN g.nodes :
                n.kind \in tables /\ Has(g, n, column, name)})

QueryEdges(g, id, nodeKind, kind, direction) ==
    LET table == MapRelation(kind, nodeKind)
        all == {e \in Edges(g, table.rel) :
                  e.from.kind = table.from /\ e.to.kind = table.to}
    IN  CASE table.rel = "" -> QueryError
          [] direction = "outgoing" -> Ends({e \in all : e.from.id = id})
          [] direction = "incoming" -> Ends({e \in all : e.to.id = id})

AllTables(kind) ==
    CASE kind = "HAS_ANNOTATION" ->
           {"HAS_ANNOTATION_FUNC", "HAS_ANNOTATION_CLASS",
            "HAS_ANNOTATION_IFACE"}
      [] kind = "CONTAINS" ->
           {"CONTAINS", "DIR_CONTAINS", "FILE_CONTAINS",
            "FILE_CONTAINS_CLASS", "FILE_CONTAINS_IFACE",
            "CLASS_CONTAINS_FUNC", "IFACE_CONTAINS_FUNC"}
      [] OTHER -> {kind}

QueryAllEdges(g, kind) == UNION {Ends(Edges(g, t)) : t \in AllTables(kind)}

ByIdKinds ==
    {"Function", "Class", "Interface", "Route", "QueryNode", "Annotation"}

QueryNodesByIDs(g, ids) ==
    Rows({n \in DOMAIN g.nodes : n.kind \in ByIdKinds /\ n.id \in ids})

\* Confidence and line are asked for of any relation.
QueryEdgesByNodeIDs(g, ids, kind, direction) ==
    LET table == MapRelation(kind, "")
        all == {e \in Edges(g, table.rel) :
                  e.from.kind = table.from /\ e.to.kind = table.to}
    IN  IF Refused(g, {"confidence", "line"}, EdgeColumns[table.rel].columns)
        THEN QueryError
        ELSE Ends({e \in all :
                     (IF direction = "incoming" THEN e.to ELSE e.from).id
                       \in ids})

QueryNodesByFile(g, path) ==
    Rows({n \in DOMAIN g.nodes : n.kind \in ToSet(BaseSymbolKinds)
                              /\ Has(g, n, "file_path", path)})

QueryAllByKind(g, kind) == Rows(Of(g, kind))

QueryNodesByProperty(g, kind, key, value, mode) ==
    IF Refused(g, {key}, NodeColumns[kind]) THEN QueryError
    ELSE Rows({n \in Of(g, kind) :
           CASE mode = "contains" -> Says(g, n, key, value)
             [] mode = "not_empty" -> /\ key \in DOMAIN g.nodes[n]
                                      /\ g.nodes[n][key] # <<>>
             [] mode = "exact" -> Has(g, n, key, value)})

\* A hit for each field of a class whose name or type has the word.
ExtractFieldResults(g, n, word) ==
    {<<"Field", n.id, f>> : f \in ToSet(g.nodes[n].fields) \cap {word}}

SearchFTS(g, word) ==
    LET named == {n \in DOMAIN g.nodes :
                    /\ n.kind \in ToSet(QualifiedNameKinds)
                    /\ \/ Says(g, n, "name", word)
                       \/ Says(g, n, "qualified_name", word)}
        holders == {n \in DOMAIN g.nodes : n.kind \in {"Class", "Interface"}
                                        /\ Says(g, n, "fields", word)}
        annotated == {n \in Of(g, "Annotation") : Says(g, n, "params", word)}
    IN  Rows(named) \cup Rows(annotated)
          \cup UNION {ExtractFieldResults(g, n, word) : n \in holders}

StatEdges ==
    {"CALLS", "EXTENDS", "IMPLEMENTS", "OVERRIDES", "IMPORTS", "HANDLES",
     "EXECUTES", "CONTAINS"}

\* Edges are counted by table, of which CONTAINS is one of many.
GetStats(g) ==
    {<<k, Cardinality(Of(g, k))>> : k \in ToSet(AllNodeKinds)} \cup
    {<<r, FoldSet(LAMBDA e, n : n + g.edges[e], 0, Edges(g, r))>>
       : r \in StatEdges}
=============================================================================
