---------------------------- MODULE GraphSchema ----------------------------
(* The kinds of nodes and edges and the columns of their tables
   (model/schema.go, constants/symbol.go), cut down to the columns that
   writes, deletions and queries tell apart.  A text is the sequence of the
   words between its dots: a name is one word, a qualified name several. *)
EXTENDS Integers, FiniteSets, FiniteSetsExt, SequencesExt

BaseSymbolKinds == <<"Function", "Class", "Interface">>

QualifiedNameKinds == <<"Function", "Class", "Interface", "Variable">>

AllNodeKinds ==
    QualifiedNameKinds \o
    <<"File", "Directory", "Repository", "Route", "QueryNode", "Community",
      "Process", "Annotation", "ExternalService">>

SymbolColumns ==
    {"name", "qualified_name", "file_path", "start_line", "end_line"}

NodeColumns ==
    [Function |-> SymbolColumns \cup {"entry_type", "entry_point_score"},
     Class |-> SymbolColumns \cup {"fields"},
     Interface |-> SymbolColumns \cup {"fields"},
     Variable |-> {"name", "qualified_name", "file_path", "line"},
     File |-> {"path", "language"},
     Directory |-> {"path"},
     Repository |-> {"name", "path"},
     Route |-> {"path_pattern", "file_path"},
     QueryNode |-> {"caller", "file_path"},
     Community |-> {"name"},
     Process |-> {"name", "entry_point", "file_path"},
     Annotation |-> {"name", "layer", "params", "file_path", "line"},
     ExternalService |-> {"name", "discovered_by", "file_path"}]

Confident == {"confidence", "resolved_by", "candidates"}

Table(pairs, columns) == [pairs |-> pairs, columns |-> columns]

Called == <<<<"Function", "Function">>, <<"Function", "Class">>>>

EdgeColumns ==
    "CALLS" :> Table(Called, Confident \cup {"line", "declared_type"})
 @@ "UNRESOLVED_CALL" :> Table(Called, {"hint_type", "line"})
 @@ "EXTENDS" :> Table(<<<<"Class", "Class">>, <<"Interface", "Interface">>>>,
                       Confident)
 @@ "IMPLEMENTS" :> Table(<<<<"Class", "Interface">>>>, Confident)
 @@ "OVERRIDES" :> Table(<<<<"Function", "Function">>>>, Confident)
 @@ "DISPATCHES" :> Table(<<<<"Function", "Function">>>>, Confident)
 @@ "INJECTS" :> Table(<<<<"Function", "Function">>>>, {"inject_type"})
 @@ "IMPORTS" :> Table(<<<<"File", "File">>>>, {"symbol_name", "alias"})
 @@ "CONTAINS" :> Table(<<<<"Repository", "File">>>>, {})
 @@ "DIR_CONTAINS" :> Table(<<<<"Directory", "File">>>>, {})
 @@ "FILE_CONTAINS" :> Table(<<<<"File", "Function">>>>, {})
 @@ "FILE_CONTAINS_CLASS" :> Table(<<<<"File", "Class">>>>, {})
 @@ "FILE_CONTAINS_IFACE" :> Table(<<<<"File", "Interface">>>>, {})
 @@ "FILE_CONTAINS_VAR" :> Table(<<<<"File", "Variable">>>>, {})
 @@ "CLASS_CONTAINS_FUNC" :> Table(<<<<"Class", "Function">>>>, {})
 @@ "IFACE_CONTAINS_FUNC" :> Table(<<<<"Interface", "Function">>>>, {})
 @@ "CLASS_CONTAINS_VAR" :> Table(<<<<"Class", "Variable">>>>, {})
 @@ "MEMBER_OF_FUNC" :> Table(<<<<"Function", "Community">>>>, {})
 @@ "MEMBER_OF_CLASS" :> Table(<<<<"Class", "Community">>>>, {})
 @@ "DEPENDS_ON" :> Table(<<<<"Directory", "Directory">>>>, {"call_count"})
 @@ "HANDLES" :> Table(<<<<"Function", "Route">>>>, {"handler_order"})
 @@ "FETCHES" :> Table(<<<<"Function", "Route">>>>, {"http_method"})
 @@ "REMOTE_CALLS_ROUTE" :> Table(<<<<"Function", "Route">>>>, {"confidence"})
 @@ "REMOTE_CALLS_EXT" :>
        Table(<<<<"Function", "ExternalService">>>>, {"confidence"})
 @@ "EXECUTES" :> Table(<<<<"Function", "QueryNode">>>>, {})
 @@ "STEP" :> Table(<<<<"Process", "Function">>>>, {"seq"})
 @@ "HAS_ANNOTATION_FUNC" :> Table(<<<<"Function", "Annotation">>>>, {})
 @@ "HAS_ANNOTATION_CLASS" :> Table(<<<<"Class", "Annotation">>>>, {})
 @@ "HAS_ANNOTATION_IFACE" :> Table(<<<<"Interface", "Annotation">>>>, {})
 @@ "USES" :> Table(<<<<"Function", "Variable">>>>, {"line", "ref_kind"})

(* The engines.  A graph: nodes with their properties, edges with how often
   each is there; whether the tables, or the graph, are there; whether ids
   are kept unique; whether a statement that names a property its table lacks
   is refused; whether the database is one in memory.  The same id under two
   kinds is two nodes; where ids are not kept unique there may be copies.  *)
Node(kind, id, copy) == [kind |-> kind, id |-> id, copy |-> copy]

Of(g, kind) == {n \in DOMAIN g.nodes : n.kind = kind}

WithId(g, kind, id) == {n \in Of(g, kind) : n.id = id}

Has(g, n, column, value) ==
    column \in DOMAIN g.nodes[n] /\ g.nodes[n][column] = value

\* CONTAINS of a word
Says(g, n, column, word) ==
    column \in DOMAIN g.nodes[n] /\ word \in ToSet(g.nodes[n][column])

Refused(g, props, columns) == g.strict /\ ~(props \subseteq columns)

\* DETACH DELETE
Detach(g, gone) ==
    [g EXCEPT !.nodes = [n \in DOMAIN g.nodes \ gone |-> g.nodes[n]],
              !.edges = [e \in {f \in DOMAIN g.edges :
                                   {f.from, f.to} \cap gone = {}}
                           |-> g.edges[e]]]

\* CREATE of a node
Insert(g, node) ==
    LET copies == {n.copy : n \in WithId(g, node.kind, node.id)}
        new == Node(node.kind, node.id,
                    CHOOSE i \in 0 .. Cardinality(copies) : i \notin copies)
        kept == DOMAIN node.props \cap NodeColumns[node.kind]
    IN  [g EXCEPT !.nodes = [n \in DOMAIN g.nodes \cup {new} |->
              IF n = new THEN [c \in kept |-> node.props[c]]
              ELSE g.nodes[n]]]

\* SET of properties on nodes
Put(g, matched, props) ==
    [g EXCEPT !.nodes = [n \in DOMAIN g.nodes |->
         IF n \notin matched THEN g.nodes[n]
         ELSE [c \in DOMAIN props \cap NodeColumns[n.kind] |-> props[c]]
                @@ g.nodes[n]]]

Joins(rel, sources, targets) ==
    {[rel |-> rel, from |-> a, to |-> b] : a \in sources, b \in targets}

\* CREATE of an edge between all matched pairs
Connect(g, joins) ==
    [g EXCEPT !.edges = [e \in DOMAIN g.edges \cup joins |->
         (IF e \in DOMAIN g.edges THEN g.edges[e] ELSE 0)
           + (IF e \in joins THEN 1 ELSE 0)]]

\* MERGE of an edge between all matched pairs
Link(g, joins) == Connect(g, joins \ DOMAIN g.edges)

Edges(g, rel) == {e \in DOMAIN g.edges : e.rel = rel}

(* What comes of a call: the graph, and whether no error was returned. *)
Done(g) == [g |-> g, ok |-> TRUE]
Failed(g) == [g |-> g, ok |-> FALSE]

\* one step after another, up to the first error
Each(Step(_, _), g, items) ==
    FoldLeft(LAMBDA r, item : IF r.ok THEN Step(r.g, item) ELSE r,
             Done(g), items)

\* steps that do not touch each other, in any order, up to the first error
InAnyOrder(Step(_, _), g, items) ==
    LET refused == {i \in items : ~Step(g, i).ok}
        With(some) == FoldSet(LAMBDA i, h : Step(h, i).g, g, some)
    IN  IF refused = {} THEN {Done(With(items))}
        ELSE {Failed(With(some)) : some \in SUBSET (items \ refused)}

\* One statement that creates the nodes of a kind, all or none of them.
CreateKind(g, kind, nodes) ==
    LET own == SelectSeq(nodes, LAMBDA n : n.kind = kind)
        ids == {n.id : n \in ToSet(own)}
    IN  IF g.unique /\ (\/ Cardinality(ids) # Len(own)
                       \/ \E id \in ids : WithId(g, kind, id) # {})
        THEN Failed(g)
        ELSE Done(FoldLeft(Insert, g, own))

(* Answers: rows that name nodes, or the ends of edges. *)
Rows(nodes) == {<<n.kind, n.id>> : n \in nodes}

Ends(edges) == {<<e.from.id, e.to.id>> : e \in edges}

\* the rows of the first kind that has any
First(kinds, rows) ==
    LET found == {i \in DOMAIN kinds : rows[kinds[i]] # {}}
    IN  IF found = {} THEN {} ELSE rows[kinds[Min(found)]]

\* an error instead of rows: no id is empty
QueryError == {<<<<>>, <<>>>>}
=============================================================================
