---------------------------- MODULE ServiceLinks ----------------------------
(***************************************************************************)
(* The cross-project stages of index runs: several projects (services),    *)
(* each with a graph of its own, share the cross-project index.  A run     *)
(* writes routes, their handlers and remote calls, takes the symbols of    *)
(* its dependencies in, joins remote calls to the routes of its own        *)
(* project or of a dependency, and registers what it exports.              *)
(*                                                                         *)
(* Qualified names, types and URL paths are sequences of segments; ids of  *)
(* nodes are sequences that start with what sets the kinds of ids apart.   *)
(* The index is the map that ProjectMap promises.                          *)
(***************************************************************************)
EXTENDS Naturals, FiniteSets, FiniteSetsExt, SequencesExt

CONSTANTS
  Projects,
  Deps,           \* the configured dependencies of each project
  Code,           \* what is parsed from a version of a file of a project
  Params,         \* path segments of routes that are parameters: {id}, :id
  MaxEdits        \* bound: edits

None == <<>>                    \* no handler, no caller, no service name
NoMatch == <<"no match">>
NoURL == <<"">>                 \* a remote call whose URL is not known
Wild == "{param}"

Files(p) == DOMAIN Code[p]

ASSUME ServicesAssumption ==
  /\ Deps \in [Projects -> SUBSET Projects]
  /\ \A p \in Projects : p \notin Deps[p]
  /\ \A p \in Projects : \A f \in Files(p) : Len(Code[p][f]) > 0
  /\ MaxEdits \in Nat

VARIABLES
  disk,           \* the version of each file
  prints,         \* the versions the fingerprints were taken of, 0: none
  graph,          \* of each project: nodes by kind, and edges
  run,            \* the index run of each project
  index,          \* the cross-project index
  sound,          \* projects whose runs all ended well since a full one
  edits

vars == <<disk, prints, graph, run, index, sound, edits>>

NoGraph == [files |-> {}, imports |-> {}, symbols |-> {}, routes |-> {},
            services |-> {}, edges |-> {}]
NoEntry == [symbols |-> {}, routes |-> {}]
Idle == [stage |-> "idle"]

Init ==
  /\ disk = [p \in Projects |-> [f \in Files(p) |-> 1]]
  /\ prints = [p \in Projects |-> [f \in Files(p) |-> 0]]
  /\ graph = [p \in Projects |-> NoGraph]
  /\ run = [p \in Projects |-> Idle]
  /\ index = [p \in Projects |-> NoEntry]
  /\ sound = {}
  /\ edits = 0

----------------------------------------------------------------------------
(* Nodes and edges                                                         *)

Ids(nodes) == {n.id : n \in nodes}
NodeIds(g) == Ids(g.symbols) \union Ids(g.routes) \union Ids(g.services)

Symbol(id, qn, kind, path) ==
  [id |-> id, qn |-> qn, kind |-> kind, path |-> path,
   exported |-> FALSE, ver |-> 0]

\* Edges are created by matching both of their ends.
CreateEdges(g, edges) ==
  [g EXCEPT !.edges =
     @ \union {e \in edges : {e.from, e.to} \subseteq NodeIds(g)}]

\* DETACH DELETE of the nodes with one of these file paths.
DeleteNodesByFile(g, paths) ==
  LET Left(nodes) == {n \in nodes : n.path \notin paths}
      kept == [g EXCEPT !.symbols = Left(@), !.routes = Left(@),
                        !.services = Left(@)]
  IN [kept EXCEPT
        !.files = @ \ paths,
        !.imports = {i \in @ : i[1] \notin paths /\ i[2] \notin paths},
        !.edges = {e \in @ : {e.from, e.to} \subseteq NodeIds(kept)}]

\* The functions that take every d to a member of S[d].
Picks(S) ==
  {f \in [DOMAIN S -> UNION {S[d] : d \in DOMAIN S}] :
     \A d \in DOMAIN S : f[d] \in S[d]}

\* The members of a set in some order.
InARow(S) == FoldSet(LAMBDA x, row : Append(row, x), <<>>, S)

OrNone(S, none) == IF S = {} THEN {none} ELSE S

----------------------------------------------------------------------------
(* Parse results and the symbol table                                      *)

\* One part of the parse results, in the order the files were parsed.
Parsed(p, order, version, part) ==
  FlattenSeq([i \in DOMAIN order |->
    Code[p][order[i]][version[order[i]]][part]])

SymbolNodes(p, order, version) ==
  LET symbols == Parsed(p, order, version, "symbols")
  IN [i \in DOMAIN symbols |->
       [id |-> <<p, symbols[i].file>> \o symbols[i].qn, qn |-> symbols[i].qn,
        kind |-> symbols[i].kind, path |-> symbols[i].file,
        exported |-> symbols[i].exported, ver |-> version[symbols[i].file]]]

\* Mutant of loadAllSymbols: only what was parsed is known.
LoadNothing(g) == <<>>

\* The functions, classes and interfaces of the files that are not parsed
\* again, and the external and foreign ones.
loadAllSymbols(g) ==
  InARow({n \in g.symbols : n.kind \in {"Function", "Class", "Interface"}
                               /\ n.qn # <<>>})

FindByQualifiedName(table, qn) == SelectSeq(table, LAMBDA s : s.qn = qn)

FindMethodsByQualifiedName(table, class) ==
  SelectSeq(table, LAMBDA s :
    s.kind = "Function" /\ Len(s.qn) > 1 /\ Front(s.qn) = class)

\* The first symbol of that qualified name; else, of the symbols with its
\* last segment, the first of the file, the first that the name is a suffix
\* of, the first.
resolveHandlerFunction(table, name, file) ==
  LET named == SelectSeq(table, LAMBDA s : Last(s.qn) = Last(name))
      tries == <<FindByQualifiedName(table, name),
                 SelectSeq(named, LAMBDA s : s.path = file),
                 SelectSeq(named, LAMBDA s : IsSuffix(name, s.qn)),
                 named>>
      found == FlattenSeq(tries)
  IN IF found = <<>> THEN None ELSE Head(found).id

----------------------------------------------------------------------------
(* Routes                                                                  *)

RouteNode(r) ==
  LET handler == IF r.handlers = <<>> THEN None ELSE Last(r.handlers)
  IN [id |-> <<"route", r.method>> \o r.pattern \o <<":">> \o handler
             \o <<":", r.file>>,
      method |-> r.method, pattern |-> r.pattern, handler |-> handler,
      framework |-> r.framework, path |-> r.file]

DetermineRouteRole(framework) ==
  IF framework = "feign" THEN "consumer" ELSE "provider"

\* The handlers of a route that are found, in their order.
Handling(table, r) ==
  SelectSeq([i \in DOMAIN r.handlers |->
               resolveHandlerFunction(table, r.handlers[i], r.file)],
            LAMBDA h : h # None)

HandlesEdges(table, routes) ==
  {[kind |-> "HANDLES", from |-> h, to |-> RouteNode(r).id] :
     <<r, h>> \in {<<r, h>> \in ToSet(routes) \X
                     UNION {ToSet(Handling(table, r)) : r \in ToSet(routes)} :
                   h \in ToSet(Handling(table, r))}}

\* A class of the batch that implements a Feign interface of the batch and
\* is a controller is called by the interface's methods.
propagateFeignRoutes(table, routes, heritage) ==
  {[kind |-> "CALLS", from |-> Last(Handling(table, x[1])),
    to |-> resolveHandlerFunction(table,
             <<x[2].child, Last(Last(x[1].handlers))>>, x[2].file)] :
     x \in {x \in ToSet(routes) \X ToSet(heritage) :
              /\ x[1].framework = "feign" /\ x[1].handlers # <<>>
              /\ Handling(table, x[1]) # <<>>
              /\ Len(Last(x[1].handlers)) = 2
              /\ Head(Last(x[1].handlers)) = x[2].parent
              /\ x[2].restController}}

Segments(path) == SelectSeq(path, LAMBDA s : s # "")
NormalizePathParams(path) ==
  [i \in DOMAIN path |-> IF path[i] \in Params THEN Wild ELSE path[i]]
isCatchAll(segment) == segment \in {"**", "*", "[...]"}
segmentMatches(fetched, routed) == Wild \in {fetched, routed} \/ fetched = routed

matchRESTRoute(path, method, route) ==
  LET fetched == Segments(path)
      routed == Segments(NormalizePathParams(route.pattern))
      n == Len(routed)
      Agree(k) == \A i \in 1..k : segmentMatches(fetched[i], routed[i])
  IN /\ "" \in {method, route.method} \/ method = route.method
     /\ IF n > 0 /\ isCatchAll(Last(Segments(route.pattern)))
        THEN Len(fetched) >= n - 1 /\ Agree(n - 1)
        ELSE Len(fetched) = n /\ Agree(n)

\* The service and the method of a gRPC call may both be in the path.
MatchRoute(path, method, route) ==
  CASE route.framework = "grpc" ->
         /\ route.pattern = SubSeq(path, 1, 1)
         /\ route.method = IF Len(path) > 1 THEN path[2] ELSE method
    [] route.framework \in {"graphql", "dubbo"} ->
         path = route.pattern /\ method = route.method
    [] OTHER -> matchRESTRoute(path, method, route)

FindMatchingRoutes(path, method, routes) ==
  {r \in routes : MatchRoute(path, method, r)}

\* One of the handlers of each route: HANDLES edges come in no order.
RouteToHandler(g) ==
  Picks([id \in Ids(g.routes) |->
    OrNone({e.from : e \in {e \in g.edges : e.kind = "HANDLES" /\ e.to = id}},
           None)])

----------------------------------------------------------------------------
(* The cross-project index                                                 *)

\* Mutant of Offered: a project looks up what it has registered itself.
OfferedByItself(p, part) == index[p][part]

\* What the dependencies of a project have registered.
Offered(p, part) == UNION {index[q][part] : q \in Deps[p]}

\* Mutant of MatchForeign: the method does not count.
AnyMethod(p, path, method) ==
  {r \in Offered(p, "routes") : r.role = "provider" /\ r.pattern = path}

\* The routes of dependencies with this method and this very path.
MatchForeign(p, path, method) ==
  {r \in Offered(p, "routes") :
     r.role = "provider" /\ r.method = method /\ r.pattern = path}

MatchRouteByService(p, service) ==
  {r \in Offered(p, "routes") :
     r.role = "provider" /\ r.framework = "grpc" /\ r.pattern = service}

LookupSymbol(p, name) ==
  {s \in Offered(p, "symbols") : IsSuffix(name, s.qn)}

EntryOf(table, routes, handlerOf) ==
  [symbols |->
     {[id |-> s.id, qn |-> s.qn, kind |-> s.kind,
       methods |-> {m.qn : m \in ToSet(FindMethodsByQualifiedName(table, s.qn))}] :
        s \in {s \in ToSet(table) : s.exported /\ s.kind # "Function"}},
   routes |->
     {[method |-> r.method, pattern |-> r.pattern, name |-> r.handler,
       handler |-> handlerOf[r.id], framework |-> r.framework,
       role |-> DetermineRouteRole(r.framework)] : r \in routes}]
----------------------------------------------------------------------------
(* Index runs                                                              *)

Goto(p, stage) == run' = [run EXCEPT ![p].stage = stage]
Write(p, g) == graph' = [graph EXCEPT ![p] = g]

\* The files that import what has changed, one level up.
findImporters(g, changed) ==
  {i[1] : i \in {i \in g.imports : i[2] \in changed /\ i[1] \notin changed}}

shouldFullIndex(p, force) ==
  force \/ graph[p].files = {} \/ \A f \in Files(p) : prints[p][f] = 0

\* A run starts: the graph is cleared, or what is out of date leaves it; the
\* files are parsed, in some order; the rest of the table is loaded.
Begin(p, force) ==
  LET full == shouldFullIndex(p, force)
      changed == {f \in Files(p) : disk[p][f] # prints[p][f]}
      batch == IF full THEN Files(p)
               ELSE changed \union findImporters(graph[p], changed)
      left == IF full THEN NoGraph ELSE DeleteNodesByFile(graph[p], batch)
  IN /\ run[p].stage = "idle"
     /\ batch # {}
     /\ Write(p, left)
     /\ \E order \in SetToSeqs(batch) :
          run' = [run EXCEPT ![p] =
            [stage |-> "semantic", order |-> order, version |-> disk[p],
             table |-> SymbolNodes(p, order, disk[p]) \o loadAllSymbols(left),
             prepared |-> {}, calls |-> {}, handlerOf |-> <<>>]]
     /\ sound' = IF full THEN sound \union {p} ELSE sound
     /\ UNCHANGED <<disk, prints, index, edits>>

\* CreateNodes fails when a node exists: the run ends with an error, and some
\* of the other nodes may have been created.
Refuse(p, g, part, nodes) ==
  /\ \E kept \in SUBSET {n \in nodes : n.id \notin Ids(g[part])} :
       Write(p, [g EXCEPT ![part] = @ \union kept])
  /\ run' = [run EXCEPT ![p] = Idle]
  /\ sound' = sound \ {p}

Collide(g, part, nodes) == Ids(nodes) \intersect Ids(g[part]) # {}

\* Nodes are created, then edges; or the run ends.
CreateThen(p, g, part, nodes, edges, next) ==
  IF Collide(g, part, nodes) THEN Refuse(p, g, part, nodes)
  ELSE /\ \E h \in {[g EXCEPT ![part] = @ \union nodes]} :
            Write(p, CreateEdges(h, edges))
       /\ run' = next
       /\ UNCHANGED sound

Of(p, part) == Parsed(p, run[p].order, run[p].version, part)

RemoteExt(from, id) == [kind |-> "REMOTE_CALLS_EXT", from |-> from, to |-> id]

\* The graph with the symbols of the batch, its routes and their handlers.
WithRoutes(p) ==
  LET r == run[p]
      batch == ToSet(r.order)
      routes == Of(p, "routes")
      written == [graph[p] EXCEPT
        !.files = @ \union batch,
        !.symbols = @ \union ToSet(SymbolNodes(p, r.order, r.version)),
        !.routes = @ \union {RouteNode(x) : x \in ToSet(routes)}]
  IN CHOOSE g \in {CreateEdges(h,
       HandlesEdges(r.table, routes)
       \union propagateFeignRoutes(r.table, routes, Of(p, "heritage"))) :
         h \in {written}} : TRUE

\* The remote calls of the batch whose caller is found.
Placed(p) ==
  SelectSeq(Of(p, "remotes"),
            LAMBDA c : resolveHandlerFunction(run[p].table, c.caller, c.file) # None)

CallerOf(p, c) == resolveHandlerFunction(run[p].table, c.caller, c.file)

\* Each remote call goes to one of the routes in the graph that match, those
\* of clients included, or to the service that it names.
writeSemanticNodes(p) ==
  LET calls == Placed(p)
      matches(g) == [i \in DOMAIN calls |->
        OrNone(Ids(FindMatchingRoutes(calls[i].path, calls[i].method, g.routes)),
               NoMatch)]
  IN /\ run[p].stage = "semantic"
     /\ \E g \in {WithRoutes(p)} : \E pick \in Picks(matches(g)) :
          LET outside == {i \in DOMAIN calls :
                            pick[i] = NoMatch /\ calls[i].service # None}
              ExtId(i) == <<"ext">> \o calls[i].service
              First(i) == \A j \in outside : ExtId(j) = ExtId(i) => i <= j
              nodes == {[id |-> ExtId(i), path |-> calls[i].file] :
                          i \in {i \in outside : First(i)}}
              edges == {RemoteExt(CallerOf(p, calls[i]), ExtId(i)) : i \in outside}
                \union {[kind |-> "REMOTE_CALLS_ROUTE",
                         from |-> CallerOf(p, calls[i]), to |-> pick[i]] :
                          i \in {i \in DOMAIN calls : pick[i] # NoMatch}}
          IN CreateThen(p, g, "services", nodes, edges,
                        [run EXCEPT ![p].stage = "inject"])
     /\ UNCHANGED <<disk, prints, index, edits>>

CrossId(qn) == <<"cross-project">> \o qn
CrossProject == "[cross-project]"
CrossService == "[cross-service]"

\* What dependencies export joins the table.  The nodes of an earlier run go
\* when there is anything to take in.
injectCrossProjectSymbols(p) ==
  LET classes == {Symbol(CrossId(s.qn), s.qn, s.kind, CrossProject) :
                    s \in Offered(p, "symbols")}
      methods == {Symbol(CrossId(m), m, "Function", CrossProject) :
                    m \in UNION {s.methods : s \in Offered(p, "symbols")}}
  IN /\ run[p].stage = "inject"
     /\ run' = [run EXCEPT ![p].stage = "relate",
                           ![p].table = @ \o InARow(classes \union methods),
                           ![p].prepared = classes \union methods]
     /\ Write(p, IF classes = {} THEN graph[p]
                 ELSE DeleteNodesByFile(graph[p], {CrossProject}))
     /\ UNCHANGED <<disk, prints, index, sound, edits>>

ExternalId(qn) == <<"external">> \o qn

\* IMPORTS edges, the foreign nodes that calls refer to, all external symbols
\* of the table, and the calls.
resolveAndWriteRelations(p) ==
  LET r == run[p]
      Target(c) == LET found == FindByQualifiedName(r.table, c.target)
                   IN IF found = <<>> THEN ExternalId(c.target) ELSE Head(found).id
      calls == {<<CallerOf(p, c), Target(c)>> : c \in ToSet(Of(p, "calls"))}
      unknown == {c.target : c \in {c \in ToSet(Of(p, "calls")) :
                                      Target(c)[1] = "external"}}
      new == {Symbol(ExternalId(qn), qn, "Function", "[external]") :
                qn \in {qn \in unknown : FindByQualifiedName(r.table, qn) = <<>>}}
      table == r.table \o InARow(new)
      imports == {<<i.file, i.target>> : i \in ToSet(Of(p, "imports"))}
      referenced == {n \in r.prepared : \E c \in calls : c[2] = n.id}
      g == [graph[p] EXCEPT !.imports = @ \union imports,
                            !.symbols = @ \union referenced]
      external == {s \in ToSet(table) : s.id[1] = "external"}
      edges == {[kind |-> "CALLS", from |-> c[1], to |-> c[2]] : c \in calls}
  IN /\ r.stage = "relate"
     /\ CreateThen(p, g, "symbols", external, edges,
                   [run EXCEPT ![p].stage = "pending", ![p].table = table,
                               ![p].calls = calls])
     /\ UNCHANGED <<disk, prints, index, edits>>

SymbolOf(p, id) == Head(SelectSeq(run[p].table, LAMBDA s : s.id = id))

\* The calls of a class into the type of one of its remote fields.
CallsOfField(p, f) ==
  {c \in run[p].calls :
     /\ c[1] # None
     /\ Front(SymbolOf(p, c[1]).qn) = f.owner
     /\ f.type \in SubSeqs(SymbolOf(p, c[2]).qn)}

resolvePendingRemoteCalls(p) ==
  LET pending == Of(p, "pending")
      used == {i \in DOMAIN pending : CallsOfField(p, pending[i]) # {}}
      ExtId(i) == <<"ext">> \o pending[i].type
      First(i) == \A j \in used : ExtId(j) = ExtId(i) => i <= j
      nodes == {[id |-> ExtId(i), path |-> pending[i].file] :
                  i \in {i \in used : First(i)}}
      edges == {RemoteExt(x[2][1], ExtId(x[1])) :
                  x \in {x \in used \X run[p].calls :
                           x[2] \in CallsOfField(p, pending[x[1]])}}
  IN /\ run[p].stage = "pending"
     /\ CreateThen(p, graph[p], "services", nodes, edges,
                   [run EXCEPT ![p].stage = "match"])
     /\ UNCHANGED <<disk, prints, index, edits>>

Place(id, name) == [id |-> id, name |-> name]
NoPlace == Place(NoMatch, None)

\* The routes of the project that a call may be matched with: served ones,
\* with exactly its method.
LocalRoutes(p, c) ==
  FindMatchingRoutes(c.path, c.method,
    {r \in graph[p].routes : DetermineRouteRole(r.framework) = "provider"
                             /\ r.method = c.method})

\* Where a call may lead outside of the project: only when no local route
\* matches it.
ForeignPlaces(p, c) ==
  IF LocalRoutes(p, c) # {} THEN {}
  ELSE {Place(r.handler, r.name) : r \in MatchForeign(p, c.path, c.method)}

\* Where a remote field leads: to a gRPC service, or to a class.
PendingPlaces(p, f) ==
  LET routes == MatchRouteByService(p, f.service)
  IN IF routes = {} THEN {Place(s.id, s.qn) : s \in LookupSymbol(p, f.service)}
     ELSE {Place(IF r.handler = None THEN <<"cross">> \o r.name ELSE r.handler,
                 r.name) : r \in routes}

\* What a run asks of its dependencies, and for whom.  One method of the owner
\* of a field stands for all.
Links(p) ==
  LET calls == SelectSeq(Placed(p), LAMBDA c : c.path # NoURL)
      owned == SelectSeq(Of(p, "pending"), LAMBDA f :
                 FindMethodsByQualifiedName(run[p].table, f.owner) # <<>>)
  IN [i \in DOMAIN calls |->
        [from |-> CallerOf(p, calls[i]), places |-> ForeignPlaces(p, calls[i])]]
     \o [i \in DOMAIN owned |->
          [from |-> Head(FindMethodsByQualifiedName(run[p].table,
                                                    owned[i].owner)).id,
           places |-> PendingPlaces(p, owned[i])]]

\* Calls that a route of the project serves lead to the handler of one such
\* route, unless the caller is the method of a Feign client.
LocalLinks(p, handlerOf, pick) ==
  LET calls == SelectSeq(Placed(p), LAMBDA c : c.path # NoURL)
      feign == {handlerOf[r.id] :
                  r \in {r \in graph[p].routes : r.framework = "feign"}}
      Handler(i) == handlerOf[pick[i]]
  IN {[kind |-> "CALLS", from |-> CallerOf(p, calls[i]), to |-> Handler(i)] :
        i \in {i \in DOMAIN calls :
                 /\ pick[i] # NoMatch
                 /\ Handler(i) \notin {None, CallerOf(p, calls[i])}
                 /\ CallerOf(p, calls[i]) \notin feign}}

matchConsumerToProvider(p) ==
  LET calls == SelectSeq(Placed(p), LAMBDA c : c.path # NoURL)
      links == Links(p)
  IN /\ run[p].stage = "match"
     /\ \E handlerOf \in RouteToHandler(graph[p]),
           route \in Picks([i \in DOMAIN calls |->
                       OrNone(Ids(LocalRoutes(p, calls[i])), NoMatch)]),
           place \in Picks([i \in DOMAIN links |->
                       OrNone(links[i].places, NoPlace)]) :
          LET found == {i \in DOMAIN links : place[i] # NoPlace}
              First(i) == \A j \in found : place[j].id = place[i].id => i <= j
              nodes == {Symbol(place[i].id, place[i].name, "Function", CrossService) :
                          i \in {i \in found : First(i)}}
              edges == LocalLinks(p, handlerOf, route) \union
                       {[kind |-> "CALLS", from |-> links[i].from,
                         to |-> place[i].id] : i \in found}
          IN CreateThen(p, graph[p], "symbols", nodes, edges,
                        [run EXCEPT ![p].stage = "register",
                                    ![p].handlerOf = handlerOf])
     /\ UNCHANGED <<disk, prints, index, edits>>

writeCrossProjectIndex(p) ==
  LET entry == EntryOf(run[p].table, graph[p].routes, run[p].handlerOf)
  IN /\ run[p].stage = "register"
     /\ index' = [index EXCEPT ![p] = entry]
     /\ Goto(p, "save")
     /\ UNCHANGED <<disk, prints, graph, sound, edits>>

saveFingerprints(p) ==
  /\ run[p].stage = "save"
  /\ prints' = [prints EXCEPT ![p] = run[p].version]
  /\ run' = [run EXCEPT ![p] = Idle]
  /\ UNCHANGED <<disk, graph, index, sound, edits>>

Edit(p, f) ==
  /\ edits < MaxEdits /\ disk[p][f] < Len(Code[p][f])
  /\ disk' = [disk EXCEPT ![p][f] = @ + 1]
  /\ edits' = edits + 1
  /\ UNCHANGED <<prints, graph, run, index, sound>>

Stage(p) ==
  \/ writeSemanticNodes(p)
  \/ injectCrossProjectSymbols(p)
  \/ resolveAndWriteRelations(p)
  \/ resolvePendingRemoteCalls(p)
  \/ matchConsumerToProvider(p)
  \/ writeCrossProjectIndex(p)
  \/ saveFingerprints(p)

Next ==
  \E p \in Projects :
    \/ \E force \in BOOLEAN : Begin(p, force)
    \/ Stage(p)
    \/ \E f \in Files(p) : Edit(p, f)

\* A run that was started goes on, as its stages wait for nobody: this is
\* WF_vars(Stage(p)), said with the guard of Stage(p), which TLC evaluates
\* faster.  However often a project is indexed, a run from scratch (fcg index
\* --force) comes again.
Fairness ==
  \A p \in Projects :
    []<>(run[p].stage = "idle") /\ SF_vars(Begin(p, TRUE))

Spec == Init /\ [][Next]_vars /\ Fairness

----------------------------------------------------------------------------
(* Properties                                                              *)

\* The code of a project as it is on disk, in some order of its files.
OnDisk(p, part) == Parsed(p, InARow(Files(p)), disk[p], part)

\* The entries a full run over these versions of its files may register.
FullEntries(p, version) ==
  UNION {
    LET table == SymbolNodes(p, order, version)
        routes == Parsed(p, order, version, "routes")
        nodes == {RouteNode(r) : r \in ToSet(routes)}
        g == CreateEdges([NoGraph EXCEPT !.symbols = ToSet(table),
                                         !.routes = nodes],
                         HandlesEdges(table, routes))
    IN {EntryOf(table, nodes, handlerOf) : handlerOf \in RouteToHandler(g)} :
    order \in SetToSeqs(Files(p))}

Versions(p) == [Files(p) -> 1 .. Max({Len(Code[p][f]) : f \in Files(p)})]

\* The same as a function, which TLC computes once.
Entries ==
  [p \in Projects |->
    [version \in {v \in Versions(p) : \A f \in Files(p) : v[f] <= Len(Code[p][f])} |->
      FullEntries(p, version)]]

EntriesOnDisk(p) == Entries[p][disk[p]]

\* Only classes and interfaces: incremental runs do not load variables.
Classes(entry) ==
  [entry EXCEPT !.symbols = {s \in @ : s.kind \in {"Class", "Interface"}}]

\* What a project has registered is what a full index of its files would
\* register, though an incremental run parses only some of them and takes the
\* rest from the graph: symbols, methods, routes and the handlers of routes in
\* files that import a changed one.  Runs that ended early are another matter.
EntryMatchesCode ==
  \A p \in sound :
    run[p].stage = "idle" /\ prints[p] = disk[p] =>
      Classes(index[p]) \in {Classes(e) : e \in EntriesOnDisk(p)}

\* A call into another service leads to what some version of that service's
\* files registers: to the handler of a route it serves (never of a client) with the method and
\* the path of a call in the version of the caller's file that was indexed, or
\* to the class or gRPC service that is the type of a field of the caller's
\* class.  (A route whose handler is not found is registered with no id, and
\* calls to it lead to a node with an empty one.)
LinksWereServed ==
  \A p \in Projects : \A e \in graph[p].edges :
    (e.to # None /\ \E n \in graph[p].symbols : n.id = e.to /\ n.path = CrossService) =>
      \E n \in {n \in graph[p].symbols : n.id = e.from} :
      \E q \in Deps[p] :
      \E entry \in UNION {Entries[q][v] : v \in {v \in DOMAIN Entries[q] :
                            \A f \in Files(q) : v[f] <= disk[q][f]}} :
        LET parsed == Code[p][n.path][n.ver]
        IN \/ \E c \in ToSet(parsed.remotes), r \in entry.routes :
                /\ IsSuffix(c.caller, n.qn)
                /\ r.framework # "feign" /\ r.handler = e.to
                /\ r.pattern = c.path /\ r.method = c.method
           \/ \E f \in ToSet(parsed.pending) :
                /\ Front(n.qn) = f.owner
                /\ \/ \E s \in entry.symbols : s.id = e.to /\ Last(s.qn) = Last(f.service)
                   \/ \E r \in entry.routes :
                        r.framework = "grpc" /\ r.pattern = f.service
                        /\ e.to \in {r.handler, <<"cross">> \o r.name}

\* The handlers a dependency's files on disk offer for a call that no route of
\* the project serves.
Served(p, c) ==
  IF \E r \in ToSet(OnDisk(p, "routes")) :
       r.framework # "feign" /\ r.method = c.method
       /\ MatchRoute(c.path, c.method, RouteNode(r))
  THEN {}
  ELSE {r.handler : r \in {r \in UNION {e.routes : e \in UNION {EntriesOnDisk(q) : q \in Deps[p]}} :
          r.role = "provider" /\ r.method = c.method /\ r.pattern = c.path}}

Caller(p, c) == <<p, c.file>> \o c.caller

Linked(p) ==
  /\ \A c \in ToSet(OnDisk(p, "remotes")) :
       Served(p, c) # {} =>
         \E e \in graph[p].edges : e.from = Caller(p, c) /\ e.to \in Served(p, c)
  /\ \A c \in ToSet(OnDisk(p, "calls")), q \in Deps[p] :
       (\E s \in ToSet(OnDisk(p, "symbols")) : s.qn = c.target)
       \/ ((\E entry \in EntriesOnDisk(q) : \E s \in entry.symbols : c.target \in s.methods)
           => \E e \in graph[p].edges :
                e.from = Caller(p, c) /\ e.to = CrossId(c.target))

\* When every project is indexed afresh again and again and the files rest, the
\* graphs end up with the calls between projects that the files on disk call for,
\* in whatever order the projects are indexed and whatever went wrong before.
EventuallyLinked ==
  <>[](\A p \in Projects : run[p].stage = "idle" => Linked(p))
=============================================================================
