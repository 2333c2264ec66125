---------------------------- MODULE CallQueries ----------------------------
(***************************************************************************)
(* A question about callers or callees, from the name a user gives to the *)
(* answer the command line or the MCP server shows: the name is resolved  *)
(* to a function, up the class hierarchy if need be, the store traverses  *)
(* the call graph (CallTraversal), and the answer runs through the        *)
(* filters of the mode.                                                   *)
(***************************************************************************)
EXTENDS CallTraversal, Sequences

CONSTANTS
  Names,            \* method names
  Owner, Name,      \* of each function: its class (or NoType) and its name
  Symbols,          \* names users ask for: [type, name]
  Parents,          \* EXTENDS edges a graph may have: <<class, parent>>
  Hints,            \* UNRESOLVED_CALL edges a graph may have: <<from, to>>
  Accessors,        \* getters and setters
  Externals,        \* functions of no file of the project
  Noise,            \* log methods and constructors of exceptions
  Lambdas,          \* lambda bodies
  Gateways, Modes,  \* who asks, and for what detail
  MaxInheritance    \* maxInheritanceDepth

ASSUME QueriesAssumption ==
  /\ Owner \in [Funcs -> Types \cup {NoType}] /\ Name \in [Funcs -> Names]
  /\ Symbols \subseteq [type : Types, name : Names]
  /\ Parents \subseteq Types \X Types
  /\ Hints \subseteq Funcs \X Funcs
  /\ UNION {Accessors, Externals, Noise, Lambdas} \subseteq Funcs
  /\ Gateways \subseteq {"cli", "mcp"}
  /\ Modes \subseteq {"full", "core", "dry", "compact"}
  /\ MaxInheritance \in Nat

\* A call chain in full mode has nodes of its own, one per chain of calls,
\* named after the line on which the chain begins.
ChainNode == {<<"chain", e.chain>> : e \in {c \in Sites : c.chain > 0}}

VARIABLES
  extends, hints,   \* more of the graph
  symbol,           \* the name asked for: [type, name]
  gateway, mode,    \* who asks, and for which mode
  current, climbed, \* the class reached on the way up, and those passed
  inheritedFrom,    \* the class asked for, when its method is an ancestor's
  todo,             \* what is left to do with the answer
  sub,              \* the answer: nodes, edges, truncated
  excluded,         \* functions the dry filter removes
  core              \* the answer of the core filter, for OnlyOrphansGo

context == <<extends, hints, symbol>>
view == <<gateway, mode>>
resolution == <<current, climbed, inheritedFrom>>
queryVars == <<context, view, resolution, todo, sub, excluded, core>>

----------------------------------------------------------------------------
\* What the gateways do with an answer.  The command line applies no filter
\* in core mode; only the MCP server adds unresolved calls.
Filters(who, detail) ==
  (IF inheritedFrom # NoType /\ query.incoming THEN <<"inherited">> ELSE <<>>)
    \o (IF who = "mcp" THEN <<"unresolved">> ELSE <<>>)
    \o CASE detail = "full" -> <<"assemble">>
         [] detail = "core" -> IF who = "mcp" THEN <<"core">> ELSE <<>>
         [] detail = "dry" -> <<"core", "dry", "cascade">>
         [] OTHER -> <<"core", "dry", "cascade", "compact">>

MethodOf(type, name) == {f \in Funcs : Owner[f] = type /\ Name[f] = name}

QInit ==
  /\ calls \in SUBSET Sites /\ dispatches \in SUBSET Overrides
  /\ extends \in SUBSET Parents /\ hints \in SUBSET Hints
  /\ query \in [root : {Nothing}, incoming : BOOLEAN, depth : 1..MaxDepth, strict : {FALSE}]
  /\ symbol \in Symbols
  /\ gateway = Nothing /\ mode = Nothing
  /\ store = Nothing /\ pc = "idle" /\ level = 0
  /\ queue = {} /\ found = {} /\ visited = {} /\ edges = {}
  /\ prefixes = [f \in Funcs |-> {}]
  /\ answers = [s \in Stores |-> Nothing]
  /\ current = symbol.type /\ climbed = {symbol.type} /\ inheritedFrom = NoType
  /\ todo = <<"resolve">>
  /\ sub = [nodes |-> {}, edges |-> {}, truncated |-> {}]
  /\ excluded = {}
  /\ core = sub

Then(act) == todo # <<>> /\ Head(todo) = act

NotTraversing == UNCHANGED <<calls, dispatches, store, pc, level, queue, found, prefixes,
                             visited, edges, answers>>

\* ResolveFunction: the class has the method itself.
Resolve ==
  /\ Then("resolve") /\ climbed = {symbol.type}
  /\ \E f \in MethodOf(symbol.type, symbol.name) :
       query' = [query EXCEPT !.root = f]
  /\ todo' = <<"traverse">>
  /\ NotTraversing
  /\ UNCHANGED <<context, view, resolution, sub, excluded, core>>

\* (for mutants of Climb: down the hierarchy, and without a mark on the
\* classes passed)
ClimbDown ==
  /\ Then("resolve")
  /\ MethodOf(current, symbol.name) = {}
  /\ Cardinality(climbed) <= MaxInheritance
  /\ \E child \in {t \in Types : <<t, current>> \in extends} :
       /\ child \notin climbed
       /\ current' = child
       /\ climbed' = climbed \cup {child}
       /\ \E f \in MethodOf(child, symbol.name) :
            /\ query' = [query EXCEPT !.root = f]
            /\ inheritedFrom' = symbol.type
            /\ todo' = <<"traverse">>
  /\ NotTraversing
  /\ UNCHANGED <<context, view, sub, excluded, core>>

ClimbUnmarked ==
  /\ Then("resolve")
  /\ MethodOf(current, symbol.name) = {}
  /\ \E parent \in {t \in Types : <<current, t>> \in extends} : current' = parent
  /\ NotTraversing
  /\ UNCHANGED <<query, inheritedFrom, climbed, todo, context, view, sub, excluded, core>>

\* One step of ResolveFunctionWithInheritance: up the first EXTENDS edge,
\* whichever the store returns first, to a class not met before.
Climb ==
  /\ Then("resolve")
  /\ MethodOf(current, symbol.name) = {}
  /\ Cardinality(climbed) <= MaxInheritance
  /\ \E parent \in {t \in Types : <<current, t>> \in extends} :
       /\ parent \notin climbed
       /\ current' = parent
       /\ climbed' = climbed \cup {parent}
       /\ \/ \E f \in MethodOf(parent, symbol.name) :
               /\ query' = [query EXCEPT !.root = f]
               /\ inheritedFrom' = symbol.type
               /\ todo' = <<"traverse">>
          \/ /\ MethodOf(parent, symbol.name) = {}
             /\ UNCHANGED <<query, inheritedFrom, todo>>
  /\ NotTraversing
  /\ UNCHANGED <<context, view, sub, excluded, core>>

\* TraverseCallChain, TraverseImpact: the store answers, step by step.
Traverse ==
  /\ Then("traverse")
  /\ Next
  /\ IF \E s \in Stores : answers'[s] # Nothing
     THEN /\ sub' = answers'[store]
          /\ gateway' \in Gateways /\ mode' \in Modes
          /\ todo' = Filters(gateway', mode')
     ELSE UNCHANGED <<view, sub, todo>>
  /\ UNCHANGED <<context, resolution, excluded, core>>

\* The end of the chain, a class met before, or too far up: nothing found.
NotFound ==
  LET parents == {t \in Types : <<current, t>> \in extends}
  IN
  /\ Then("resolve")
  /\ MethodOf(current, symbol.name) = {}
  /\ \/ parents = {}
     \/ parents \cap climbed # {}
     \/ Cardinality(climbed) > MaxInheritance
  /\ todo' = <<>>
  /\ NotTraversing
  /\ UNCHANGED <<query, context, view, resolution, sub, excluded, core>>

----------------------------------------------------------------------------
(* The filters.                                                            *)

\* A filter turns one answer into another and goes on to the next.
Filter(act, result) ==
  /\ Then(act)
  /\ sub' = result
  /\ todo' = Tail(todo)
  /\ NotTraversing
  /\ UNCHANGED <<query, context, view, resolution>>

\* (for a mutant: truncated functions stay named when they are removed)
WithoutListed(removed) ==
  [sub EXCEPT !.nodes = @ \ removed,
              !.edges = {r \in @ : {r.source, r.target} \cap removed = {}}]

\* filterTruncatedNodes: what is removed is not named as truncated.
Without(removed) ==
  [nodes     |-> sub.nodes \ removed,
   edges     |-> {r \in sub.edges : {r.source, r.target} \cap removed = {}},
   truncated |-> sub.truncated \ (removed \cap sub.nodes)]

\* What steps (pairs of functions) lead to from a seed: the least set that
\* holds the seed and is closed under the steps.
From(seed, steps) ==
  {f \in Funcs : \A R \in SUBSET Funcs :
     seed \subseteq R /\ (\A s \in steps : s[1] \in R => s[2] \in R) => f \in R}

\* FilterSubgraphByDeclaredType: the edges into the root whose declared
\* type is the class asked for, and what leads to their sources.
Inherited ==
  LET upper == {r \in sub.edges : r.target # query.root}
      first == {r \in sub.edges \ upper : r.declared = inheritedFrom}
      reached == From({r.source : r \in first}, {<<r.target, r.source>> : r \in upper})
  IN  [nodes     |-> sub.nodes \cap (reached \cup {query.root}),
       edges     |-> first \cup {r \in upper : r.target \in reached},
       truncated |-> sub.truncated \ (sub.nodes \ (reached \cup {query.root}))]

FilterInherited ==
  /\ Filter("inherited", Inherited)
  /\ UNCHANGED <<excluded, core>>

\* QueryCallChainEx: calls that could not be resolved are added, pointing
\* the way they do in the graph, and the functions they name are listed.
\* The code inserts these functions into the map it ranges over: Go may or
\* may not visit them too.
AddUnresolved ==
  LET at == sub.nodes \cup {query.root}
      near(h) == IF query.incoming THEN h[2] ELSE h[1]
      far(h) == IF query.incoming THEN h[1] ELSE h[2]
      leaving(V) == {h \in hints : near(h) \in V}
  IN
  /\ \E V \in {at \cup W : W \in SUBSET {far(h) : h \in hints}} :
       /\ V \subseteq From(at, {<<near(h), far(h)>> : h \in leaving(V)})
       /\ Filter("unresolved",
            [sub EXCEPT !.edges = @ \cup {[source |-> h[1], target |-> h[2], kind |-> "UNRESOLVED_CALL",
                                           declared |-> NoType, chain |-> 0] : h \in leaving(V)},
                        !.nodes = @ \cup ({far(h) : h \in leaving(V)} \ {query.root})])
  /\ UNCHANGED <<excluded, core>>

\* FilterCoreSubgraph
FilterCore ==
  /\ Filter("core", Without(sub.nodes \cap (Accessors \cup Externals)))
  /\ core' = sub'
  /\ UNCHANGED excluded

\* A method reached by a call through the type of an override is replaced
\* by the override, if a dispatch from it to the override is listed.
Replaced ==
  {f \in sub.nodes :
     \E r \in sub.edges :
       /\ r.kind = "CALLS" /\ r.target = f
       /\ r.declared # NoType /\ r.declared # Owner[f]
       /\ \E d \in sub.edges : /\ d.kind = "DISPATCHES" /\ d.source = f
                             /\ d.target \in sub.nodes /\ r.declared \in Within[d.target]}

\* FilterDrySubgraph, up to its loop.
FilterDry ==
  /\ Filter("dry", sub)
  /\ excluded' = (Noise \cap sub.nodes) \cup Replaced
  /\ UNCHANGED core

\* (for a mutant: whatever an excluded function calls goes with it)
CalledByExcluded == {r.target : r \in {e \in sub.edges : e.source \in excluded}} \ excluded

\* Functions that an excluded one calls and nobody else does.
Orphans == {r.target : r \in {e \in sub.edges : e.source \in excluded}}
             \ (excluded \cup {r.target : r \in {e \in sub.edges : e.source \notin excluded}})

\* The loop of FilterDrySubgraph; when it adds nothing, what is excluded is
\* removed, and what no remaining edge names.
Cascade ==
  IF Orphans # {}
  THEN /\ Then("cascade")
       /\ excluded' = excluded \cup Orphans
       /\ NotTraversing
       /\ UNCHANGED <<query, context, view, resolution, todo, sub, core>>
  ELSE LET left == Without(excluded)
           named == UNION {{r.source, r.target} : r \in left.edges}
           loose == IF left.edges = {} THEN {} ELSE left.nodes \ named
       IN  /\ Filter("cascade", [left EXCEPT !.nodes = @ \ loose, !.truncated = @ \ loose])
           /\ UNCHANGED <<excluded, core>>

\* CompactSubgraphEdges: one edge for each source, target and kind, with
\* the properties of the first of them.
Pair(r) == <<r.source, r.target, r.kind>>
FilterCompact ==
  /\ \E one \in SUBSET sub.edges :
       /\ \A r \in sub.edges : \E t \in one : Pair(t) = Pair(r)
       /\ \A r, t \in one : Pair(r) = Pair(t) => r = t
       /\ Filter("compact", [sub EXCEPT !.edges = one])
  /\ UNCHANGED <<excluded, core>>

\* AssembleChainNodes: the calls of one chain become one edge to a node of
\* their own, which takes the place of the functions they call.
Assemble ==
  LET inChain == {r \in sub.edges : r.chain > 0 /\ r.target \notin (Lambdas \cap sub.nodes)}
      consumed == {r.target : r \in inChain} \cap sub.nodes
      link(r) == [source |-> r.source, target |-> <<"chain", r.chain>>, kind |-> "CALLS",
                  declared |-> NoType, chain |-> 0]
      others == {r \in sub.edges \ inChain : {r.source, r.target} \cap consumed = {}}
  IN
  /\ Filter("assemble",
       IF inChain = {} THEN sub
       ELSE [sub EXCEPT !.nodes = (@ \ consumed) \cup {<<"chain", r.chain>> : r \in inChain},
                        !.edges = others \cup {link(r) : r \in inChain}])
  /\ UNCHANGED <<excluded, core>>

QNext ==
  \/ Resolve \/ Climb \/ NotFound
  \/ Traverse
  \/ FilterInherited \/ AddUnresolved
  \/ FilterCore \/ FilterDry \/ Cascade \/ FilterCompact
  \/ Assemble

QSpec == QInit /\ [][QNext]_<<vars, queryVars>>

----------------------------------------------------------------------------
Subject == Funcs \cup ChainNode

QTypeOK ==
  /\ query.root \in Funcs \cup {Nothing}
  /\ sub.nodes \subseteq Subject /\ sub.truncated \subseteq Funcs
  /\ \A r \in sub.edges : r.source \in Funcs /\ r.target \in Subject
  /\ current \in climbed /\ climbed \subseteq Types
  /\ inheritedFrom \in Types \cup {NoType}
  /\ excluded \subseteq Funcs

Shown == todo = <<>> /\ query.root # Nothing
Listing == sub.nodes \cup {query.root}

\* What a user is shown hangs together: an edge joins functions that are
\* listed, and a function named as truncated is listed.  (Full mode apart:
\* a chain may begin at a function that another chain has taken in.)
NoDangling ==
  Shown /\ mode # "full" =>
    /\ \A r \in sub.edges : {r.source, r.target} \subseteq Listing
    /\ sub.truncated \subseteq Listing

\* The dry filter removes noise, methods their overrides stand for, and
\* what only these call: whoever a listed function calls is listed, unless
\* it was noise or replaced itself.  (Calls of a root that is excluded
\* itself apart: the cascade does not know the root, which every answer
\* shows, and takes it for an orphan when only noise calls it back.)
OnlyOrphansGo ==
  Shown /\ mode \in {"dry", "compact"} =>
    \A r \in core.edges :
      r.source \in Listing \ excluded /\ r.target \notin Listing =>
        \/ r.target \in Noise
        \/ \E d \in core.edges : d.kind = "DISPATCHES" /\ d.source = r.target

\* A method found on the way up is that of the nearest class which has it,
\* and the classes passed lead to it.
NearestMethod ==
  inheritedFrom # NoType =>
    /\ Owner[query.root] = current /\ Name[query.root] = symbol.name
    /\ \A t \in climbed \ {current} : MethodOf(t, symbol.name) = {}
    /\ \A t \in climbed \ {symbol.type} : \E u \in climbed \ {t} : <<u, t>> \in extends
=============================================================================
