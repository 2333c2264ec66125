--------------------------- MODULE CallTraversal ---------------------------
(***************************************************************************)
(* The traversal of the call graph: who does a function call, and who     *)
(* calls it.  The three graph stores each have an implementation of their *)
(* own: level by level, first the CALLS edges of all functions of the     *)
(* level, then the DISPATCHES edges (an overridden method and an override *)
(* of it) of the functions these calls led to.                            *)
(*                                                                         *)
(* A graph is a set of call sites and a set of overrides.  A user asks    *)
(* one question, and every store that holds the graph answers it.  How a  *)
(* name becomes the function to start from, and what is done with the     *)
(* answer, is in CallQueries.                                             *)
(***************************************************************************)
EXTENDS Integers, FiniteSets

CONSTANTS
  Funcs,        \* functions of the graph
  Types,        \* classes and interfaces
  NoType,       \* a call without a declared receiver type
  Sites,        \* CALLS edges a graph may have
  Overrides,    \* DISPATCHES edges a graph may have
  Within,       \* Within[f]: the types whose name is a prefix of f's qualified name
  Stores,       \* the stores that hold the graph
  MaxDepth,     \* bound on the depth of a question
  Nothing       \* no answer

CallEdge == [from : Funcs, to : Funcs, declared : Types \cup {NoType},
             trusted : BOOLEAN, chain : Nat]
DispatchEdge == [from : Funcs, to : Funcs, trusted : BOOLEAN]

ASSUME TraversalAssumption ==
  /\ Sites \subseteq CallEdge
  /\ Overrides \subseteq DispatchEdge
  /\ Within \in [Funcs -> SUBSET Types]
  /\ NoType \notin Types
  /\ Stores \subseteq {"ladybug", "kuzu", "falkor"}
  /\ MaxDepth \in Nat

Questions == [root : Funcs, incoming : BOOLEAN, depth : 0..MaxDepth, strict : BOOLEAN]

\* What a store reports of an edge: the function it was found from comes
\* first, whichever way the edge points.
Report == [source : Funcs, target : Funcs, kind : {"CALLS", "DISPATCHES"},
           declared : Types \cup {NoType}, chain : Nat]
Answer == [nodes : SUBSET Funcs, edges : SUBSET Report, truncated : SUBSET Funcs]

\* Nothing is told apart from every answer and every store.
ASSUME NothingAssumption == Nothing \notin Answer /\ Nothing \notin Stores

VARIABLES
  calls, dispatches,   \* the graph
  query,               \* the question
  store,               \* the store that answers
  pc,                  \* "idle", "calls", "dispatches"
  level, queue,        \* the level and the functions to expand on it
  found,               \* nextQueue after the CALLS step: new on this level
  prefixes,            \* declaredTypePrefixes of this level
  visited, edges,      \* what has been found
  answers              \* answers[s]: what store s answered

graph == <<calls, dispatches, query>>
vars == <<calls, dispatches, query, store, pc, level, queue, found, prefixes,
          visited, edges, answers>>

----------------------------------------------------------------------------
\* An edge as the query of the direction returns it: (anchor, neighbour).
Anchor(e) == IF query.incoming THEN e.to ELSE e.from
Neighbour(e) == IF query.incoming THEN e.from ELSE e.to

\* confidence IS NULL OR confidence >= minConfidence
Accepted(e) == query.strict => e.trusted

EdgesAt(set, S) == {e \in set : Anchor(e) \in S}
Ends(set) == {Neighbour(e) : e \in set}

Reported(e, kind) ==
  [source |-> Anchor(e), target |-> Neighbour(e), kind |-> kind,
   declared |-> IF kind = "CALLS" THEN e.declared ELSE NoType,
   chain |-> IF kind = "CALLS" THEN e.chain ELSE 0]

\* Subgraph.Nodes never holds the root.
Nodes == visited \ {query.root}

\* The CALLS edges of the level, and the declared types recorded under f when
\* key gives each of these edges the function it is recorded under.
Level == {e \in EdgesAt(calls, queue) : Accepted(e)}

Recorded(key, f) == {e.declared : e \in {r \in Level : key[r] = f}} \ {NoType}

\* A dispatch whose origin was called with declared types is kept when one
\* of these is the type of the origin (known of listed functions) or of the
\* function it leads to.
Keeps(d, origin) ==
  LET types == prefixes[origin]
      known == IF origin \in Nodes THEN Within[origin] ELSE {}
  IN  \/ types = {}
      \/ types \cap known # {}
      \/ types \cap Within[Neighbour(d)] # {}

----------------------------------------------------------------------------
\* Where the stores differ.  Ladybug filters both kinds of edges by
\* confidence and keys the declared types by the function called ...
Ladybug ==
  [prefixes   |-> [f \in Funcs |-> Recorded([e \in Level |-> Neighbour(e)], f)],
   dispatches |-> {d \in EdgesAt(dispatches, found) : Accepted(d) /\ Keeps(d, Anchor(d))},
   truncated  |-> {f \in queue \cap Nodes :
                     \E e \in EdgesAt(calls \cup dispatches, {f}) :
                        Accepted(e) /\ Neighbour(e) \notin visited}]

\* (for a mutant: only dispatches make a function a truncated one)
CountsDispatches ==
  [Ladybug EXCEPT !.truncated =
     {f \in queue \cap Nodes : \E e \in EdgesAt(dispatches, {f}) : Neighbour(e) \notin visited}]

\* ... Kuzu does what Ladybug does ...
Kuzu ==
  [prefixes   |-> Ladybug.prefixes,
   dispatches |-> Ladybug.dispatches,
   truncated  |-> Ladybug.truncated]

\* ... and FalkorDB filters CALLS edges only, keys the declared types of an
\* incoming call by the function it was found from and looks them up by the
\* function a dispatch leads to, and counts whatever was not visited, the
\* root included.
\* (for a mutant: the declared types are kept under the caller)
KeyedByCaller(e) == Anchor(e)
FalkorKey(e) == IF query.incoming THEN Anchor(e) ELSE Neighbour(e)

FalkorOrigin(d) == IF query.incoming THEN Neighbour(d) ELSE Anchor(d)

Falkor ==
  [prefixes   |-> [f \in Funcs |-> Recorded([e \in Level |-> FalkorKey(e)], f)],
   dispatches |-> {d \in EdgesAt(dispatches, found) : Keeps(d, FalkorOrigin(d))},
   truncated  |-> {f \in queue : Ends(EdgesAt(calls \cup dispatches, {f})) \ visited # {}}]

Traversal(s) == CASE s = "ladybug" -> Ladybug [] s = "kuzu" -> Kuzu [] OTHER -> Falkor

----------------------------------------------------------------------------
Init ==
  /\ calls \in SUBSET Sites
  /\ dispatches \in SUBSET Overrides
  /\ query \in Questions
  /\ store = Nothing
  /\ pc = "idle"
  /\ level = 0
  /\ queue = {} /\ found = {} /\ visited = {} /\ edges = {}
  /\ prefixes = [f \in Funcs |-> {}]
  /\ answers = [s \in Stores |-> Nothing]

\* TraverseCallChain is called.
Ask(s) ==
  /\ pc = "idle" /\ answers[s] = Nothing
  /\ store' = s
  /\ pc' = "calls"
  /\ level' = 0
  /\ queue' = {query.root}
  /\ visited' = {query.root}
  /\ edges' = {} /\ found' = {}
  /\ prefixes' = [f \in Funcs |-> {}]
  /\ UNCHANGED <<graph, answers>>

\* (for mutants of ExpandCalls: one level too many, and no edges but those
\* that lead to new functions)
ExpandOneMore ==
  /\ pc = "calls" /\ level <= query.depth /\ queue # {}
  /\ LET rows == {e \in EdgesAt(calls, queue) : Accepted(e)}
     IN  /\ edges' = edges \cup {Reported(e, "CALLS") : e \in rows}
         /\ found' = Ends(rows) \ visited
         /\ visited' = visited \cup Ends(rows)
  /\ prefixes' = Traversal(store).prefixes
  /\ pc' = "dispatches"
  /\ UNCHANGED <<graph, store, level, queue, answers>>

ExpandNewOnly ==
  LET rows == {e \in EdgesAt(calls, queue) : Accepted(e) /\ Neighbour(e) \notin visited}
  IN
  /\ pc = "calls" /\ level < query.depth /\ queue # {}
  /\ edges' = edges \cup {Reported(e, "CALLS") : e \in rows}
  /\ found' = Ends(rows)
  /\ visited' = visited \cup Ends(rows)
  /\ prefixes' = Traversal(store).prefixes
  /\ pc' = "dispatches"
  /\ UNCHANGED <<graph, store, level, queue, answers>>

\* Step 1 of a level: the accepted CALLS edges of every function of the
\* queue are reported, and what they lead to is visited.
ExpandCalls ==
  LET rows == {e \in EdgesAt(calls, queue) : Accepted(e)}
  IN
  /\ pc = "calls" /\ level < query.depth /\ queue # {}
  /\ edges' = edges \cup {Reported(e, "CALLS") : e \in rows}
  /\ found' = Ends(rows) \ visited
  /\ visited' = visited \cup Ends(rows)
  /\ prefixes' = Traversal(store).prefixes
  /\ pc' = "dispatches"
  /\ UNCHANGED <<graph, store, level, queue, answers>>

\* Step 2: the DISPATCHES edges of the functions found by step 1, less
\* those the declared types rule out.  What they lead to is on the level too.
ExpandDispatches ==
  LET rows == Traversal(store).dispatches
  IN
  /\ pc = "dispatches"
  /\ edges' = edges \cup {Reported(d, "DISPATCHES") : d \in rows}
  /\ visited' = visited \cup Ends(rows)
  /\ queue' = found \cup (Ends(rows) \ visited)
  /\ found' = {}
  /\ level' = level + 1
  /\ pc' = "calls"
  /\ UNCHANGED <<graph, store, prefixes, answers>>

\* Nothing left to expand, or the depth is reached: functions of the last
\* level that lead on are named as truncated.
Finish ==
  /\ pc = "calls" /\ ~(level < query.depth /\ queue # {})
  /\ answers' = [answers EXCEPT ![store] =
                   [nodes |-> Nodes, edges |-> edges, truncated |-> Traversal(store).truncated]]
  /\ pc' = "idle"
  /\ UNCHANGED <<graph, store, level, queue, found, prefixes, visited, edges>>

Next ==
  \/ \E s \in Stores : Ask(s)
  \/ ExpandCalls
  \/ ExpandDispatches
  \/ Finish

Spec == Init /\ [][Next]_vars

----------------------------------------------------------------------------
TypeOK ==
  /\ calls \subseteq Sites /\ dispatches \subseteq Overrides
  /\ query \in Questions
  /\ store \in Stores \cup {Nothing}
  /\ pc \in {"idle", "calls", "dispatches"}
  /\ level \in 0..query.depth
  /\ queue \subseteq visited /\ found \subseteq visited /\ visited \subseteq Funcs
  /\ prefixes \in [Funcs -> SUBSET Types]
  /\ edges \subseteq Report
  /\ answers \in [Stores -> Answer \cup {Nothing}]

Answered == {s \in Stores : answers[s] # Nothing}
Listed(s) == answers[s].nodes \cup {query.root}

CallHop(f, g) == \E e \in calls : Accepted(e) /\ Anchor(e) = f /\ Neighbour(e) = g
DispatchHop(f, g) == \E d \in dispatches : Anchor(d) = f /\ Neighbour(d) = g

\* One level: a call, or a call and the override it may be dispatched to.
LevelHop(f, g) ==
  \/ CallHop(f, g)
  \/ \E h \in Funcs : CallHop(f, h) /\ DispatchHop(h, g)

CallPath(p, k) == p[0] = query.root /\ \A i \in 0..(k - 1) : CallHop(p[i], p[i + 1])
LevelPath(p, k) == p[0] = query.root /\ \A i \in 0..(k - 1) : LevelHop(p[i], p[i + 1])

\* An answer lists only functions that calls lead to within the depth, and
\* only edges of the graph, between functions it lists.
AnswersAreReal ==
  \A s \in Answered :
    /\ \A f \in answers[s].nodes :
         \E k \in 0..query.depth : \E p \in [0..k -> Funcs] : LevelPath(p, k) /\ p[k] = f
    /\ answers[s].edges \subseteq
         {Reported(e, "CALLS") : e \in {c \in calls : Accepted(c)}}
           \cup {Reported(d, "DISPATCHES") : d \in dispatches}
    /\ \A r \in answers[s].edges : {r.source, r.target} \subseteq Listed(s)

\* An answer lists every function that accepted calls alone lead to within
\* the depth, whatever overrides were found before it, and every call on
\* the way.
CallsAreComplete ==
  \A s \in Answered : \A k \in 0..query.depth : \A p \in [0..k -> Funcs] :
    CallPath(p, k) =>
      /\ p[k] \in Listed(s)
      /\ k < query.depth =>
           \A e \in EdgesAt(calls, {p[k]}) : Accepted(e) => Reported(e, "CALLS") \in answers[s].edges

\* An answer that names no truncated function has come to an end: no call
\* of a listed function leads to one that is not listed.
TruncationIsTold ==
  \A s \in Answered :
    query.depth > 0 /\ answers[s].truncated = {} =>
      \A f \in Listed(s), g \in Funcs : CallHop(f, g) => g \in Listed(s)

\* Asked for callees without a threshold, the stores answer alike.
StoresAgree ==
  ~query.incoming /\ ~query.strict /\ query.depth > 0 =>
    \A s, t \in Answered : answers[s] = answers[t]

\* storage/falkor/store_test.go:228: "Reverse traversal from ImplMethod should
\* reach caller via DISPATCHES": whoever calls the method that the root
\* overrides is affected by a change of the root.  Does not hold: the
\* DISPATCHES step starts from the functions that calls led to, never from
\* the root.
OverriddenCallersListed ==
  query.incoming /\ ~query.strict /\ query.depth = MaxDepth =>
    \A s \in Answered : \A d \in dispatches, e \in calls :
      d.to = query.root /\ e.to = d.from /\ e.declared = NoType => e.from \in Listed(s)

=============================================================================
