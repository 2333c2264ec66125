------------------------- MODULE CallQueriesProofs -------------------------
(***************************************************************************)
(* Proofs about CallQueries, for every graph, class hierarchy, question,  *)
(* store and mode: a method found on the way up is the nearest one, what  *)
(* is shown hangs together, and the dry filter takes only noise, what is  *)
(* replaced, and what only these call.                                     *)
(***************************************************************************)
EXTENDS CallQueries, CallTraversalProofs, SequenceTheorems

----------------------------------------------------------------------------
(* The course of a question: a name is resolved, the store traverses, and  *)
(* the filters of the mode run.                                            *)

\* The filters of a mode.
Acts(m) ==
  {"inherited", "unresolved", "core", "dry", "cascade", "compact"}
    \cup (IF m = "full" THEN {"assemble"} ELSE {})

\* The store has not been asked.
Asking ==
  /\ calls \subseteq Sites /\ dispatches \subseteq Overrides
  /\ query \in [root : {Nothing}, incoming : BOOLEAN, depth : 1..MaxDepth, strict : {FALSE}]
  /\ store = Nothing /\ pc = "idle" /\ level = 0
  /\ queue = {} /\ found = {} /\ visited = {} /\ edges = {}
  /\ prefixes = [f \in Funcs |-> {}]
  /\ answers = [s \in Stores |-> Nothing]

Traversing == SoundInv /\ \A s \in Stores : answers[s] = Nothing

PhaseInv ==
  \/ todo = <<"resolve">> /\ Asking
  \/ todo = <<"traverse">> /\ Traversing
  \/ todo \in Seq(Acts(mode))

LEMMA FilterActs ==
  ASSUME NEW who, NEW detail
  PROVE  Filters(who, detail) \in Seq(Acts(detail))
<1> DEFINE A == Acts(detail)
           asked == CASE detail = "full" -> <<"assemble">>
                      [] detail = "core" -> IF who = "mcp" THEN <<"core">> ELSE <<>>
                      [] detail = "dry" -> <<"core", "dry", "cascade">>
                      [] OTHER -> <<"core", "dry", "cascade", "compact">>
           first == IF inheritedFrom # NoType /\ query.incoming THEN <<"inherited">> ELSE <<>>
           second == IF who = "mcp" THEN <<"unresolved">> ELSE <<>>
<1>1. /\ <<>> \in Seq(A) /\ <<"inherited">> \in Seq(A) /\ <<"unresolved">> \in Seq(A)
      /\ <<"core">> \in Seq(A) /\ <<"core", "dry", "cascade">> \in Seq(A)
      /\ <<"core", "dry", "cascade", "compact">> \in Seq(A)
      /\ detail = "full" => <<"assemble">> \in Seq(A)
  BY DEF Acts
<1>2. \A s, t \in Seq(A) : s \o t \in Seq(A)
  OBVIOUS
<1>3. asked \in Seq(A) /\ first \in Seq(A) /\ second \in Seq(A)
  BY <1>1
<1>4. Filters(who, detail) = (first \o second) \o asked
  BY DEF Filters
<1> HIDE DEF A, asked, first, second
<1> QED BY <1>2, <1>3, <1>4 DEF A

\* No filter is a resolution or a traversal.
LEMMA FiltersOnly ==
  ASSUME NEW m, NEW t \in Seq(Acts(m))
  PROVE  /\ t # <<"resolve">> /\ t # <<"traverse">>
         /\ t # <<>> => Head(t) \in Acts(m) /\ Tail(t) \in Seq(Acts(m))
<1>1. t # <<>> => Head(t) \in Acts(m) /\ Tail(t) \in Seq(Acts(m))
  BY HeadTailProperties
<1>2. Head(<<"resolve">>) \notin Acts(m) /\ Head(<<"traverse">>) \notin Acts(m)
  BY DEF Acts
<1> QED BY <1>1, <1>2

LEMMA Phases ==
  ASSUME PhaseInv
  PROVE  /\ Then("resolve") => todo = <<"resolve">> /\ Asking
         /\ Then("traverse") => todo = <<"traverse">> /\ Traversing
         /\ \A act : Then(act) /\ act \notin {"resolve", "traverse"} =>
              todo \in Seq(Acts(mode)) /\ act \in Acts(mode) /\ Tail(todo) \in Seq(Acts(mode))
         /\ todo = <<>> => todo \in Seq(Acts(mode))
<1>1. CASE todo = <<"resolve">> /\ Asking
  BY <1>1 DEF Then
<1>2. CASE todo = <<"traverse">> /\ Traversing
  BY <1>2 DEF Then
<1>3. CASE todo \in Seq(Acts(mode))
  <2>1. ~Then("resolve") /\ ~Then("traverse")
    BY <1>3, FiltersOnly DEF Then, Acts
  <2> QED BY <1>3, <2>1, FiltersOnly DEF Then
<1> QED BY <1>1, <1>2, <1>3 DEF PhaseInv

\* The root is known: the store can be asked.
LEMMA RootKnown ==
  ASSUME Asking, NEW f \in Funcs, query' = [query EXCEPT !.root = f], NotTraversing
  PROVE  Traversing'
<1>1. /\ calls' = calls /\ dispatches' = dispatches /\ store' = Nothing /\ pc' = "idle"
      /\ level' = 0 /\ queue' = {} /\ found' = {} /\ visited' = {} /\ edges' = {}
      /\ prefixes' = [g \in Funcs |-> {}] /\ answers' = [s \in Stores |-> Nothing]
      /\ calls \subseteq Sites /\ dispatches \subseteq Overrides
  BY DEF Asking, NotTraversing
<1>2. query' \in Questions /\ query'.depth \in Nat
  <2>1. query.incoming \in BOOLEAN /\ query.depth \in 1..MaxDepth /\ query.strict \in BOOLEAN
    BY DEF Asking
  <2>2. query' = [root |-> f, incoming |-> query.incoming, depth |-> query.depth,
                  strict |-> query.strict]
    BY DEF Asking
  <2>3. MaxDepth \in Nat
    BY TraversalAssumption
  <2>4. query.depth \in 0..MaxDepth
    BY <2>1, <2>3
  <2>5. query' \in Questions
    BY <2>1, <2>2, <2>4, Zenon DEF Questions
  <2> QED BY <2>2, <2>3, <2>4, <2>5
<1>3. Types1'
  BY <1>1, <1>2 DEF Types1, TypeOK
<1>4. Found1' /\ AnswersAreReal'
  BY <1>1, NothingAssumption DEF Found1, AnswersAreReal, Answered
<1> QED BY <1>1, <1>3, <1>4 DEF Traversing, SoundInv

\* The first answer is the one the store has just finished.
LEMMA FirstAnswer ==
  ASSUME Traversing, Next, NEW s \in Stores, answers'[s] # Nothing
  PROVE  /\ Finish /\ store \in Stores
         /\ answers'[store] = [nodes |-> Nodes, edges |-> edges,
                               truncated |-> Traversal(store).truncated]
<1>1. answers' # answers
  BY DEF Traversing
<1>2. Finish
  BY <1>1 DEF Next, Ask, ExpandCalls, ExpandDispatches
<1>3. store \in Stores /\ answers \in [Stores -> Answer \cup {Nothing}]
  BY <1>2 DEF Finish, Traversing, SoundInv, Types1, TypeOK
<1> QED BY <1>2, <1>3 DEF Finish

LEMMA PhaseInit == QInit => PhaseInv
BY DEF QInit, PhaseInv, Asking

LEMMA FilterPhase ==
  ASSUME PhaseInv, NEW act, NEW result, Filter(act, result), act \notin {"resolve", "traverse"}
  PROVE  PhaseInv'
<1>1. todo' = Tail(todo) /\ mode' = mode /\ Then(act)
  BY DEF Filter, view
<1> QED BY <1>1, Phases DEF PhaseInv

LEMMA PhaseStep == PhaseInv /\ [QNext]_<<vars, queryVars>> => PhaseInv'
<1> SUFFICES ASSUME PhaseInv, [QNext]_<<vars, queryVars>> PROVE PhaseInv'
  OBVIOUS
<1>1. CASE Resolve
  <2>1. Asking /\ NotTraversing /\ todo' = <<"traverse">>
    BY <1>1, Phases DEF Resolve
  <2>2. PICK f \in MethodOf(symbol.type, symbol.name) : query' = [query EXCEPT !.root = f]
    BY <1>1 DEF Resolve
  <2> QED BY <2>1, <2>2, RootKnown DEF PhaseInv, MethodOf
<1>2. CASE Climb
  <2>1. Asking /\ NotTraversing /\ todo = <<"resolve">>
    BY <1>2, Phases DEF Climb
  <2>2. \/ \E f \in Funcs : query' = [query EXCEPT !.root = f] /\ todo' = <<"traverse">>
        \/ UNCHANGED <<query, todo>>
    BY <1>2 DEF Climb, MethodOf
  <2>3. CASE \E f \in Funcs : query' = [query EXCEPT !.root = f] /\ todo' = <<"traverse">>
    BY <2>1, <2>3, RootKnown DEF PhaseInv
  <2>4. CASE UNCHANGED <<query, todo>>
    BY <2>1, <2>4 DEF PhaseInv, Asking, NotTraversing
  <2> QED BY <2>2, <2>3, <2>4
<1>3. CASE NotFound
  BY <1>3 DEF NotFound, PhaseInv
<1>4. CASE Traverse
  <2>1. Traversing /\ Next /\ todo = <<"traverse">>
    BY <1>4, Phases DEF Traverse
  <2>2. CASE \E s \in Stores : answers'[s] # Nothing
    <3>1. todo' = Filters(gateway', mode')
      BY <1>4, <2>2 DEF Traverse
    <3>2. inheritedFrom' = inheritedFrom
      BY <1>4 DEF Traverse, resolution
    <3> QED BY <3>1, FilterActs DEF PhaseInv
  <2>3. CASE ~ \E s \in Stores : answers'[s] # Nothing
    <3>1. todo' = todo
      BY <1>4, <2>3 DEF Traverse
    <3>2. SoundInv'
      BY <2>1, NextTypes, NextSound DEF Traversing, SoundInv
    <3> QED BY <2>1, <2>3, <3>1, <3>2 DEF PhaseInv, Traversing
  <2> QED BY <2>2, <2>3
<1>5. CASE FilterInherited
  BY <1>5, FilterPhase DEF FilterInherited
<1>6. CASE AddUnresolved
  <2>1. \E result : Filter("unresolved", result)
    BY <1>6 DEF AddUnresolved
  <2> QED BY <2>1, FilterPhase
<1>7. CASE FilterCore
  BY <1>7, FilterPhase DEF FilterCore
<1>8. CASE FilterDry
  BY <1>8, FilterPhase DEF FilterDry
<1>9. CASE Cascade
  <2>1. CASE Orphans # {}
    <3>1. Then("cascade") /\ UNCHANGED <<todo, mode>>
      BY <1>9, <2>1 DEF Cascade, view
    <3> QED BY <3>1, Phases DEF PhaseInv
  <2>2. CASE Orphans = {}
    <3>1. \E result : Filter("cascade", result)
      BY <1>9, <2>2 DEF Cascade
    <3> QED BY <3>1, FilterPhase
  <2> QED BY <2>1, <2>2
<1>10. CASE FilterCompact
  BY <1>10, FilterPhase DEF FilterCompact
<1>11. CASE Assemble
  <2>1. \E result : Filter("assemble", result)
    BY <1>11 DEF Assemble
  <2> QED BY <2>1, FilterPhase
<1>12. CASE UNCHANGED <<vars, queryVars>>
  <2>1. UNCHANGED <<todo, mode>> /\ UNCHANGED vars
    BY <1>12 DEF queryVars, view
  <2>2. Asking' <=> Asking
    BY <2>1 DEF vars, Asking
  <2>3. Traversing => Traversing'
    BY <2>1, NextTypes, NextSound DEF Traversing, SoundInv, vars
  <2> QED BY <2>1, <2>2, <2>3 DEF PhaseInv
<1> QED BY <1>1, <1>2, <1>3, <1>4, <1>5, <1>6, <1>7, <1>8, <1>9, <1>10, <1>11,
           <1>12 DEF QNext

----------------------------------------------------------------------------
(* The nearest method.                                                     *)

\* The way up: the classes passed lack the method, and an EXTENDS edge led
\* to each of them from another one.
ClimbInv ==
  /\ current \in climbed /\ symbol.type \in climbed
  /\ \A t \in climbed \ {current} : MethodOf(t, symbol.name) = {}
  /\ \A t \in climbed \ {symbol.type} : \E u \in climbed \ {t} : <<u, t>> \in extends
  /\ todo = <<"resolve">> => inheritedFrom = NoType
  /\ inheritedFrom # NoType => query.root \in MethodOf(current, symbol.name)

LEMMA ClimbInit == QInit => ClimbInv
BY DEF QInit, ClimbInv

\* Once the root is known, neither it nor the classes passed change.
LEMMA ClimbKept ==
  ASSUME ClimbInv, UNCHANGED <<query, context, resolution>>,
         todo' = <<"resolve">> => todo = <<"resolve">>
  PROVE  ClimbInv'
BY DEF ClimbInv, context, resolution, MethodOf

LEMMA ClimbStep == PhaseInv /\ ClimbInv /\ [QNext]_<<vars, queryVars>> => ClimbInv'
<1> SUFFICES ASSUME PhaseInv, ClimbInv, [QNext]_<<vars, queryVars>> PROVE ClimbInv'
  OBVIOUS
<1>a. ASSUME UNCHANGED <<query, context, resolution>>, todo' \in Seq(Acts(mode')) \/ UNCHANGED todo
      PROVE  ClimbInv'
  BY <1>a, ClimbKept, FiltersOnly
<1>b. ASSUME NEW act, NEW result, Filter(act, result), act \notin {"resolve", "traverse"}
      PROVE  ClimbInv'
  <2>1. UNCHANGED <<query, context, resolution>> /\ todo' = Tail(todo) /\ mode' = mode /\ Then(act)
    BY <1>b DEF Filter, view
  <2> QED BY <1>a, <1>b, <2>1, Phases
<1>1. CASE Resolve
  <2>1. todo' = <<"traverse">> /\ UNCHANGED <<context, resolution>> /\ inheritedFrom = NoType
    BY <1>1, Phases DEF Resolve, ClimbInv
  <2>2. <<"traverse">> # <<"resolve">>
    OBVIOUS
  <2> QED BY <2>1, <2>2 DEF ClimbInv, context, resolution, MethodOf
<1>2. CASE Climb
  <2>1. PICK parent : /\ <<current, parent>> \in extends /\ parent \notin climbed
                      /\ current' = parent /\ climbed' = climbed \cup {parent}
                      /\ \/ \E f \in MethodOf(parent, symbol.name) :
                              /\ query' = [query EXCEPT !.root = f] /\ inheritedFrom' = symbol.type
                              /\ todo' = <<"traverse">>
                         \/ UNCHANGED <<query, inheritedFrom, todo>>
    BY <1>2 DEF Climb
  <2>2. /\ MethodOf(current, symbol.name) = {} /\ UNCHANGED <<symbol, extends>>
        /\ Asking /\ inheritedFrom = NoType /\ todo = <<"resolve">>
    BY <1>2, Phases DEF Climb, context, ClimbInv
  <2>3. \A t, n : MethodOf(t, n)' = MethodOf(t, n)
    BY DEF MethodOf
  <2>4. /\ current' \in climbed' /\ symbol'.type \in climbed'
        /\ \A t \in climbed' \ {current'} : MethodOf(t, symbol.name) = {}
    BY <2>1, <2>2 DEF ClimbInv
  <2>5. \A t \in climbed' \ {symbol.type} : \E u \in climbed' \ {t} : <<u, t>> \in extends
    <3> SUFFICES ASSUME NEW t \in climbed' \ {symbol.type}
                 PROVE  \E u \in climbed' \ {t} : <<u, t>> \in extends
      OBVIOUS
    <3>1. CASE t = parent
      BY <2>1, <3>1 DEF ClimbInv
    <3>2. CASE t \in climbed
      BY <2>1, <3>2 DEF ClimbInv
    <3> QED BY <2>1, <3>1, <3>2
  <2>6. /\ todo' = <<"resolve">> => inheritedFrom' = NoType
        /\ inheritedFrom' # NoType => query'.root \in MethodOf(current', symbol.name)
    <3>1. CASE UNCHANGED <<query, inheritedFrom, todo>>
      BY <2>2, <3>1
    <3>2. ASSUME NEW f \in MethodOf(parent, symbol.name), query' = [query EXCEPT !.root = f],
                 todo' = <<"traverse">>
          PROVE  query'.root = f /\ todo' # <<"resolve">>
      <4>1. query'.root = f
        BY <2>2, <3>2 DEF Asking
      <4> QED BY <3>2, <4>1
    <3> QED BY <2>1, <3>1, <3>2
  <2> QED BY <2>2, <2>3, <2>4, <2>5, <2>6 DEF ClimbInv
<1>3. CASE NotFound
  <2>1. UNCHANGED <<query, context, resolution>> /\ todo' = <<>>
    BY <1>3 DEF NotFound
  <2> QED BY <1>a, <2>1
<1>4. CASE Traverse
  <2>1. Next /\ UNCHANGED <<context, resolution>> /\ (todo' = todo \/ todo' = Filters(gateway', mode'))
    BY <1>4 DEF Traverse
  <2>2. query' = query
    BY <2>1, GraphStays DEF graph
  <2>3. Filters(gateway', mode') \in Seq(Acts(mode'))
    BY FilterActs
  <2> QED BY <1>a, <2>1, <2>2, <2>3
<1>5. CASE FilterInherited
  BY <1>5, <1>b DEF FilterInherited
<1>6. CASE AddUnresolved
  <2>1. \E result : Filter("unresolved", result)
    BY <1>6 DEF AddUnresolved
  <2> QED BY <2>1, <1>b
<1>7. CASE FilterCore
  BY <1>7, <1>b DEF FilterCore
<1>8. CASE FilterDry
  BY <1>8, <1>b DEF FilterDry
<1>9. CASE Cascade
  <2>1. CASE Orphans # {}
    BY <1>9, <1>a, <2>1 DEF Cascade
  <2>2. CASE Orphans = {}
    <3>1. \E result : Filter("cascade", result)
      BY <1>9, <2>2 DEF Cascade
    <3> QED BY <3>1, <1>b
  <2> QED BY <2>1, <2>2
<1>10. CASE FilterCompact
  BY <1>10, <1>b DEF FilterCompact
<1>11. CASE Assemble
  <2>1. \E result : Filter("assemble", result)
    BY <1>11 DEF Assemble
  <2> QED BY <2>1, <1>b
<1>12. CASE UNCHANGED <<vars, queryVars>>
  <2>1. UNCHANGED <<query, context, resolution, todo>>
    BY <1>12 DEF vars, queryVars
  <2> QED BY <1>a, <2>1
<1> QED BY <1>1, <1>2, <1>3, <1>4, <1>5, <1>6, <1>7, <1>8, <1>9, <1>10, <1>11,
           <1>12 DEF QNext

\* Whatever the hierarchy, cyclic or with several parents per class, the
\* method shown is the first one on the way up.
THEOREM InheritedIsNearest == QSpec => []NearestMethod
<1>1. QInit => PhaseInv /\ ClimbInv
  BY PhaseInit, ClimbInit
<1>2. PhaseInv /\ ClimbInv /\ [QNext]_<<vars, queryVars>> => PhaseInv' /\ ClimbInv'
  BY PhaseStep, ClimbStep
<1>3. ClimbInv => NearestMethod
  BY DEF ClimbInv, NearestMethod, MethodOf
<1> QED BY <1>1, <1>2, <1>3, PTL DEF QSpec

----------------------------------------------------------------------------
(* What is shown hangs together.                                           *)

\* An answer that names no function it does not list.
Whole(x) ==
  /\ x = [nodes |-> x.nodes, edges |-> x.edges, truncated |-> x.truncated]
  /\ x.nodes \subseteq Funcs
  /\ \A r \in x.edges : r.source \in x.nodes \cup {query.root} /\ r.target \in x.nodes \cup {query.root}
  /\ x.truncated \subseteq x.nodes \cup {query.root}

\* The answer on its way through the filters of every mode but full.
Answered1 == todo \in Seq(Acts(mode)) /\ query.root # Nothing /\ mode # "full"

WholeInv == hints \subseteq Hints /\ (Answered1 => query.root \in Funcs /\ Whole(sub))

\* What steps lead to holds the seed, goes on with every step, and lies in
\* every set that does.
LEMMA FromSeed ==
  ASSUME NEW seed \in SUBSET Funcs, NEW steps
  PROVE  seed \subseteq From(seed, steps)
BY DEF From

LEMMA FromStep ==
  ASSUME NEW seed, NEW steps, NEW s \in steps, s[1] \in From(seed, steps), s[2] \in Funcs
  PROVE  s[2] \in From(seed, steps)
BY DEF From

LEMMA FromLeast ==
  ASSUME NEW seed, NEW steps, NEW R \in SUBSET Funcs, seed \subseteq R,
         \A s \in steps : s[1] \in R => s[2] \in R
  PROVE  From(seed, steps) \subseteq R
BY DEF From

LEMMA Reshaped ==
  ASSUME NEW x, x = [nodes |-> x.nodes, edges |-> x.edges, truncated |-> x.truncated],
         NEW n, NEW e, NEW t
  PROVE  /\ [x EXCEPT !.edges = e, !.nodes = n] = [nodes |-> n, edges |-> e, truncated |-> x.truncated]
         /\ [x EXCEPT !.nodes = n, !.truncated = t] = [nodes |-> n, edges |-> x.edges, truncated |-> t]
<1> DEFINE a == x.nodes
           b == x.edges
           c == x.truncated
<1>1. x = [nodes |-> a, edges |-> b, truncated |-> c]
  OBVIOUS
<1> HIDE DEF a, b, c
<1>2. [x EXCEPT !.edges = e, !.nodes = n] = [nodes |-> n, edges |-> e, truncated |-> c]
  <2>1. [x EXCEPT !.edges = e] = [nodes |-> a, edges |-> e, truncated |-> c]
    BY <1>1
  <2>2. [x EXCEPT !.edges = e, !.nodes = n] = [[x EXCEPT !.edges = e] EXCEPT !.nodes = n]
    OBVIOUS
  <2>3. [[nodes |-> a, edges |-> e, truncated |-> c] EXCEPT !.nodes = n]
          = [nodes |-> n, edges |-> e, truncated |-> c]
    OBVIOUS
  <2> QED BY <2>1, <2>2, <2>3, Zenon
<1>3. [x EXCEPT !.nodes = n, !.truncated = t] = [nodes |-> n, edges |-> b, truncated |-> t]
  <2>1. [x EXCEPT !.nodes = n] = [nodes |-> n, edges |-> b, truncated |-> c]
    BY <1>1
  <2>2. [x EXCEPT !.nodes = n, !.truncated = t] = [[x EXCEPT !.nodes = n] EXCEPT !.truncated = t]
    OBVIOUS
  <2>3. [[nodes |-> n, edges |-> b, truncated |-> c] EXCEPT !.truncated = t]
          = [nodes |-> n, edges |-> b, truncated |-> t]
    OBVIOUS
  <2> QED BY <2>1, <2>2, <2>3, Zenon
<1> QED BY <1>2, <1>3 DEF b, c

LEMMA WithoutIsWhole ==
  ASSUME Whole(sub), NEW removed
  PROVE  Whole(Without(removed))
BY DEF Whole, Without

LEMMA InheritedIsWhole ==
  ASSUME Whole(sub), query.root \in Funcs
  PROVE  Whole(Inherited)
<1> DEFINE upper == {r \in sub.edges : r.target # query.root}
           first == {r \in sub.edges \ upper : r.declared = inheritedFrom}
           steps == {<<r.target, r.source>> : r \in upper}
           reached == From({r.source : r \in first}, steps)
<1>1. Inherited = [nodes     |-> sub.nodes \cap (reached \cup {query.root}),
                   edges     |-> first \cup {r \in upper : r.target \in reached},
                   truncated |-> sub.truncated \ (sub.nodes \ (reached \cup {query.root}))]
  BY DEF Inherited
<1>2. \A r \in sub.edges : r.source \in Funcs /\ r.target \in Funcs
  BY DEF Whole
<1>3. {r.source : r \in first} \subseteq reached
  <2>1. {r.source : r \in first} \in SUBSET Funcs
    BY <1>2
  <2> HIDE DEF first, steps
  <2> QED BY <2>1, FromSeed
<1>4. ASSUME NEW r \in upper, r.target \in reached PROVE r.source \in reached
  <2> DEFINE s == <<r.target, r.source>>
  <2>1. s \in steps /\ s[1] = r.target /\ s[2] = r.source /\ r.source \in Funcs
    BY <1>2
  <2> HIDE DEF s, steps, first
  <2> QED BY <1>4, <2>1, FromStep
<1>5. /\ \A r \in first : r.source \in reached /\ r.target = query.root /\ r \in sub.edges
      /\ \A r \in upper : r.target # query.root /\ r \in sub.edges
  BY <1>3
<1> HIDE DEF upper, first, reached
<1>6. \A r \in sub.edges : r.source \in sub.nodes \cup {query.root} /\ r.target \in sub.nodes \cup {query.root}
  BY DEF Whole
<1>7. sub.nodes \subseteq Funcs /\ sub.truncated \subseteq sub.nodes \cup {query.root}
  BY DEF Whole
<1> QED BY <1>1, <1>4, <1>5, <1>6, <1>7 DEF Whole

LEMMA WholeInit == QInit => WholeInv
<1> SUFFICES ASSUME QInit PROVE WholeInv
  OBVIOUS
<1>1. todo = <<"resolve">> /\ hints \subseteq Hints
  BY DEF QInit
<1> QED BY <1>1, FiltersOnly DEF WholeInv, Answered1

\* A filter that makes of a whole answer a whole one.
LEMMA FilterWhole ==
  ASSUME PhaseInv, WholeInv, NEW act, NEW result, Filter(act, result),
         act \notin {"resolve", "traverse"},
         query.root \in Funcs /\ Whole(sub) /\ mode # "full" => Whole(result)
  PROVE  WholeInv'
<1>1. /\ UNCHANGED <<query, mode, hints>> /\ sub' = result /\ Then(act)
  BY DEF Filter, view, context
<1>2. todo \in Seq(Acts(mode))
  BY <1>1, Phases
<1>3. Answered1' => Answered1
  BY <1>1, <1>2 DEF Answered1
<1>4. Whole(result) => Whole(sub)'
  BY <1>1 DEF Whole
<1> QED BY <1>1, <1>3, <1>4 DEF WholeInv, Answered1

\* What the store answers is whole.
LEMMA FinishedIsWhole ==
  ASSUME Traversing, Finish
  PROVE  Whole([nodes |-> Nodes, edges |-> edges, truncated |-> Traversal(store).truncated])
<1>1. /\ pc # "idle" /\ query.root \in visited /\ visited \subseteq Funcs /\ queue \subseteq visited
      /\ \A r \in edges : {r.source, r.target} \subseteq visited
  BY DEF Finish, Traversing, SoundInv, Types1, TypeOK, Found1
<1>2. Nodes \cup {query.root} = visited /\ Nodes \subseteq Funcs
  BY <1>1 DEF Nodes
<1>3. Traversal(store).truncated \subseteq visited
  BY <1>1, TruncatedAreQueued
<1> QED BY <1>1, <1>2, <1>3 DEF Whole

LEMMA WholeStep ==
  PhaseInv /\ WholeInv /\ [QNext]_<<vars, queryVars>> => WholeInv'
<1> SUFFICES ASSUME PhaseInv, WholeInv, [QNext]_<<vars, queryVars>> PROVE WholeInv'
  OBVIOUS
\* Before the store has answered.
<1>a. ASSUME UNCHANGED hints, todo' \in {<<"resolve">>, <<"traverse">>} PROVE WholeInv'
  BY <1>a, FiltersOnly DEF WholeInv, Answered1
<1>b. ASSUME UNCHANGED <<query, mode, hints, sub, todo>> PROVE WholeInv'
  BY <1>b DEF WholeInv, Answered1, Whole
<1>1. CASE Resolve
  BY <1>1, <1>a DEF Resolve, context
<1>2. CASE Climb
  <2>1. todo = <<"resolve">> /\ UNCHANGED hints /\ (todo' = todo \/ todo' = <<"traverse">>)
    BY <1>2, Phases DEF Climb, context
  <2> QED BY <1>a, <2>1
<1>3. CASE NotFound
  <2>1. query.root = Nothing /\ UNCHANGED <<query, hints>>
    BY <1>3, Phases DEF NotFound, Asking, context
  <2> QED BY <2>1 DEF WholeInv, Answered1
<1>4. CASE Traverse
  <2>1. Traversing /\ Next /\ todo = <<"traverse">> /\ UNCHANGED hints
    BY <1>4, Phases DEF Traverse, context
  <2>2. CASE \E s \in Stores : answers'[s] # Nothing
    <3>1. sub' = answers'[store]
      BY <1>4, <2>2 DEF Traverse
    <3>2. /\ Finish /\ query' = query
          /\ sub' = [nodes |-> Nodes, edges |-> edges, truncated |-> Traversal(store).truncated]
      BY <2>1, <2>2, <3>1, FirstAnswer DEF Finish, graph
    <3>3. Whole(sub')
      BY <2>1, <3>2, FinishedIsWhole
    <3>4. query.root \in Funcs
      BY <2>1 DEF Traversing, SoundInv, Types1, TypeOK, Questions
    <3> QED BY <2>1, <3>2, <3>3, <3>4 DEF WholeInv, Whole
  <2>3. CASE ~ \E s \in Stores : answers'[s] # Nothing
    BY <1>4, <1>a, <2>1, <2>3 DEF Traverse
  <2> QED BY <2>2, <2>3
<1>5. CASE FilterInherited
  BY <1>5, InheritedIsWhole, FilterWhole DEF FilterInherited
<1>6. CASE AddUnresolved
  <2> DEFINE at == sub.nodes \cup {query.root}
             near(h) == IF query.incoming THEN h[2] ELSE h[1]
             far(h) == IF query.incoming THEN h[1] ELSE h[2]
             leaving(V) == {h \in hints : near(h) \in V}
             more(V) == [sub EXCEPT
               !.edges = @ \cup {[source |-> h[1], target |-> h[2], kind |-> "UNRESOLVED_CALL",
                                  declared |-> NoType, chain |-> 0] : h \in leaving(V)},
               !.nodes = @ \cup ({far(h) : h \in leaving(V)} \ {query.root})]
  <2>1. PICK V : /\ V \subseteq From(at, {<<near(h), far(h)>> : h \in leaving(V)})
                 /\ Filter("unresolved", more(V))
    BY <1>6 DEF AddUnresolved
  <2>2. ASSUME query.root \in Funcs, Whole(sub) PROVE Whole(more(V))
    <3>1. \A h \in hints : {h[1], h[2]} \subseteq Funcs /\ {h[1], h[2]} = {near(h), far(h)}
      BY QueriesAssumption DEF WholeInv
    <3> DEFINE R == at \cup {far(h) : h \in leaving(V)}
    <3>2. R \in SUBSET Funcs
      BY <2>2, <3>1 DEF Whole
    <3>3. \A s \in {<<near(h), far(h)>> : h \in leaving(V)} : s[1] \in R => s[2] \in R
      OBVIOUS
    <3>4. V \subseteq R
      <4>1. at \subseteq R
        OBVIOUS
      <4> HIDE DEF at, R, near, far, leaving
      <4>2. From(at, {<<near(h), far(h)>> : h \in leaving(V)}) \subseteq R
        BY <3>2, <3>3, <4>1, FromLeast
      <4> QED BY <2>1, <4>2
    <3>5. \A h \in leaving(V) : {h[1], h[2]} \subseteq R
      BY <3>1, <3>4
    <3>6. /\ more(V).nodes = sub.nodes \cup ({far(h) : h \in leaving(V)} \ {query.root})
          /\ more(V).edges = sub.edges \cup
               {[source |-> h[1], target |-> h[2], kind |-> "UNRESOLVED_CALL",
                 declared |-> NoType, chain |-> 0] : h \in leaving(V)}
          /\ more(V).truncated = sub.truncated
          /\ more(V) = [nodes |-> more(V).nodes, edges |-> more(V).edges,
                        truncated |-> more(V).truncated]
      <4> DEFINE n == sub.nodes \cup ({far(h) : h \in leaving(V)} \ {query.root})
                 e == sub.edges \cup {[source |-> h[1], target |-> h[2], kind |-> "UNRESOLVED_CALL",
                                       declared |-> NoType, chain |-> 0] : h \in leaving(V)}
      <4>1. more(V) = [sub EXCEPT !.edges = e, !.nodes = n]
        OBVIOUS
      <4>2. sub = [nodes |-> sub.nodes, edges |-> sub.edges, truncated |-> sub.truncated]
        BY <2>2 DEF Whole
      <4> HIDE DEF n, e, more
      <4>3. more(V) = [nodes |-> n, edges |-> e, truncated |-> sub.truncated]
        BY <4>1, <4>2, Reshaped
      <4>4. more(V).nodes = n /\ more(V).edges = e /\ more(V).truncated = sub.truncated
        BY <4>3
      <4> QED BY <4>3, <4>4 DEF n, e
    <3>7. more(V).nodes \cup {query.root} = R
      BY <3>6
    <3> HIDE DEF more, R, leaving, at
    <3>8. \A r \in more(V).edges : {r.source, r.target} \subseteq R
      <4>1. \A r \in sub.edges : {r.source, r.target} \subseteq R
        BY <2>2 DEF Whole, R, at
      <4> QED BY <3>5, <3>6, <4>1
    <3>9. sub.truncated \subseteq R
      BY <2>2 DEF Whole, R, at
    <3> QED BY <3>2, <3>6, <3>7, <3>8, <3>9 DEF Whole
  <2> HIDE DEF more
  <2> QED BY <2>1, <2>2, FilterWhole
<1>7. CASE FilterCore
  BY <1>7, WithoutIsWhole, FilterWhole DEF FilterCore
<1>8. CASE FilterDry
  BY <1>8, FilterWhole DEF FilterDry
<1>9. CASE Cascade
  <2>1. CASE Orphans # {}
    BY <1>9, <1>b, <2>1 DEF Cascade, view, context
  <2>2. CASE Orphans = {}
    <3> DEFINE left == Without(excluded)
               named == UNION {{r.source, r.target} : r \in left.edges}
               loose == IF left.edges = {} THEN {} ELSE left.nodes \ named
               rest == [left EXCEPT !.nodes = @ \ loose, !.truncated = @ \ loose]
    <3>1. Filter("cascade", rest)
      BY <1>9, <2>2 DEF Cascade
    <3>2. ASSUME Whole(sub) PROVE Whole(rest)
      <4>1. Whole(left)
        BY <3>2, WithoutIsWhole
      <4>2. \A r \in left.edges : r.source \notin loose /\ r.target \notin loose
        OBVIOUS
      <4> HIDE DEF left, loose
      <4>3. /\ rest.nodes = left.nodes \ loose /\ rest.edges = left.edges
            /\ rest.truncated = left.truncated \ loose
            /\ rest = [nodes |-> rest.nodes, edges |-> rest.edges, truncated |-> rest.truncated]
        <5> DEFINE n == left.nodes \ loose
                   t == left.truncated \ loose
        <5>1. rest = [left EXCEPT !.nodes = n, !.truncated = t]
          OBVIOUS
        <5>2. left = [nodes |-> left.nodes, edges |-> left.edges, truncated |-> left.truncated]
          BY <4>1 DEF Whole
        <5> HIDE DEF n, t, rest
        <5>3. rest = [nodes |-> n, edges |-> left.edges, truncated |-> t]
          BY <5>1, <5>2, Reshaped
        <5>4. rest.nodes = n /\ rest.edges = left.edges /\ rest.truncated = t
          BY <5>3
        <5> QED BY <5>3, <5>4 DEF n, t
      <4> HIDE DEF rest
      <4> QED BY <4>1, <4>2, <4>3 DEF Whole
    <3> HIDE DEF rest
    <3> QED BY <3>1, <3>2, FilterWhole
  <2> QED BY <2>1, <2>2
<1>10. CASE FilterCompact
  <2>1. PICK one \in SUBSET sub.edges : Filter("compact", [sub EXCEPT !.edges = one])
    BY <1>10 DEF FilterCompact
  <2>2. Whole(sub) => Whole([sub EXCEPT !.edges = one])
    BY DEF Whole
  <2> QED BY <2>1, <2>2, FilterWhole
<1>11. CASE Assemble
  <2>1. PICK result : Filter("assemble", result)
    BY <1>11 DEF Assemble
  <2>2. mode = "full"
    BY <2>1, Phases DEF Filter, Acts
  <2> QED BY <2>1, <2>2, FilterWhole
<1>12. CASE UNCHANGED <<vars, queryVars>>
  BY <1>12, <1>b DEF vars, queryVars, view, context
<1> QED BY <1>1, <1>2, <1>3, <1>4, <1>5, <1>6, <1>7, <1>8, <1>9, <1>10, <1>11,
           <1>12 DEF QNext

\* Every filter keeps the answer whole: no mode but full shows an edge or a
\* truncated function without the functions it names.
THEOREM ShownHangsTogether == QSpec => []NoDangling
<1>1. QInit => PhaseInv /\ WholeInv
  BY PhaseInit, WholeInit
<1>2. PhaseInv /\ WholeInv /\ [QNext]_<<vars, queryVars>> => PhaseInv' /\ WholeInv'
  BY PhaseStep, WholeStep
<1>3. PhaseInv /\ WholeInv => NoDangling
  BY Phases DEF WholeInv, Answered1, NoDangling, Shown, Listing, Whole
<1> QED BY <1>1, <1>2, <1>3, PTL DEF QSpec

----------------------------------------------------------------------------
(* What the dry filter removes.                                            *)

\* The order of the filters that end in a dry answer.
Dry == {"dry", "compact"}

Successive ==
  {<<"inherited", "unresolved">>, <<"inherited", "core">>, <<"unresolved", "core">>,
   <<"core", "dry">>, <<"dry", "cascade">>, <<"cascade", "compact">>}

Ordered(t) ==
  \A i \in 1..Len(t) :
    IF i < Len(t) THEN <<t[i], t[i + 1]>> \in Successive ELSE t[i] \in {"cascade", "compact"}

LEMMA OrderedTail ==
  ASSUME NEW S, NEW t \in Seq(S), t # <<>>, Ordered(t)
  PROVE  /\ Ordered(Tail(t))
         /\ Tail(t) # <<>> => <<Head(t), Head(Tail(t))>> \in Successive
         /\ Tail(t) = <<>> => Head(t) \in {"cascade", "compact"}
<1> DEFINE n == Len(t)
           u == Tail(t)
<1>1. /\ n \in Nat \ {0} /\ u \in Seq(S) /\ Len(u) = n - 1 /\ Len(<<>>) = 0 /\ Head(t) = t[1]
      /\ \A i \in 1..Len(u) : u[i] = t[i + 1]
  BY HeadTailProperties, EmptySeq
<1>2. Ordered(u)
  <2> SUFFICES ASSUME NEW i \in 1..Len(u)
               PROVE  IF i < Len(u) THEN <<u[i], u[i + 1]>> \in Successive
                                    ELSE u[i] \in {"cascade", "compact"}
    BY DEF Ordered
  <2>1. i + 1 \in 1..n /\ u[i] = t[i + 1] /\ (i < Len(u) <=> i + 1 < n)
    BY <1>1
  <2>2. i < Len(u) => u[i + 1] = t[(i + 1) + 1]
    BY <1>1
  <2> HIDE DEF u, n
  <2> QED BY <2>1, <2>2 DEF Ordered, n
<1>3. \A v \in Seq(S) : v # <<>> => Len(v) # 0 /\ Head(v) = v[1]
  BY EmptySeq
<1> HIDE DEF u
<1>4. u # <<>> => n > 1 /\ Head(u) = t[2]
  BY <1>1, <1>3
<1>5. u = <<>> => n = 1
  BY <1>1
<1>6. /\ n > 1 => <<t[1], t[2]>> \in Successive
      /\ n = 1 => t[1] \in {"cascade", "compact"}
  <2>1. 1 \in 1..n
    BY <1>1
  <2> QED BY <2>1 DEF Ordered
<1> HIDE DEF n
<1> QED BY <1>1, <1>2, <1>4, <1>5, <1>6 DEF u

LEMMA OrderedCons ==
  ASSUME NEW S, NEW a \in S, NEW u \in Seq(S), u # <<>>, Ordered(u), <<a, Head(u)>> \in Successive
  PROVE  /\ Ordered(<<a>> \o u) /\ Head(<<a>> \o u) = a
         /\ <<a>> \o u # <<>> /\ <<a>> \o u \in Seq(S)
<1> DEFINE t == <<a>> \o u
           n == Len(u)
<1>1. /\ n \in Nat \ {0} /\ Head(u) = u[1] /\ t \in Seq(S) /\ Len(t) = n + 1 /\ t[1] = a
      /\ \A i \in 1..n : t[i + 1] = u[i]
  BY EmptySeq
<1>2. Head(t) = t[1] /\ t # <<>>
  BY <1>1
<1> HIDE DEF t
<1>3. Ordered(t)
  <2> SUFFICES ASSUME NEW i \in 1..(n + 1)
               PROVE  IF i < n + 1 THEN <<t[i], t[i + 1]>> \in Successive
                                   ELSE t[i] \in {"cascade", "compact"}
    BY <1>1 DEF Ordered
  <2>1. CASE i = 1
    <3>1. 1 \in 1..n /\ t[1 + 1] = u[1] /\ 1 < n + 1
      BY <1>1
    <3> QED BY <1>1, <2>1, <3>1
  <2>2. CASE i # 1
    <3>1. i - 1 \in 1..n /\ t[i] = u[i - 1] /\ (i < n + 1 <=> i - 1 < n)
      <4>1. i - 1 \in 1..n /\ (i - 1) + 1 = i
        BY <1>1, <2>2
      <4> QED BY <1>1, <4>1
    <3>2. i < n + 1 => t[i + 1] = u[(i - 1) + 1]
      BY <1>1, <3>1
    <3> QED BY <3>1, <3>2 DEF Ordered
  <2> QED BY <2>1, <2>2
<1> QED BY <1>1, <1>2, <1>3 DEF t

LEMMA DryOrdered ==
  ASSUME NEW who, NEW detail \in Dry
  PROVE  /\ Ordered(Filters(who, detail)) /\ Filters(who, detail) # <<>>
         /\ Head(Filters(who, detail)) \in {"inherited", "unresolved", "core"}
<1> DEFINE asked == IF detail = "dry" THEN <<"core", "dry", "cascade">>
                                      ELSE <<"core", "dry", "cascade", "compact">>
           first == IF inheritedFrom # NoType /\ query.incoming THEN <<"inherited">> ELSE <<>>
           second == IF who = "mcp" THEN <<"unresolved">> ELSE <<>>
           later == second \o asked
           S == Acts(detail)
<1>0. /\ <<"core", "dry", "cascade">> \in Seq(S) /\ <<"core", "dry", "cascade", "compact">> \in Seq(S)
      /\ <<>> \in Seq(S) /\ <<"inherited">> \in Seq(S) /\ <<"unresolved">> \in Seq(S)
      /\ "inherited" \in S /\ "unresolved" \in S
  BY DEF Acts
<1>1. Filters(who, detail) = first \o later
  <2>1. asked \in Seq(S) /\ first \in Seq(S) /\ second \in Seq(S)
    BY <1>0
  <2>2. Filters(who, detail) = (first \o second) \o asked
    BY DEF Filters, Dry
  <2> HIDE DEF asked, first, second, S
  <2> QED BY <2>1, <2>2, ConcatAssociative
<1>2. asked \in Seq(S) /\ Ordered(asked) /\ asked # <<>> /\ Head(asked) = "core"
  <2>1. Ordered(<<"core", "dry", "cascade">>)
    BY DEF Ordered, Successive
  <2>2. Ordered(<<"core", "dry", "cascade", "compact">>)
    BY DEF Ordered, Successive
  <2>3. /\ Head(<<"core", "dry", "cascade">>) = "core" /\ <<"core", "dry", "cascade">> # <<>>
        /\ Head(<<"core", "dry", "cascade", "compact">>) = "core"
        /\ <<"core", "dry", "cascade", "compact">> # <<>>
    OBVIOUS
  <2> HIDE DEF S
  <2> QED BY <1>0, <2>1, <2>2, <2>3
<1> HIDE DEF asked, S
<1>3. later \in Seq(S) /\ Ordered(later) /\ later # <<>> /\ Head(later) \in {"unresolved", "core"}
  <2>1. CASE who = "mcp"
    <3>1. <<"unresolved", Head(asked)>> \in Successive
      BY <1>2 DEF Successive
    <3>2. later = <<"unresolved">> \o asked
      BY <2>1
    <3> HIDE DEF later
    <3> QED BY <1>0, <1>2, <3>1, <3>2, OrderedCons
  <2>2. CASE who # "mcp"
    <3>1. later = asked
      BY <1>2, <2>2, ConcatEmptySeq
    <3> HIDE DEF later
    <3> QED BY <1>2, <3>1
  <2> QED BY <2>1, <2>2
<1> HIDE DEF later
<1>4. CASE first = <<"inherited">>
  <2>1. <<"inherited", Head(later)>> \in Successive
    BY <1>3 DEF Successive
  <2> QED BY <1>0, <1>1, <1>3, <1>4, <2>1, OrderedCons
<1>5. CASE first = <<>>
  <2>1. first \o later = later
    BY <1>3, <1>5, ConcatEmptySeq
  <2> QED BY <1>1, <1>3, <2>1
<1> QED BY <1>4, <1>5

\* The filter that is next.
Stage == IF todo = <<>> THEN "shown" ELSE Head(todo)

\* The target of an edge is noise, or an override stands for it.
Spared(r) ==
  \/ r.target \in Noise
  \/ \E d \in core.edges : d.kind = "DISPATCHES" /\ d.source = r.target

\* What is excluded after the first round is noise or replaced, and what a
\* round adds is called by nobody outside, so that a call into it from
\* outside is one of the first round's.
DryInv ==
  Answered1 /\ mode \in Dry =>
    /\ Ordered(todo)
    /\ Stage \in {"dry", "cascade"} => core = sub
    /\ Stage = "cascade" =>
         \A r \in core.edges : r.source \notin excluded /\ r.target \in excluded => Spared(r)
    /\ Stage \in {"compact", "shown"} =>
         \A r \in core.edges :
           r.source \in Listing \ excluded /\ r.target \notin Listing => Spared(r)

LEMMA DryInit == QInit => DryInv
<1> SUFFICES ASSUME QInit PROVE DryInv
  OBVIOUS
<1>1. todo = <<"resolve">>
  BY DEF QInit
<1> QED BY <1>1, FiltersOnly DEF DryInv, Answered1

LEMMA NextStage ==
  ASSUME PhaseInv, mode \in Dry, NEW act, Then(act), act \notin {"resolve", "traverse"},
         Ordered(todo), todo' = Tail(todo)
  PROVE  /\ Ordered(todo') /\ Stage = act
         /\ act = "inherited" => Stage' \in {"unresolved", "core"}
         /\ act = "unresolved" => Stage' = "core"
         /\ act = "core" => Stage' = "dry"
         /\ act = "dry" => Stage' = "cascade"
         /\ act = "cascade" => Stage' \in {"compact", "shown"}
         /\ act = "compact" => Stage' = "shown"
<1>1. todo \in Seq(Acts(mode)) /\ todo # <<>> /\ Head(todo) = act
  BY Phases DEF Then
<1>2. /\ Ordered(Tail(todo))
      /\ Tail(todo) # <<>> => <<act, Head(Tail(todo))>> \in Successive
      /\ Tail(todo) = <<>> => act \in {"cascade", "compact"}
  BY <1>1, OrderedTail
<1>3. /\ Stage = act
      /\ Stage' = IF Tail(todo) = <<>> THEN "shown" ELSE Head(Tail(todo))
  BY <1>1 DEF Stage
<1> DEFINE next == Head(Tail(todo))
<1>4. Tail(todo) # <<>> =>
        /\ act = "inherited" => next \in {"unresolved", "core"}
        /\ act = "unresolved" => next = "core"
        /\ act = "core" => next = "dry"
        /\ act = "dry" => next = "cascade"
        /\ act = "cascade" => next = "compact"
        /\ act # "compact"
  <2> HIDE DEF next
  <2> QED BY <1>2 DEF Successive, next
<1> HIDE DEF next
<1> QED BY <1>2, <1>3, <1>4 DEF next

\* One filter of a dry question.
LEMMA FilterDryness ==
  ASSUME PhaseInv, DryInv, NEW act, NEW result, Filter(act, result),
         act \notin {"resolve", "traverse"},
         Answered1 /\ mode \in Dry /\ Ordered(todo) =>
           /\ Stage' \in {"dry", "cascade"} => core' = sub'
           /\ Stage' = "cascade" =>
                \A r \in core'.edges :
                  r.source \notin excluded' /\ r.target \in excluded' => Spared(r)'
           /\ Stage' \in {"compact", "shown"} =>
                \A r \in core'.edges :
                  r.source \in Listing' \ excluded' /\ r.target \notin Listing' => Spared(r)'
  PROVE  DryInv'
<1>1. UNCHANGED <<query, mode>> /\ Then(act) /\ todo' = Tail(todo)
  BY DEF Filter, view
<1>2. todo \in Seq(Acts(mode))
  BY <1>1, Phases
<1>3. Answered1' => Answered1
  BY <1>1, <1>2 DEF Answered1
<1>4. ASSUME Answered1', mode \in Dry PROVE Ordered(todo)'
  <2>1. Ordered(todo)
    BY <1>3, <1>4 DEF DryInv
  <2> QED BY <1>1, <1>4, <2>1, NextStage DEF Ordered
<1>5. Answered1 /\ mode \in Dry => Ordered(todo)
  BY DEF DryInv
<1> QED BY <1>1, <1>3, <1>4, <1>5 DEF DryInv

LEMMA DryStep ==
  PhaseInv /\ WholeInv /\ DryInv /\ [QNext]_<<vars, queryVars>> => DryInv'
<1> SUFFICES ASSUME PhaseInv, WholeInv, DryInv, [QNext]_<<vars, queryVars>> PROVE DryInv'
  OBVIOUS
<1>a. ASSUME todo' \in {<<"resolve">>, <<"traverse">>} PROVE DryInv'
  BY <1>a, FiltersOnly DEF DryInv, Answered1
<1>b. ASSUME UNCHANGED <<query, mode, sub, todo, core, excluded>> PROVE DryInv'
  BY <1>b DEF DryInv, Answered1, Stage, Spared, Listing, Ordered
<1>1. CASE Resolve
  BY <1>1, <1>a DEF Resolve
<1>2. CASE Climb
  <2>1. todo = <<"resolve">> /\ (todo' = todo \/ todo' = <<"traverse">>)
    BY <1>2, Phases DEF Climb
  <2> QED BY <1>a, <2>1
<1>3. CASE NotFound
  <2>1. query'.root = Nothing
    BY <1>3, Phases DEF NotFound, Asking
  <2> QED BY <2>1 DEF DryInv, Answered1
<1>4. CASE Traverse
  <2>1. todo = <<"traverse">>
    BY <1>4, Phases DEF Traverse
  <2>2. CASE \E s \in Stores : answers'[s] # Nothing
    <3>1. todo' = Filters(gateway', mode')
      BY <1>4, <2>2 DEF Traverse
    <3>2. ASSUME mode' \in Dry
          PROVE  Ordered(todo') /\ Stage' \in {"inherited", "unresolved", "core"}
      BY <3>1, <3>2, DryOrdered DEF Stage
    <3> QED BY <3>2 DEF DryInv, Ordered
  <2>3. CASE ~ \E s \in Stores : answers'[s] # Nothing
    BY <1>4, <1>a, <2>1, <2>3 DEF Traverse
  <2> QED BY <2>2, <2>3
<1>5. CASE FilterInherited
  <2>1. Filter("inherited", Inherited) /\ todo' = Tail(todo) /\ Then("inherited")
    BY <1>5 DEF FilterInherited, Filter
  <2> QED BY <2>1, NextStage, FilterDryness
<1>6. CASE AddUnresolved
  <2>1. PICK result : Filter("unresolved", result)
    BY <1>6 DEF AddUnresolved
  <2>2. todo' = Tail(todo) /\ Then("unresolved")
    BY <2>1 DEF Filter
  <2> QED BY <2>1, <2>2, NextStage, FilterDryness
<1>7. CASE FilterCore
  <2>1. PICK result : Filter("core", result)
    BY <1>7 DEF FilterCore
  <2>2. todo' = Tail(todo) /\ Then("core") /\ core' = sub'
    BY <1>7, <2>1 DEF FilterCore, Filter
  <2> QED BY <2>1, <2>2, NextStage, FilterDryness
<1>8. CASE FilterDry
  <2>1. /\ Filter("dry", sub) /\ todo' = Tail(todo) /\ Then("dry") /\ sub' = sub /\ core' = core
        /\ excluded' = (Noise \cap sub.nodes) \cup Replaced
    BY <1>8 DEF FilterDry, Filter
  <2>2. ASSUME Answered1, mode \in Dry, Ordered(todo)
        PROVE  /\ Stage' = "cascade" /\ core' = sub'
               /\ \A r \in core'.edges : r.target \in excluded' => Spared(r)'
    <3>1. Stage' = "cascade" /\ core = sub
      BY <2>1, <2>2, NextStage DEF DryInv
    <3>2. \A f \in Replaced : \E d \in sub.edges : d.kind = "DISPATCHES" /\ d.source = f
      BY DEF Replaced
    <3> QED BY <2>1, <3>1, <3>2 DEF Spared
  <2> QED BY <2>1, <2>2, FilterDryness
<1>9. CASE Cascade
  <2>1. CASE Orphans # {}
    <3>1. /\ Then("cascade") /\ UNCHANGED <<query, mode, todo, sub, core>>
          /\ excluded' = excluded \cup Orphans
      BY <1>9, <2>1 DEF Cascade, view
    <3>2. Stage = "cascade" /\ Stage' = "cascade"
      BY <3>1 DEF Stage, Then
    <3>3. ASSUME Answered1, mode \in Dry, NEW r \in core.edges,
                 r.source \notin excluded', r.target \in excluded'
          PROVE  Spared(r)
      <4>1. core = sub
        BY <3>2, <3>3 DEF DryInv
      <4>2. r.target \notin Orphans
        BY <3>1, <3>3, <4>1 DEF Orphans
      <4> QED BY <3>1, <3>2, <3>3, <4>2 DEF DryInv
    <3> QED BY <3>1, <3>2, <3>3 DEF DryInv, Answered1, Spared, Ordered
  <2>2. CASE Orphans = {}
    <3> DEFINE left == Without(excluded)
               named == UNION {{r.source, r.target} : r \in left.edges}
               loose == IF left.edges = {} THEN {} ELSE left.nodes \ named
               rest == [left EXCEPT !.nodes = @ \ loose, !.truncated = @ \ loose]
    <3>1. Filter("cascade", rest) /\ UNCHANGED <<excluded, core>>
      BY <1>9, <2>2 DEF Cascade
    <3>2. todo' = Tail(todo) /\ Then("cascade") /\ sub' = rest /\ query' = query
      BY <3>1 DEF Filter
    <3>3. rest.nodes = left.nodes \ loose /\ left.nodes = sub.nodes \ excluded
      BY DEF Without
    <3>4. ASSUME Answered1, mode \in Dry, Ordered(todo), NEW r \in core.edges,
                 r.source \in Listing' \ excluded, r.target \notin Listing'
          PROVE  Spared(r)
      <4>1. /\ Stage = "cascade" /\ core = sub /\ Whole(sub)
        BY <3>2, <3>4, NextStage DEF DryInv, WholeInv
      <4>2. CASE r.target \in excluded
        BY <3>4, <4>1, <4>2 DEF DryInv
      <4>3. CASE r.target \notin excluded
        <5>1. r \in left.edges
          BY <3>4, <4>1, <4>3 DEF Without
        <5>2. r.target \notin loose
          BY <5>1
        <5> HIDE DEF left, loose, rest
        <5>3. r.target \in sub.nodes \cup {query.root}
          BY <4>1 DEF Whole
        <5> QED BY <3>2, <3>3, <3>4, <4>3, <5>2, <5>3 DEF Listing
      <4> QED BY <4>2, <4>3
    <3> HIDE DEF rest
    <3>5. Answered1 /\ mode \in Dry /\ Ordered(todo) => Stage' \in {"compact", "shown"}
      BY <3>2, NextStage
    <3>6. \A r : Spared(r)' <=> Spared(r)
      BY <3>1 DEF Spared
    <3> QED BY <3>1, <3>4, <3>5, <3>6, FilterDryness
  <2> QED BY <2>1, <2>2
<1>10. CASE FilterCompact
  <2>1. PICK one \in SUBSET sub.edges : Filter("compact", [sub EXCEPT !.edges = one])
    BY <1>10 DEF FilterCompact
  <2>2. /\ todo' = Tail(todo) /\ Then("compact") /\ UNCHANGED <<query, excluded, core>>
        /\ sub' = [sub EXCEPT !.edges = one]
    BY <1>10, <2>1 DEF FilterCompact, Filter
  <2>3. ASSUME Answered1, mode \in Dry, Ordered(todo)
        PROVE  /\ Stage' = "shown" /\ Stage = "compact" /\ Listing' = Listing
    <3>1. sub'.nodes = sub.nodes
      BY <2>2
    <3> QED BY <2>2, <2>3, <3>1, NextStage DEF Listing
  <2>4. \A r : Spared(r)' <=> Spared(r)
    BY <2>2 DEF Spared
  <2> QED BY <2>1, <2>2, <2>3, <2>4, FilterDryness DEF DryInv
<1>11. CASE Assemble
  <2>1. PICK result : Filter("assemble", result)
    BY <1>11 DEF Assemble
  <2>2. mode' = mode /\ mode = "full"
    BY <2>1, Phases DEF Filter, Acts, view
  <2> QED BY <2>2 DEF DryInv, Dry
<1>12. CASE UNCHANGED <<vars, queryVars>>
  BY <1>12, <1>b DEF vars, queryVars, view
<1> QED BY <1>1, <1>2, <1>3, <1>4, <1>5, <1>6, <1>7, <1>8, <1>9, <1>10, <1>11,
           <1>12 DEF QNext

\* Whatever the rounds of the cascade, and whichever filters ran before:
\* what a function that stays calls is removed only if it is noise or
\* replaced.
THEOREM DryRemovesOrphansOnly == QSpec => []OnlyOrphansGo
<1>1. QInit => PhaseInv /\ WholeInv /\ DryInv
  BY PhaseInit, WholeInit, DryInit
<1>2. PhaseInv /\ WholeInv /\ DryInv /\ [QNext]_<<vars, queryVars>>
        => PhaseInv' /\ WholeInv' /\ DryInv'
  BY PhaseStep, WholeStep, DryStep
<1>3. PhaseInv /\ DryInv => OnlyOrphansGo
  <2> SUFFICES ASSUME PhaseInv, DryInv, Shown, mode \in Dry
               PROVE  \A r \in core.edges :
                        r.source \in Listing \ excluded /\ r.target \notin Listing => Spared(r)
    BY DEF OnlyOrphansGo, Dry, Spared
  <2> QED BY Phases DEF DryInv, Answered1, Shown, Stage, Dry
<1> QED BY <1>1, <1>2, <1>3, PTL DEF QSpec

=============================================================================
