------------------------ MODULE CallTraversalProofs ------------------------
(***************************************************************************)
(* Proofs about CallTraversal, for every graph, question and depth: its    *)
(* types, that answers hold real functions and edges only, that they miss *)
(* no call within the depth, and that an answer without truncated          *)
(* functions has come to an end.                                           *)
(***************************************************************************)
EXTENDS CallTraversal, TLAPS, WellFoundedInduction

----------------------------------------------------------------------------
\* Every nonempty set of naturals has a least member.
LEMMA LeastNat ==
  ASSUME NEW T, T \subseteq Nat, T # {}
  PROVE  \E n \in T : \A m \in T : n <= m
<1> DEFINE R == OpToRel(<, Nat)
<1>1. IsWellFoundedOn(R, Nat)
  BY NatLessThanWellFounded
<1>2. ASSUME NEW n \in T, NEW m \in T, ~(<<m, n>> \in R) PROVE n <= m
  <2>1. ~(m < n) BY <1>2 DEF OpToRel
  <2> QED BY <2>1
<1> HIDE DEF R
<1>3. \E n \in T : \A m \in T : ~(<<m, n>> \in R)
  BY <1>1, WFMin, Zenon
<1> QED
  BY <1>2, <1>3

LEMMA Shapes ==
  ASSUME NEW e \in Sites \cup Overrides
  PROVE  e.from \in Funcs /\ e.to \in Funcs
BY TraversalAssumption DEF CallEdge, DispatchEdge

LEMMA EndsAreFuncs ==
  ASSUME NEW e \in Sites \cup Overrides
  PROVE  Anchor(e) \in Funcs /\ Neighbour(e) \in Funcs
BY Shapes DEF Anchor, Neighbour

LEMMA ReportedCall ==
  ASSUME NEW e \in Sites
  PROVE  Reported(e, "CALLS") \in Report
<1>1. e.declared \in Types \cup {NoType} /\ e.chain \in Nat
  BY TraversalAssumption DEF CallEdge
<1> QED
  BY <1>1, EndsAreFuncs DEF Reported, Report

LEMMA ReportedDispatch ==
  ASSUME NEW d \in Overrides
  PROVE  Reported(d, "DISPATCHES") \in Report
BY EndsAreFuncs DEF Reported, Report

\* Whatever the store, step 2 follows dispatches of functions just found.
LEMMA DispatchesAreReal ==
  ASSUME NEW s
  PROVE  Traversal(s).dispatches \subseteq EdgesAt(dispatches, found)
BY DEF Traversal, Ladybug, Kuzu, Falkor

LEMMA TruncatedAreQueued ==
  ASSUME NEW s
  PROVE  Traversal(s).truncated \subseteq queue
BY DEF Traversal, Ladybug, Kuzu, Falkor

LEMMA PrefixesAreTypes ==
  ASSUME NEW s, calls \subseteq Sites
  PROVE  Traversal(s).prefixes \in [Funcs -> SUBSET Types]
<1>1. \A e \in calls : e.declared \in Types \cup {NoType}
  BY TraversalAssumption DEF CallEdge
<1>2. Ladybug.prefixes \in [Funcs -> SUBSET Types]
  BY <1>1 DEF Ladybug, Recorded, Level, EdgesAt
<1>3. Kuzu.prefixes \in [Funcs -> SUBSET Types]
  BY <1>2 DEF Kuzu
<1>4. Falkor.prefixes \in [Funcs -> SUBSET Types]
  BY <1>1 DEF Falkor, Recorded, Level, EdgesAt
<1> QED
  BY <1>2, <1>3, <1>4 DEF Traversal

----------------------------------------------------------------------------
\* TypeOK with what is known at each step of a level.
Types1 ==
  /\ TypeOK
  /\ pc # "idle" => query.root \in visited /\ store \in Stores
  /\ pc = "dispatches" => level < query.depth

LEMMA InitTypes == Init => Types1
BY TraversalAssumption DEF Init, Types1, TypeOK, Questions

LEMMA NextTypes == Types1 /\ [Next]_vars => Types1'
<1> SUFFICES ASSUME Types1, [Next]_vars PROVE Types1'
  OBVIOUS
<1> USE DEF Types1, TypeOK
<1>0. query.depth \in Nat /\ query.root \in Funcs
  BY TraversalAssumption DEF Questions
<1>1. ASSUME NEW s \in Stores, Ask(s) PROVE Types1'
  BY <1>0, <1>1 DEF Ask, graph
<1>2. CASE ExpandCalls
  <2> DEFINE rows == {e \in EdgesAt(calls, queue) : Accepted(e)}
  <2>1. rows \subseteq Sites
    BY DEF EdgesAt
  <2>2. Ends(rows) \subseteq Funcs
    BY <2>1, EndsAreFuncs DEF Ends
  <2>3. {Reported(e, "CALLS") : e \in rows} \subseteq Report
    BY <2>1, ReportedCall
  <2>4. prefixes' \in [Funcs -> SUBSET Types]
    BY <1>2, PrefixesAreTypes DEF ExpandCalls
  <2> HIDE DEF rows
  <2>5. /\ edges' = edges \cup {Reported(e, "CALLS") : e \in rows}
        /\ found' = Ends(rows) \ visited
        /\ visited' = visited \cup Ends(rows)
        /\ UNCHANGED <<calls, dispatches, query, store, level, queue, answers>>
        /\ pc' = "dispatches" /\ pc = "calls" /\ level < query.depth
    BY <1>2 DEF ExpandCalls, graph, rows
  <2> QED
    BY <2>2, <2>3, <2>4, <2>5
<1>3. CASE ExpandDispatches
  <2> DEFINE rows == Traversal(store).dispatches
  <2>1. rows \subseteq Overrides
    BY DispatchesAreReal DEF EdgesAt
  <2>2. Ends(rows) \subseteq Funcs
    BY <2>1, EndsAreFuncs DEF Ends
  <2>3. {Reported(d, "DISPATCHES") : d \in rows} \subseteq Report
    BY <2>1, ReportedDispatch
  <2> HIDE DEF rows
  <2>5. /\ edges' = edges \cup {Reported(d, "DISPATCHES") : d \in rows}
        /\ visited' = visited \cup Ends(rows)
        /\ queue' = found \cup (Ends(rows) \ visited)
        /\ found' = {} /\ level' = level + 1
        /\ UNCHANGED <<calls, dispatches, query, store, prefixes, answers>>
        /\ pc' = "calls" /\ pc = "dispatches"
    BY <1>3 DEF ExpandDispatches, graph, rows
  <2> QED
    BY <1>0, <2>2, <2>3, <2>5
<1>4. CASE Finish
  <2>1. Nodes \subseteq Funcs /\ Traversal(store).truncated \subseteq Funcs
    BY TruncatedAreQueued DEF Nodes
  <2>2. [nodes |-> Nodes, edges |-> edges, truncated |-> Traversal(store).truncated] \in Answer
    BY <2>1 DEF Answer
  <2> QED
    BY <1>4, <2>2 DEF Finish, graph
<1>5. CASE UNCHANGED vars
  BY <1>5 DEF vars
<1> QED
  BY <1>1, <1>2, <1>3, <1>4, <1>5 DEF Next

\* The variables keep their types.
THEOREM TraversalTypeCorrect == Spec => []TypeOK
<1>1. Types1 => TypeOK
  BY DEF Types1
<1> QED
  BY InitTypes, NextTypes, <1>1, PTL DEF Spec

----------------------------------------------------------------------------
(* Soundness.                                                              *)

\* f is at most n levels away from the root.
Reached(f, n) ==
  \E k \in 0..n : \E p \in [0..k -> Funcs] : LevelPath(p, k) /\ p[k] = f

RealReports ==
  {Reported(e, "CALLS") : e \in {c \in calls : Accepted(c)}}
    \cup {Reported(d, "DISPATCHES") : d \in dispatches}

LEMMA ReachedRoot ==
  ASSUME TypeOK, NEW n \in Nat
  PROVE  Reached(query.root, n)
<1> DEFINE p == [i \in 0..0 |-> query.root]
<1>1. query.root \in Funcs BY DEF TypeOK, Questions
<1>2. p \in [0..0 -> Funcs] /\ LevelPath(p, 0) /\ p[0] = query.root
  BY <1>1 DEF LevelPath
<1>3. 0 \in 0..n
  OBVIOUS
<1> HIDE DEF p
<1> QED
  BY <1>2, <1>3 DEF Reached

LEMMA ReachedMore ==
  ASSUME NEW f, NEW n \in Nat, Reached(f, n)
  PROVE  Reached(f, n + 1)
<1>1. 0..n \subseteq 0..(n + 1)
  OBVIOUS
<1> QED
  BY <1>1 DEF Reached

LEMMA ReachedNext ==
  ASSUME NEW g \in Funcs, NEW f \in Funcs, NEW n \in Nat, Reached(g, n), LevelHop(g, f)
  PROVE  Reached(f, n + 1)
<1>0. PICK k \in 0..n : \E p \in [0..k -> Funcs] : LevelPath(p, k) /\ p[k] = g
  BY DEF Reached
<1>1. PICK p \in [0..k -> Funcs] : LevelPath(p, k) /\ p[k] = g
  BY <1>0
<1> DEFINE q == [i \in 0..(k + 1) |-> IF i = k + 1 THEN f ELSE p[i]]
<1>2. q \in [0..(k + 1) -> Funcs] /\ q[k + 1] = f /\ q[0] = query.root
  BY <1>1 DEF LevelPath
<1>3. ASSUME NEW i \in 0..k PROVE LevelHop(q[i], q[i + 1])
  <2>1. CASE i = k
    BY <1>1, <2>1
  <2>2. CASE i \in 0..(k - 1)
    <3>1. q[i] = p[i] /\ q[i + 1] = p[i + 1]
      BY <2>2
    <3> QED
      BY <1>1, <2>2, <3>1 DEF LevelPath
  <2> QED
    BY <2>1, <2>2
<1>4. LevelPath(q, k + 1)
  <2>1. 0..((k + 1) - 1) = 0..k
    OBVIOUS
  <2> HIDE DEF q
  <2> QED
    BY <1>2, <1>3, <2>1 DEF LevelPath
<1>5. k + 1 \in 0..(n + 1)
  OBVIOUS
<1> HIDE DEF q
<1> QED
  BY <1>2, <1>4, <1>5 DEF Reached

\* The graph and the question do not change, so neither does what they say.
LEMMA Fixed ==
  ASSUME UNCHANGED graph
  PROVE  /\ \A f, g : CallHop(f, g)' <=> CallHop(f, g)
         /\ \A f, n : Reached(f, n)' <=> Reached(f, n)
         /\ \A p, k : CallPath(p, k)' <=> CallPath(p, k)
         /\ \A e : Accepted(e)' = Accepted(e) /\ Anchor(e)' = Anchor(e) /\ Neighbour(e)' = Neighbour(e)
         /\ \A e, c : Reported(e, c)' = Reported(e, c)
         /\ RealReports' = RealReports
<1> USE DEF graph
<1>1. \A e : Accepted(e)' = Accepted(e) /\ Anchor(e)' = Anchor(e) /\ Neighbour(e)' = Neighbour(e)
  BY DEF Accepted, Anchor, Neighbour
<1>2. \A e, c : Reported(e, c)' = Reported(e, c)
  BY <1>1 DEF Reported
<1>3. \A f, g : CallHop(f, g)' <=> CallHop(f, g)
  BY <1>1 DEF CallHop
<1>4. \A f, g : DispatchHop(f, g)' <=> DispatchHop(f, g)
  BY <1>1 DEF DispatchHop
<1>5. \A f, g : LevelHop(f, g)' <=> LevelHop(f, g)
  BY <1>3, <1>4 DEF LevelHop
<1>6. \A p, k : LevelPath(p, k)' <=> LevelPath(p, k)
  BY <1>5 DEF LevelPath
<1>7. \A f, n : Reached(f, n)' <=> Reached(f, n)
  BY <1>6 DEF Reached
<1>8. \A p, k : CallPath(p, k)' <=> CallPath(p, k)
  BY <1>3 DEF CallPath
<1>9. RealReports' = RealReports
  BY <1>1, <1>2 DEF RealReports
<1> QED
  BY <1>1, <1>2, <1>3, <1>7, <1>8, <1>9

\* What a store has found so far: functions within the levels expanded
\* (in the middle of a level, within that level too), and real edges.
Found1 ==
  pc # "idle" =>
    /\ \A f \in visited : Reached(f, IF pc = "dispatches" THEN level + 1 ELSE level)
    /\ \A f \in queue : Reached(f, level)
    /\ \A f \in found : \E g \in Funcs : Reached(g, level) /\ CallHop(g, f)
    /\ edges \subseteq RealReports
    /\ \A r \in edges : {r.source, r.target} \subseteq visited
    /\ pc = "calls" => found = {}

SoundInv == Types1 /\ Found1 /\ AnswersAreReal

LEMMA InitSound == Init => Found1 /\ AnswersAreReal
BY NothingAssumption DEF Init, Found1, AnswersAreReal, Answered

LEMMA AnswersKept ==
  ASSUME UNCHANGED graph, UNCHANGED answers, AnswersAreReal
  PROVE  AnswersAreReal'
<1>1. RealReports' = RealReports
  BY Fixed
<1>2. \A f : Reached(f, query.depth)' <=> Reached(f, query.depth)
  BY Fixed DEF graph
<1>3. query' = query /\ answers' = answers
  BY DEF graph
<1>4. AnswersAreReal <=>
        \A s \in Answered :
          /\ \A f \in answers[s].nodes : Reached(f, query.depth)
          /\ answers[s].edges \subseteq RealReports
          /\ \A r \in answers[s].edges : {r.source, r.target} \subseteq Listed(s)
  BY DEF AnswersAreReal, Reached, RealReports
<1>5. AnswersAreReal' <=>
        \A s \in Answered' :
          /\ \A f \in answers'[s].nodes : Reached(f, query.depth)'
          /\ answers'[s].edges \subseteq RealReports'
          /\ \A r \in answers'[s].edges : {r.source, r.target} \subseteq Listed(s)'
  BY DEF AnswersAreReal, Reached, RealReports
<1>6. Answered' = Answered /\ \A s : Listed(s)' = Listed(s)
  BY <1>3 DEF Answered, Listed
<1> QED
  BY <1>1, <1>2, <1>3, <1>4, <1>5, <1>6

LEMMA NextSound == SoundInv /\ [Next]_vars => Found1' /\ AnswersAreReal'
<1> SUFFICES ASSUME SoundInv, [Next]_vars PROVE Found1' /\ AnswersAreReal'
  OBVIOUS
<1> USE DEF SoundInv
<1>0. /\ query.depth \in Nat /\ query.root \in Funcs /\ level \in Nat /\ visited \subseteq Funcs
      /\ queue \subseteq visited /\ found \subseteq visited /\ TypeOK
  BY TraversalAssumption DEF Questions, Types1, TypeOK
<1>1. ASSUME NEW s \in Stores, Ask(s) PROVE Found1' /\ AnswersAreReal'
  <2>1. UNCHANGED graph /\ UNCHANGED answers
    BY <1>1 DEF Ask
  <2>2. \A f \in {query.root} : Reached(f, 0)'
    <3>1. Reached(query.root, 0)
      BY <1>0, ReachedRoot
    <3> QED
      BY <2>1, <3>1, Fixed
  <2>3. /\ visited' = {query.root} /\ queue' = {query.root} /\ found' = {} /\ edges' = {}
        /\ level' = 0 /\ pc' = "calls"
    BY <1>1 DEF Ask
  <2>4. Found1'
    BY <2>2, <2>3 DEF Found1
  <2> QED
    BY <2>1, <2>4, AnswersKept
<1>2. CASE ExpandCalls
  <2> DEFINE rows == {e \in EdgesAt(calls, queue) : Accepted(e)}
  <2>1. UNCHANGED graph /\ UNCHANGED answers
    BY <1>2 DEF ExpandCalls
  <2>2. rows \subseteq calls /\ \A e \in rows : Accepted(e) /\ Anchor(e) \in queue
    BY DEF EdgesAt
  <2>3. \A e \in rows : Anchor(e) \in Funcs /\ Neighbour(e) \in Funcs
    BY <2>2, EndsAreFuncs DEF Types1, TypeOK
  <2>4. /\ edges' = edges \cup {Reported(e, "CALLS") : e \in rows}
        /\ found' = Ends(rows) \ visited
        /\ visited' = visited \cup Ends(rows)
        /\ level' = level /\ queue' = queue /\ pc' = "dispatches" /\ pc = "calls"
    BY <1>2 DEF ExpandCalls
  <2> HIDE DEF rows
  <2>5. \A f \in Ends(rows) : f \in Funcs /\ \E g \in Funcs : Reached(g, level) /\ CallHop(g, f)
    <3> SUFFICES ASSUME NEW e \in rows
                 PROVE  /\ Neighbour(e) \in Funcs
                        /\ Reached(Anchor(e), level) /\ CallHop(Anchor(e), Neighbour(e)) /\ Anchor(e) \in Funcs
      BY DEF Ends
    <3> QED
      BY <2>2, <2>3, <2>4 DEF Found1, CallHop
  <2>6. \A f \in Ends(rows) : Reached(f, level + 1)
    BY <2>5, <1>0, ReachedNext DEF LevelHop
  <2>7. \A f \in visited : Reached(f, level + 1)
    BY <1>0, <2>4, ReachedMore DEF Found1
  <2>8. \A f \in visited' : Reached(f, level + 1)'
    BY <2>1, <2>4, <2>6, <2>7, Fixed
  <2>9. \A f \in queue' : Reached(f, level)'
    BY <2>1, <2>4, Fixed DEF Found1
  <2>10. \A f \in found' : \E g \in Funcs : Reached(g, level)' /\ CallHop(g, f)'
    BY <2>1, <2>4, <2>5, Fixed
  <2>11. edges' \subseteq RealReports'
    <3>1. {Reported(e, "CALLS") : e \in rows} \subseteq RealReports
      BY <2>2 DEF RealReports
    <3> QED
      BY <2>1, <2>4, <3>1, Fixed DEF Found1
  <2>12. \A r \in edges' : {r.source, r.target} \subseteq visited'
    <3>1. \A e \in rows : {Anchor(e), Neighbour(e)} \subseteq visited'
      BY <1>0, <2>2, <2>4 DEF Ends
    <3>2. \A e \in rows : {Reported(e, "CALLS").source, Reported(e, "CALLS").target} \subseteq visited'
      BY <3>1 DEF Reported
    <3>3. \A r \in edges : {r.source, r.target} \subseteq visited'
      BY <2>4 DEF Found1
    <3> QED
      BY <2>4, <3>2, <3>3
  <2>13. Found1'
    BY <2>4, <2>8, <2>9, <2>10, <2>11, <2>12 DEF Found1
  <2> QED
    BY <2>1, <2>13, AnswersKept
<1>3. CASE ExpandDispatches
  <2> DEFINE rows == Traversal(store).dispatches
  <2>1. UNCHANGED graph /\ UNCHANGED answers
    BY <1>3 DEF ExpandDispatches
  <2>2. rows \subseteq dispatches /\ \A d \in rows : Anchor(d) \in found
    BY DispatchesAreReal DEF EdgesAt
  <2>3. \A d \in rows : Anchor(d) \in Funcs /\ Neighbour(d) \in Funcs
    BY <2>2, EndsAreFuncs DEF Types1, TypeOK
  <2>4. /\ edges' = edges \cup {Reported(d, "DISPATCHES") : d \in rows}
        /\ visited' = visited \cup Ends(rows)
        /\ queue' = found \cup (Ends(rows) \ visited)
        /\ found' = {} /\ level' = level + 1 /\ pc' = "calls" /\ pc = "dispatches"
    BY <1>3 DEF ExpandDispatches
  <2> HIDE DEF rows
  <2>5. \A f \in Ends(rows) : Reached(f, level + 1)
    <3> SUFFICES ASSUME NEW d \in rows PROVE Reached(Neighbour(d), level + 1)
      BY DEF Ends
    <3>1. PICK g \in Funcs : Reached(g, level) /\ CallHop(g, Anchor(d))
      BY <2>2, <2>4 DEF Found1
    <3>2. DispatchHop(Anchor(d), Neighbour(d))
      BY <2>2 DEF DispatchHop
    <3>3. LevelHop(g, Neighbour(d))
      BY <2>3, <3>1, <3>2 DEF LevelHop
    <3> QED
      BY <1>0, <2>3, <3>1, <3>3, ReachedNext
  <2>6. \A f \in visited : Reached(f, level + 1)
    BY <2>4 DEF Found1
  <2>7. \A f \in visited' : Reached(f, level)'
    BY <2>1, <2>4, <2>5, <2>6, Fixed
  <2>8. queue' \subseteq visited'
    BY <1>0, <2>4
  <2>9. edges' \subseteq RealReports'
    <3>1. {Reported(d, "DISPATCHES") : d \in rows} \subseteq RealReports
      BY <2>2 DEF RealReports
    <3> QED
      BY <2>1, <2>4, <3>1, Fixed DEF Found1
  <2>10. \A r \in edges' : {r.source, r.target} \subseteq visited'
    <3>1. \A d \in rows : {Anchor(d), Neighbour(d)} \subseteq visited'
      BY <1>0, <2>2, <2>4 DEF Ends
    <3>2. \A d \in rows : {Reported(d, "DISPATCHES").source, Reported(d, "DISPATCHES").target} \subseteq visited'
      BY <3>1 DEF Reported
    <3>3. \A r \in edges : {r.source, r.target} \subseteq visited'
      BY <2>4 DEF Found1
    <3> QED
      BY <2>4, <3>2, <3>3
  <2>11. Found1'
    BY <2>4, <2>7, <2>8, <2>9, <2>10 DEF Found1
  <2> QED
    BY <2>1, <2>11, AnswersKept
<1>4. CASE Finish
  <2>1. /\ UNCHANGED graph /\ pc' = "idle" /\ pc = "calls" /\ level \in 0..query.depth
        /\ store \in Stores /\ answers \in [Stores -> Answer \cup {Nothing}]
        /\ query.root \in visited
    BY <1>4 DEF Finish, Types1, TypeOK
  <2> DEFINE a == [nodes |-> Nodes, edges |-> edges, truncated |-> Traversal(store).truncated]
  <2>2. answers' = [answers EXCEPT ![store] = a]
    BY <1>4 DEF Finish
  <2>3. \A f \in a.nodes : Reached(f, query.depth)
    <3>1. \A f \in a.nodes : Reached(f, level)
      BY <2>1 DEF Found1, Nodes
    <3>2. 0..level \subseteq 0..query.depth
      BY <1>0, <2>1
    <3> QED
      BY <3>1, <3>2 DEF Reached
  <2>4. a.edges \subseteq RealReports /\ a.nodes \cup {query.root} = visited
        /\ \A r \in a.edges : {r.source, r.target} \subseteq visited
    BY <2>1 DEF Found1, Nodes
  <2> HIDE DEF a
  <2>5. /\ query' = query
        /\ RealReports' = RealReports
        /\ \A f : Reached(f, query.depth)' <=> Reached(f, query.depth)
    BY <2>1, Fixed DEF graph
  <2>6. ASSUME NEW s \in Answered'
        PROVE  /\ \A f \in answers'[s].nodes : Reached(f, query.depth)'
               /\ answers'[s].edges \subseteq RealReports'
               /\ \A r \in answers'[s].edges : {r.source, r.target} \subseteq Listed(s)'
    <3>1. CASE s = store
      <4>1. answers'[s] = a
        BY <2>1, <2>2, <3>1
      <4> QED
        BY <2>3, <2>4, <2>5, <4>1 DEF Listed
    <3>2. CASE s # store
      <4>1. s \in Stores /\ answers'[s] = answers[s] /\ s \in Answered
        BY <2>1, <2>2, <3>2 DEF Answered
      <4>2. /\ \A f \in answers[s].nodes : Reached(f, query.depth)
            /\ answers[s].edges \subseteq RealReports
            /\ \A r \in answers[s].edges : {r.source, r.target} \subseteq Listed(s)
        BY <4>1 DEF AnswersAreReal, Reached, RealReports
      <4> QED
        BY <2>5, <4>1, <4>2 DEF Listed
    <3> QED
      BY <3>1, <3>2
  <2>7. AnswersAreReal'
    BY <2>6 DEF AnswersAreReal, Reached, RealReports
  <2> QED
    BY <2>1, <2>7 DEF Found1
<1>5. CASE UNCHANGED vars
  <2>1. UNCHANGED graph /\ UNCHANGED answers
    BY <1>5 DEF vars, graph
  <2>2. Found1'
    <3>1. UNCHANGED <<pc, level, queue, found, visited, edges>>
      BY <1>5 DEF vars
    <3> QED
      BY <2>1, <3>1, Fixed DEF Found1
  <2> QED
    BY <2>1, <2>2, AnswersKept
<1> QED
  BY <1>1, <1>2, <1>3, <1>4, <1>5 DEF Next

\* Every function and every edge of an answer is there to be found.
THEOREM AnswersAreSound == Spec => []AnswersAreReal
<1>1. Init => SoundInv
  BY InitTypes, InitSound DEF SoundInv
<1>2. SoundInv /\ [Next]_vars => SoundInv'
  BY NextTypes, NextSound DEF SoundInv
<1>3. SoundInv => AnswersAreReal
  BY DEF SoundInv
<1> QED
  BY <1>1, <1>2, <1>3, PTL DEF Spec

----------------------------------------------------------------------------
(* Completeness.                                                           *)

\* The calls of f have been followed.
Expanded(f) ==
  \A e \in calls : Accepted(e) /\ Anchor(e) = f =>
     Neighbour(e) \in visited /\ Reported(e, "CALLS") \in edges

\* Calls are followed level by level: those of all functions but the last
\* level's, so those on every path that is shorter than the level.
Levels ==
  pc # "idle" =>
    /\ \A f \in visited \ (IF pc = "dispatches" THEN found ELSE queue) : Expanded(f)
    /\ \A k \in 0..(IF pc = "dispatches" THEN level + 1 ELSE level) : \A p \in [0..k -> Funcs] :
         CallPath(p, k) =>
           /\ p[k] \in visited
           /\ k < (IF pc = "dispatches" THEN level + 1 ELSE level) => Expanded(p[k])
    /\ pc = "calls" /\ level > 0 => query.root \notin queue
    /\ pc = "calls" /\ level = 0 => queue # {}
    /\ pc = "dispatches" => query.root \notin found

Told(f, E) == \A e \in EdgesAt(calls, {f}) : Accepted(e) => Reported(e, "CALLS") \in E

CompleteIn(L, E) ==
  \A k \in 0..query.depth : \A p \in [0..k -> Funcs] : CallPath(p, k) =>
    p[k] \in L /\ (k < query.depth => Told(p[k], E))

ClosedIn(L) == \A f \in L, g \in Funcs : CallHop(f, g) => g \in L

Answers1 ==
  \A s \in Answered :
    /\ CompleteIn(Listed(s), answers[s].edges)
    /\ query.depth > 0 /\ answers[s].truncated = {} => ClosedIn(Listed(s))

CompleteInv == Types1 /\ Levels /\ Answers1

LEMMA AnswersMean == Answers1 <=> CallsAreComplete /\ TruncationIsTold
BY DEF Answers1, CallsAreComplete, TruncationIsTold, CompleteIn, Told, ClosedIn

LEMMA InitComplete == Init => Levels /\ Answers1
BY NothingAssumption DEF Init, Levels, Answers1, Answered

\* A path without its last step is a path.
LEMMA Prefix ==
  ASSUME NEW k \in Nat \ {0}, NEW p \in [0..k -> Funcs], CallPath(p, k)
  PROVE  \E q \in [0..(k - 1) -> Funcs] :
            CallPath(q, k - 1) /\ q[k - 1] = p[k - 1] /\ CallHop(q[k - 1], p[k])
<1> DEFINE q == [i \in 0..(k - 1) |-> p[i]]
<1>1. q \in [0..(k - 1) -> Funcs] /\ q[0] = query.root /\ q[k - 1] = p[k - 1]
  BY DEF CallPath
<1>2. \A i \in 0..((k - 1) - 1) : CallHop(q[i], q[i + 1])
  <2> SUFFICES ASSUME NEW i \in 0..((k - 1) - 1) PROVE CallHop(q[i], q[i + 1])
    OBVIOUS
  <2>1. q[i] = p[i] /\ q[i + 1] = p[i + 1] /\ i \in 0..(k - 1)
    OBVIOUS
  <2> QED
    BY <2>1 DEF CallPath
<1>3. CallHop(p[k - 1], p[k])
  <2>1. k - 1 \in 0..(k - 1) /\ (k - 1) + 1 = k
    OBVIOUS
  <2> QED
    BY <2>1 DEF CallPath
<1> HIDE DEF q
<1> QED
  BY <1>1, <1>2, <1>3 DEF CallPath

\* Where nothing is left to expand, every path stays inside.
LEMMA PathsStay ==
  ASSUME NEW L \in SUBSET Funcs, query.root \in L, ClosedIn(L)
  PROVE  \A k \in Nat : \A p \in [0..k -> Funcs] : CallPath(p, k) => p[k] \in L
<1> DEFINE T == {k \in Nat : \E p \in [0..k -> Funcs] : CallPath(p, k) /\ p[k] \notin L}
<1>1. ASSUME T # {} PROVE FALSE
  <2>1. PICK k \in T : \A m \in T : k <= m
    <3>1. T \subseteq Nat OBVIOUS
    <3> HIDE DEF T
    <3> QED BY <1>1, <3>1, LeastNat
  <2>2. PICK p \in [0..k -> Funcs] : CallPath(p, k) /\ p[k] \notin L
    OBVIOUS
  <2>3. k # 0
    BY <2>2 DEF CallPath
  <2>4. k \in Nat \ {0} /\ k - 1 \in Nat
    BY <2>3
  <2>5. PICK q \in [0..(k - 1) -> Funcs] : CallPath(q, k - 1) /\ CallHop(q[k - 1], p[k])
    BY <2>2, <2>4, Prefix
  <2>6. q[k - 1] \in L
    BY <2>1, <2>4, <2>5
  <2> QED
    BY <2>2, <2>4, <2>5, <2>6 DEF ClosedIn
<1> QED
  BY <1>1

LEMMA ExpandedIsClosed ==
  ASSUME \A f \in visited : Expanded(f)
  PROVE  ClosedIn(visited)
BY DEF ClosedIn, Expanded, CallHop

LEMMA CompleteFixed ==
  ASSUME UNCHANGED graph
  PROVE  /\ \A L : ClosedIn(L)' <=> ClosedIn(L)
         /\ \A L, E : CompleteIn(L, E)' <=> CompleteIn(L, E)
<1>1. query' = query /\ calls' = calls
  BY DEF graph
<1>2. \A L : ClosedIn(L)' <=> ClosedIn(L)
  BY Fixed DEF ClosedIn
<1>3. \A S : EdgesAt(calls, S)' = EdgesAt(calls, S)
  BY <1>1, Fixed DEF EdgesAt
<1>4. \A f, E : Told(f, E)' <=> Told(f, E)
  BY <1>3, Fixed DEF Told
<1>5. \A p, k : CallPath(p, k)' <=> CallPath(p, k)
  BY Fixed
<1>6. \A L, E : CompleteIn(L, E)' <=> CompleteIn(L, E)
  BY <1>1, <1>4, <1>5 DEF CompleteIn
<1> QED
  BY <1>2, <1>6

LEMMA CompleteKept ==
  ASSUME UNCHANGED graph, UNCHANGED answers, Answers1
  PROVE  Answers1'
<1>1. query' = query /\ answers' = answers /\ calls' = calls
  BY DEF graph
<1>2. Answered' = Answered /\ \A s : Listed(s)' = Listed(s)
  BY <1>1 DEF Answered, Listed
<1> QED
  BY <1>1, <1>2, CompleteFixed DEF Answers1

\* What is expanded stays so while the store goes on.
LEMMA ExpandedKept ==
  ASSUME UNCHANGED graph, visited \subseteq visited', edges \subseteq edges', NEW f, Expanded(f)
  PROVE  Expanded(f)'
<1>1. calls' = calls
  BY DEF graph
<1> QED
  BY <1>1, Fixed DEF Expanded

LEMMA NextComplete == CompleteInv /\ [Next]_vars => Levels' /\ Answers1'
<1> SUFFICES ASSUME CompleteInv, [Next]_vars PROVE Levels' /\ Answers1'
  OBVIOUS
<1> USE DEF CompleteInv
<1>0. /\ query.depth \in Nat /\ query.root \in Funcs /\ level \in Nat /\ visited \subseteq Funcs
      /\ queue \subseteq visited /\ found \subseteq visited /\ TypeOK
  BY TraversalAssumption DEF Questions, Types1, TypeOK
<1>1. ASSUME NEW s \in Stores, Ask(s) PROVE Levels' /\ Answers1'
  <2>1. UNCHANGED graph /\ UNCHANGED answers
    BY <1>1 DEF Ask
  <2>2. /\ visited' = {query.root} /\ queue' = {query.root} /\ level' = 0 /\ pc' = "calls"
        /\ query' = query
    BY <1>1 DEF Ask, graph
  <2>3. \A k \in 0..0 : \A p \in [0..k -> Funcs] : CallPath(p, k) => p[k] = query.root
    BY DEF CallPath
  <2>4. Levels'
    BY <2>1, <2>2, <2>3, Fixed DEF Levels
  <2> QED
    BY <2>1, <2>4, CompleteKept
<1>2. CASE ExpandCalls
  <2> DEFINE rows == {e \in EdgesAt(calls, queue) : Accepted(e)}
  <2>1. UNCHANGED graph /\ UNCHANGED answers
    BY <1>2 DEF ExpandCalls
  <2>2. \A e \in calls : Accepted(e) /\ Anchor(e) \in queue => e \in rows
    BY DEF EdgesAt
  <2>3. /\ edges' = edges \cup {Reported(e, "CALLS") : e \in rows}
        /\ found' = Ends(rows) \ visited
        /\ visited' = visited \cup Ends(rows)
        /\ level' = level /\ pc' = "dispatches" /\ pc = "calls"
        /\ calls' = calls /\ query' = query /\ query.root \in visited
    BY <1>2 DEF ExpandCalls, graph, Types1
  <2> HIDE DEF rows
  <2>4. \A f \in queue : Expanded(f)'
    <3> SUFFICES ASSUME NEW f \in queue, NEW e \in calls, Accepted(e), Anchor(e) = f
                 PROVE  Neighbour(e) \in visited' /\ Reported(e, "CALLS") \in edges'
      BY <2>1, <2>3, Fixed DEF Expanded
    <3> QED
      BY <2>2, <2>3 DEF Ends
  <2>5. \A f \in visited : Expanded(f)'
    <3>1. \A f \in visited \ queue : Expanded(f)'
      BY <2>1, <2>3, ExpandedKept DEF Levels
    <3> QED
      BY <2>4, <3>1
  <2>6. ASSUME NEW k \in 0..(level + 1), NEW p \in [0..k -> Funcs], CallPath(p, k)
        PROVE  p[k] \in visited' /\ (k < level + 1 => Expanded(p[k])')
    <3>1. CASE k \in 0..level
      <4>1. p[k] \in visited
        BY <2>3, <2>6, <3>1 DEF Levels
      <4> QED
        BY <2>3, <2>5, <4>1
    <3>2. CASE k = level + 1
      <4>1. k \in Nat \ {0} /\ k - 1 \in 0..level
        BY <1>0, <3>2
      <4>2. PICK q \in [0..(k - 1) -> Funcs] : CallPath(q, k - 1) /\ CallHop(q[k - 1], p[k])
        BY <2>6, <4>1, Prefix
      <4>3. q[k - 1] \in visited
        BY <2>3, <4>1, <4>2 DEF Levels
      <4>4. Expanded(q[k - 1])'
        BY <2>5, <4>3
      <4>5. PICK e \in calls : Accepted(e) /\ Anchor(e) = q[k - 1] /\ Neighbour(e) = p[k]
        BY <4>2 DEF CallHop
      <4>6. p[k] \in visited'
        BY <2>1, <2>3, <4>4, <4>5, Fixed DEF Expanded
      <4> QED
        BY <1>0, <3>2, <4>6
    <3> QED
      BY <1>0, <3>1, <3>2
  <2>7. visited' \ found' = visited /\ query.root \notin found'
    BY <1>0, <2>3
  <2>8. Levels'
    <3>1. \A f \in visited' \ found' : Expanded(f)'
      BY <2>5, <2>7
    <3>2. \A k \in 0..(level' + 1) : \A p \in [0..k -> Funcs] : CallPath(p, k)' =>
            p[k] \in visited' /\ (k < level' + 1 => Expanded(p[k])')
      BY <2>1, <2>3, <2>6, Fixed
    <3> QED
      BY <2>3, <2>7, <3>1, <3>2 DEF Levels
  <2> QED
    BY <2>1, <2>8, CompleteKept
<1>3. CASE ExpandDispatches
  <2> DEFINE rows == Traversal(store).dispatches
  <2>1. UNCHANGED graph /\ UNCHANGED answers
    BY <1>3 DEF ExpandDispatches
  <2>2. /\ edges \subseteq edges'
        /\ visited' = visited \cup Ends(rows)
        /\ queue' = found \cup (Ends(rows) \ visited)
        /\ level' = level + 1 /\ pc' = "calls" /\ pc = "dispatches"
        /\ query' = query /\ query.root \in visited
    BY <1>3 DEF ExpandDispatches, graph, Types1
  <2> HIDE DEF rows
  <2>3. \A f : Expanded(f) => Expanded(f)'
    BY <2>1, <2>2, ExpandedKept
  <2>4. \A f \in visited' \ queue' : Expanded(f)'
    BY <2>2, <2>3 DEF Levels
  <2>5. \A k \in 0..level' : \A p \in [0..k -> Funcs] : CallPath(p, k)' =>
          p[k] \in visited' /\ (k < level' => Expanded(p[k])')
    <3> SUFFICES ASSUME NEW k \in 0..(level + 1), NEW p \in [0..k -> Funcs], CallPath(p, k)
                 PROVE  p[k] \in visited' /\ (k < level + 1 => Expanded(p[k])')
      BY <2>1, <2>2, Fixed
    <3>1. p[k] \in visited /\ (k < level + 1 => Expanded(p[k]))
      BY <2>2 DEF Levels
    <3> QED
      BY <2>2, <2>3, <3>1
  <2>6. query.root \notin queue' /\ level' > 0
    BY <1>0, <2>2 DEF Levels
  <2>7. Levels'
    BY <2>2, <2>4, <2>5, <2>6 DEF Levels
  <2> QED
    BY <2>1, <2>7, CompleteKept
<1>4. CASE Finish
  <2>1. /\ UNCHANGED graph /\ pc' = "idle" /\ pc = "calls" /\ level \in 0..query.depth
        /\ store \in Stores /\ answers \in [Stores -> Answer \cup {Nothing}]
        /\ query.root \in visited /\ query' = query /\ calls' = calls
        /\ ~(level < query.depth /\ queue # {})
    BY <1>4 DEF Finish, Types1, TypeOK, graph
  <2> DEFINE a == [nodes |-> Nodes, edges |-> edges, truncated |-> Traversal(store).truncated]
  <2>2. answers' = [answers EXCEPT ![store] = a]
    BY <1>4 DEF Finish
  <2>3. a.nodes \cup {query.root} = visited /\ a.edges = edges /\ a.truncated = Traversal(store).truncated
    BY <2>1 DEF Nodes
  <2> HIDE DEF a
  <2>4. \A f \in visited \ queue : Expanded(f)
    BY <2>1 DEF Levels
  <2>5. CompleteIn(visited, edges)
    <3> SUFFICES ASSUME NEW k \in 0..query.depth, NEW p \in [0..k -> Funcs], CallPath(p, k)
                 PROVE  p[k] \in visited /\ (k < query.depth => Expanded(p[k]))
      BY DEF CompleteIn, Told, EdgesAt, Expanded
    <3>1. CASE level = query.depth
      BY <2>1, <3>1 DEF Levels
    <3>2. CASE queue = {}
      <4>1. ClosedIn(visited)
        BY <2>4, <3>2, ExpandedIsClosed
      <4>2. p[k] \in visited
        BY <1>0, <2>1, <4>1, PathsStay
      <4> QED
        BY <2>4, <3>2, <4>2
    <3> QED
      BY <1>0, <2>1, <3>1, <3>2
  <2>6. ASSUME query.depth > 0, Traversal(store).truncated = {} PROVE ClosedIn(visited)
    <3>1. query.root \notin queue
      <4>1. level > 0
        BY <1>0, <2>1, <2>6 DEF Levels
      <4> QED
        BY <2>1, <4>1 DEF Levels
    <3>2. queue \subseteq Nodes
      BY <1>0, <3>1 DEF Nodes
    <3>3. ASSUME NEW f \in queue, NEW e \in calls, Accepted(e), Anchor(e) = f, Neighbour(e) \notin visited
          PROVE  FALSE
      <4>1. e \in EdgesAt(calls \cup dispatches, {f})
        BY <3>3 DEF EdgesAt
      <4>2. f \in Ladybug.truncated
        BY <3>2, <3>3, <4>1 DEF Ladybug
      <4>3. f \in Kuzu.truncated
        BY <4>2 DEF Kuzu
      <4>4. f \in Falkor.truncated
        BY <3>3, <4>1 DEF Falkor, Ends
      <4> QED
        BY <2>6, <4>2, <4>3, <4>4 DEF Traversal
    <3> QED
      BY <2>4, <3>3 DEF ClosedIn, CallHop, Expanded
  <2>7. /\ \A L : ClosedIn(L)' <=> ClosedIn(L)
        /\ \A L, E : CompleteIn(L, E)' <=> CompleteIn(L, E)
    BY <2>1, CompleteFixed
  <2>8. ASSUME NEW s \in Answered'
        PROVE  /\ CompleteIn(Listed(s), answers[s].edges)'
               /\ (query.depth > 0 /\ answers[s].truncated = {} => ClosedIn(Listed(s)))'
    <3>1. CASE s = store
      <4>1. answers'[s] = a /\ Listed(s)' = visited
        BY <2>1, <2>2, <2>3, <3>1 DEF Listed
      <4> QED
        BY <2>1, <2>3, <2>5, <2>6, <2>7, <4>1
    <3>2. CASE s # store
      <4>1. s \in Stores /\ answers'[s] = answers[s] /\ s \in Answered /\ Listed(s)' = Listed(s)
        BY <2>1, <2>2, <3>2 DEF Answered, Listed
      <4> QED
        BY <2>1, <2>7, <4>1 DEF Answers1
    <3> QED
      BY <3>1, <3>2
  <2>9. Answers1'
    BY <2>8 DEF Answers1
  <2> QED
    BY <2>1, <2>9 DEF Levels
<1>5. CASE UNCHANGED vars
  <2>1. UNCHANGED graph /\ UNCHANGED answers
    BY <1>5 DEF vars, graph
  <2>2. UNCHANGED <<pc, level, queue, found, visited, edges, query>>
    BY <1>5 DEF vars
  <2>3. \A f : Expanded(f)' <=> Expanded(f)
    BY <1>5, <2>1, <2>2, Fixed DEF Expanded, vars
  <2>4. Levels'
    BY <2>1, <2>2, <2>3, Fixed DEF Levels
  <2> QED
    BY <2>1, <2>4, CompleteKept
<1> QED
  BY <1>1, <1>2, <1>3, <1>4, <1>5 DEF Next

\* No call within the depth is missed, whichever overrides were met first,
\* and an answer without truncated functions misses none at all.
THEOREM AnswersAreComplete == Spec => [](CallsAreComplete /\ TruncationIsTold)
<1>1. Init => CompleteInv
  BY InitTypes, InitComplete DEF CompleteInv
<1>2. CompleteInv /\ [Next]_vars => CompleteInv'
  BY NextTypes, NextComplete DEF CompleteInv
<1>3. CompleteInv => CallsAreComplete /\ TruncationIsTold
  BY AnswersMean DEF CompleteInv
<1> QED
  BY <1>1, <1>2, <1>3, PTL DEF Spec

\* An answer without truncated functions misses no call at all.
THEOREM TruncationIsNamed == Spec => []TruncationIsTold
<1>1. Init => CompleteInv
  BY InitTypes, InitComplete DEF CompleteInv
<1>2. CompleteInv /\ [Next]_vars => CompleteInv'
  BY NextTypes, NextComplete DEF CompleteInv
<1>3. CompleteInv => TruncationIsTold
  BY AnswersMean DEF CompleteInv
<1> QED
  BY <1>1, <1>2, <1>3, PTL DEF Spec

----------------------------------------------------------------------------
(* Agreement.  A question whose answer does not depend on the store is     *)
(* answered along one course: from the root, by steps that are the same in *)
(* every store, to the first state with nothing left to expand.            *)

Alike == ~query.incoming /\ ~query.strict /\ query.depth > 0

\* What a store knows in the middle of an answer.
Here == [pc |-> pc, level |-> level, queue |-> queue, found |-> found,
         prefixes |-> prefixes, visited |-> visited, edges |-> edges]

Start ==
  [pc |-> "calls", level |-> 0, queue |-> {query.root}, found |-> {},
   prefixes |-> [f \in Funcs |-> {}], visited |-> {query.root}, edges |-> {}]

\* The calls a state follows, and the dispatches it keeps.
Followed(x) == {e \in EdgesAt(calls, x.queue) : Accepted(e)}

Kept(x) ==
  {d \in EdgesAt(dispatches, x.found) :
     \/ x.prefixes[Anchor(d)] = {}
     \/ x.prefixes[Anchor(d)] \cap
          (IF Anchor(d) \in x.visited \ {query.root} THEN Within[Anchor(d)] ELSE {}) # {}
     \/ x.prefixes[Anchor(d)] \cap Within[Neighbour(d)] # {}}

AfterCalls(x) ==
  [pc |-> "dispatches", level |-> x.level, queue |-> x.queue,
   found |-> Ends(Followed(x)) \ x.visited,
   prefixes |-> [f \in Funcs |->
                   {e.declared : e \in {r \in Followed(x) : Neighbour(r) = f}} \ {NoType}],
   visited |-> x.visited \cup Ends(Followed(x)),
   edges |-> x.edges \cup {Reported(e, "CALLS") : e \in Followed(x)}]

AfterDispatches(x) ==
  [pc |-> "calls", level |-> x.level + 1,
   queue |-> x.found \cup (Ends(Kept(x)) \ x.visited), found |-> {},
   prefixes |-> x.prefixes,
   visited |-> x.visited \cup Ends(Kept(x)),
   edges |-> x.edges \cup {Reported(d, "DISPATCHES") : d \in Kept(x)}]

After(x) == IF x.pc = "calls" THEN AfterCalls(x) ELSE AfterDispatches(x)

Ended(x) == x.pc = "calls" /\ ~(x.level < query.depth /\ x.queue # {})

AnswerAt(x) ==
  [nodes |-> x.visited \ {query.root}, edges |-> x.edges,
   truncated |-> {f \in x.queue :
                    \E e \in EdgesAt(calls \cup dispatches, {f}) : Neighbour(e) \notin x.visited}]

\* c holds the first n + 1 states of the course.
Course(c, n) ==
  /\ c[0] = Start
  /\ \A i \in 0..(n - 1) : ~Ended(c[i]) /\ c[i + 1] = After(c[i])

OnCourse(x) == \E n \in Nat : \E c : Course(c, n) /\ c[n] = x

\* There is one course.
LEMMA CoursesMeet ==
  ASSUME NEW c, NEW d, NEW m \in Nat, NEW n \in Nat, m <= n, Course(c, m), Course(d, n)
  PROVE  \A i \in 0..m : c[i] = d[i]
<1> DEFINE T == {i \in 0..m : c[i] # d[i]}
<1>1. ASSUME T # {} PROVE FALSE
  <2>1. PICK i \in T : \A j \in T : i <= j
    <3>1. T \subseteq Nat OBVIOUS
    <3> HIDE DEF T
    <3> QED BY <1>1, <3>1, LeastNat
  <2>2. i \in 0..m /\ c[i] # d[i]
    OBVIOUS
  <2>3. i # 0
    BY <2>2 DEF Course
  <2>4. i - 1 \in 0..(m - 1) /\ i - 1 \in 0..(n - 1) /\ (i - 1) + 1 = i /\ i - 1 \in 0..m
    BY <2>2, <2>3
  <2>5. c[i - 1] = d[i - 1]
    <3>1. i - 1 \notin T
      BY <2>1, <2>4
    <3> QED BY <2>4, <3>1
  <2>6. c[i] = After(c[i - 1]) /\ d[i] = After(d[i - 1])
    BY <2>4 DEF Course
  <2> QED BY <2>2, <2>5, <2>6
<1> QED BY <1>1

\* It ends in one state.
LEMMA CourseEnds ==
  ASSUME NEW x, NEW y, OnCourse(x), OnCourse(y), Ended(x), Ended(y)
  PROVE  x = y
<1>1. ASSUME NEW c, NEW d, NEW m \in Nat, NEW n \in Nat, m <= n, Course(c, m), Course(d, n),
             Ended(c[m])
      PROVE  c[m] = d[n]
  <2>1. c[m] = d[m]
    BY <1>1, CoursesMeet
  <2>2. CASE m < n
    <3>1. m \in 0..(n - 1)
      BY <2>2
    <3> QED BY <1>1, <2>1, <3>1 DEF Course
  <2>3. CASE m = n
    BY <2>1, <2>3
  <2> QED BY <1>1, <2>2, <2>3
<1>2. PICK m \in Nat : \E c : Course(c, m) /\ c[m] = x
  BY DEF OnCourse
<1>3. PICK c : Course(c, m) /\ c[m] = x
  BY <1>2
<1>4. PICK n \in Nat : \E d : Course(d, n) /\ d[n] = y
  BY DEF OnCourse
<1>5. PICK d : Course(d, n) /\ d[n] = y
  BY <1>4
<1>6. m <= n \/ n <= m
  OBVIOUS
<1> QED BY <1>1, <1>3, <1>5, <1>6

LEMMA StartOnCourse == OnCourse(Start)
<1> DEFINE c == [i \in 0..0 |-> Start]
<1>1. c[0] = Start
  OBVIOUS
<1>2. Course(c, 0)
  BY <1>1 DEF Course
<1> HIDE DEF c
<1> QED BY <1>1, <1>2 DEF OnCourse

LEMMA AfterOnCourse ==
  ASSUME NEW x, OnCourse(x), ~Ended(x)
  PROVE  OnCourse(After(x))
<1>1. PICK n \in Nat : \E c : Course(c, n) /\ c[n] = x
  BY DEF OnCourse
<1>2. PICK c : Course(c, n) /\ c[n] = x
  BY <1>1
<1> DEFINE d == [i \in 0..(n + 1) |-> IF i = n + 1 THEN After(x) ELSE c[i]]
<1>3. d[n + 1] = After(x) /\ \A i \in 0..n : d[i] = c[i]
  OBVIOUS
<1> HIDE DEF d
<1>4. Course(d, n + 1)
  <2>1. d[0] = Start
    BY <1>2, <1>3 DEF Course
  <2>2. ASSUME NEW i \in 0..n PROVE ~Ended(d[i]) /\ d[i + 1] = After(d[i])
    <3>1. CASE i = n
      BY <1>2, <1>3, <3>1
    <3>2. CASE i \in 0..(n - 1)
      <4>1. d[i] = c[i] /\ d[i + 1] = c[i + 1]
        BY <1>3, <3>2
      <4> QED BY <1>2, <3>2, <4>1 DEF Course
    <3> QED BY <3>1, <3>2
  <2>3. 0..((n + 1) - 1) = 0..n
    OBVIOUS
  <2> QED BY <2>1, <2>2, <2>3 DEF Course
<1> QED BY <1>3, <1>4 DEF OnCourse

\* Asked so, the stores do not differ.
LEMMA StoresAlike ==
  ASSUME TypeOK, Alike, NEW s
  PROVE  /\ pc = "calls" => Traversal(s).prefixes = AfterCalls(Here).prefixes
         /\ Traversal(s).dispatches = Kept(Here)
         /\ query.root \notin queue => Traversal(s).truncated = AnswerAt(Here).truncated
<1>0. (\A e : Accepted(e)) /\ query.root \in Funcs /\ queue \subseteq visited
  BY DEF Alike, Accepted, TypeOK, Questions
<1>1. Level = Followed(Here)
  BY DEF Level, Followed, Here
<1>2. Ladybug.prefixes = AfterCalls(Here).prefixes
  <2>1. \A f \in Funcs : Recorded([e \in Level |-> Neighbour(e)], f)
                           = {e.declared : e \in {r \in Followed(Here) : Neighbour(r) = f}} \ {NoType}
    BY <1>1 DEF Recorded
  <2> QED BY <2>1 DEF Ladybug, AfterCalls
<1>3. Falkor.prefixes = Ladybug.prefixes
  <2>1. \A e : FalkorKey(e) = Neighbour(e)
    BY DEF FalkorKey, Alike
  <2> QED BY <2>1 DEF Falkor, Ladybug
<1>4. \A d : Keeps(d, Anchor(d)) <=>
               \/ prefixes[Anchor(d)] = {}
               \/ prefixes[Anchor(d)] \cap
                    (IF Anchor(d) \in visited \ {query.root} THEN Within[Anchor(d)] ELSE {}) # {}
               \/ prefixes[Anchor(d)] \cap Within[Neighbour(d)] # {}
  BY DEF Keeps, Nodes
<1>5. Ladybug.dispatches = Kept(Here)
  BY <1>0, <1>4 DEF Ladybug, Kept, Here
<1>6. Falkor.dispatches = Kept(Here)
  <2>1. \A d : FalkorOrigin(d) = Anchor(d)
    BY DEF FalkorOrigin, Alike
  <2> QED BY <1>4, <2>1 DEF Falkor, Kept, Here
<1>7. ASSUME query.root \notin queue PROVE Ladybug.truncated = AnswerAt(Here).truncated
  <2>1. queue \cap Nodes = queue
    BY <1>0, <1>7 DEF Nodes
  <2> QED BY <1>0, <2>1 DEF Ladybug, AnswerAt, Here
<1>8. Falkor.truncated = AnswerAt(Here).truncated
  <2>1. \A f : Ends(EdgesAt(calls \cup dispatches, {f})) \ visited # {}
                 <=> \E e \in EdgesAt(calls \cup dispatches, {f}) : Neighbour(e) \notin visited
    BY DEF Ends
  <2> QED BY <2>1 DEF Falkor, AnswerAt, Here
<1> QED BY <1>2, <1>3, <1>5, <1>6, <1>7, <1>8 DEF Traversal, Kuzu

\* Whoever answers is on the course, and answers what its end says.
OneCourse ==
  Alike =>
    /\ pc # "idle" => OnCourse(Here)
    /\ \A s \in Answered :
         \E x : OnCourse(x) /\ Ended(x) /\ answers[s] = AnswerAt(x)

AgreeInv == CompleteInv /\ OneCourse

\* The course is the question's.
LEMMA CourseFixed ==
  ASSUME UNCHANGED graph
  PROVE  /\ \A x : OnCourse(x)' <=> OnCourse(x)
         /\ \A x : Ended(x)' <=> Ended(x)
         /\ \A x : AnswerAt(x)' = AnswerAt(x)
         /\ Alike' <=> Alike
<1>1. query' = query /\ calls' = calls /\ dispatches' = dispatches
  BY DEF graph
<1>2. \A set, S : EdgesAt(set, S)' = EdgesAt(set, S)
  BY Fixed DEF EdgesAt
<1>3. \A set : Ends(set)' = Ends(set)
  BY Fixed DEF Ends
<1>4. \A x : Followed(x)' = Followed(x) /\ Kept(x)' = Kept(x)
  BY <1>1, <1>2, Fixed DEF Followed, Kept
<1>5. \A x : After(x)' = After(x)
  <2>1. \A x : AfterCalls(x)' = AfterCalls(x)
    <3> TAKE x
    <3>1. Followed(x)' = Followed(x) /\ Ends(Followed(x))' = Ends(Followed(x))
      BY <1>3, <1>4
    <3>2. {Reported(e, "CALLS")' : e \in Followed(x)'} = {Reported(e, "CALLS") : e \in Followed(x)}
      BY <1>4, Fixed
    <3>3. \A f : {r \in Followed(x)' : Neighbour(r)' = f} = {r \in Followed(x) : Neighbour(r) = f}
      BY <1>4, Fixed
    <3> QED BY <3>1, <3>2, <3>3 DEF AfterCalls
  <2>2. \A x : AfterDispatches(x)' = AfterDispatches(x)
    <3> TAKE x
    <3>1. Kept(x)' = Kept(x) /\ Ends(Kept(x))' = Ends(Kept(x))
      BY <1>3, <1>4
    <3>2. {Reported(d, "DISPATCHES")' : d \in Kept(x)'} = {Reported(d, "DISPATCHES") : d \in Kept(x)}
      BY <1>4, Fixed
    <3> QED BY <3>1, <3>2 DEF AfterDispatches
  <2> QED BY <2>1, <2>2 DEF After
<1>6. \A x : Ended(x)' <=> Ended(x)
  BY <1>1 DEF Ended
<1>7. \A c, n : Course(c, n)' <=> Course(c, n)
  BY <1>1, <1>5, <1>6 DEF Course, Start
<1>8. \A x : OnCourse(x)' <=> OnCourse(x)
  BY <1>7 DEF OnCourse
<1>9. \A x : AnswerAt(x)' = AnswerAt(x)
  BY <1>1, <1>2, Fixed DEF AnswerAt
<1> QED BY <1>1, <1>6, <1>8, <1>9 DEF Alike

LEMMA GraphStays == [Next]_vars => UNCHANGED graph
<1> SUFFICES ASSUME [Next]_vars PROVE UNCHANGED graph
  OBVIOUS
<1>1. ASSUME NEW s \in Stores, Ask(s) PROVE UNCHANGED graph
  BY <1>1 DEF Ask
<1>2. CASE ExpandCalls
  BY <1>2 DEF ExpandCalls
<1>3. CASE ExpandDispatches
  BY <1>3 DEF ExpandDispatches
<1>4. CASE Finish
  BY <1>4 DEF Finish
<1>5. CASE UNCHANGED vars
  BY <1>5 DEF vars, graph
<1> QED BY <1>1, <1>2, <1>3, <1>4, <1>5 DEF Next

LEMMA InitAgree == Init => OneCourse
BY NothingAssumption DEF Init, OneCourse, Answered

LEMMA NextAgree == AgreeInv /\ [Next]_vars => OneCourse'
<1> SUFFICES ASSUME AgreeInv, [Next]_vars, Alike PROVE OneCourse'
  <2> SUFFICES ASSUME AgreeInv, [Next]_vars, Alike' PROVE Alike
    BY DEF OneCourse
  <2> QED BY GraphStays, CourseFixed
<1>0. /\ UNCHANGED graph /\ TypeOK /\ Types1
      /\ (pc # "idle" => OnCourse(Here))
      /\ \A s \in Answered : \E x : OnCourse(x) /\ Ended(x) /\ answers[s] = AnswerAt(x)
  BY GraphStays DEF AgreeInv, OneCourse, CompleteInv, Types1
\* Steps that give no answer.
<1>a. ASSUME UNCHANGED answers, pc' # "idle" => OnCourse(Here') PROVE OneCourse'
  <2>1. Answered' = Answered
    BY <1>a DEF Answered
  <2>2. (pc # "idle" => OnCourse(Here))'
    BY <1>0, <1>a, CourseFixed
  <2>3. \A s \in Answered' : \E x : OnCourse(x)' /\ Ended(x)' /\ answers'[s] = AnswerAt(x)'
    BY <1>0, <1>a, <2>1, CourseFixed
  <2> QED BY <2>2, <2>3 DEF OneCourse
<1>1. ASSUME NEW s \in Stores, Ask(s) PROVE OneCourse'
  <2>1. Here' = Start /\ UNCHANGED answers
    BY <1>1 DEF Ask, Here, Start
  <2> QED BY <1>a, <2>1, StartOnCourse
<1>2. CASE ExpandCalls
  <2>1. ~Ended(Here) /\ pc = "calls" /\ Here.pc = "calls" /\ UNCHANGED answers
    BY <1>2 DEF ExpandCalls, Ended, Here
  <2>2. Here' = AfterCalls(Here)
    <3>1. {e \in EdgesAt(calls, queue) : Accepted(e)} = Followed(Here)
      BY DEF Followed, Here
    <3>2. Traversal(store).prefixes = AfterCalls(Here).prefixes
      BY <1>0, <2>1, StoresAlike
    <3>3. AfterCalls(Here).prefixes
            = [f \in Funcs |-> {e.declared : e \in {r \in Followed(Here) : Neighbour(r) = f}} \ {NoType}]
      BY DEF AfterCalls
    <3> QED BY <1>2, <3>1, <3>2, <3>3 DEF ExpandCalls, AfterCalls, Here
  <2>3. OnCourse(Here')
    BY <1>0, <2>1, <2>2, AfterOnCourse DEF After
  <2> QED BY <1>a, <2>1, <2>3
<1>3. CASE ExpandDispatches
  <2>1. ~Ended(Here) /\ pc = "dispatches" /\ Here.pc = "dispatches" /\ UNCHANGED answers
    BY <1>3 DEF ExpandDispatches, Ended, Here
  <2>2. Traversal(store).dispatches = Kept(Here)
    BY <1>0, StoresAlike
  <2>3. Here' = AfterDispatches(Here)
    BY <1>3, <2>2 DEF ExpandDispatches, AfterDispatches, Here
  <2>4. OnCourse(Here')
    BY <1>0, <2>1, <2>3, AfterOnCourse DEF After
  <2> QED BY <1>a, <2>1, <2>4
<1>4. CASE Finish
  <2>1. /\ pc = "calls" /\ pc' = "idle" /\ ~(level < query.depth /\ queue # {})
        /\ answers' = [answers EXCEPT ![store] =
             [nodes |-> Nodes, edges |-> edges, truncated |-> Traversal(store).truncated]]
        /\ store \in Stores /\ level \in 0..query.depth /\ query.depth \in Nat
        /\ answers \in [Stores -> Answer \cup {Nothing}]
    BY <1>0, <1>4, TraversalAssumption DEF Finish, Types1, TypeOK, Questions
  <2>2. query.root \notin queue
    <3>1. query.depth > 0 /\ Levels
      BY DEF Alike, AgreeInv, CompleteInv
    <3>2. level > 0
      BY <2>1, <3>1 DEF Levels
    <3> QED BY <2>1, <3>1, <3>2 DEF Levels
  <2>3. Traversal(store).truncated = AnswerAt(Here).truncated
    BY <1>0, <2>2, StoresAlike
  <2>4. [nodes |-> Nodes, edges |-> edges, truncated |-> Traversal(store).truncated] = AnswerAt(Here)
    BY <2>3 DEF AnswerAt, Here, Nodes
  <2>5. OnCourse(Here) /\ Ended(Here)
    BY <1>0, <2>1 DEF Ended, Here
  <2>6. ASSUME NEW s \in Answered'
        PROVE  \E x : OnCourse(x)' /\ Ended(x)' /\ answers'[s] = AnswerAt(x)'
    <3>1. CASE s = store
      <4>1. answers'[s] = AnswerAt(Here)
        BY <2>1, <2>4, <3>1
      <4> DEFINE h == Here
      <4>2. OnCourse(h) /\ Ended(h) /\ answers'[s] = AnswerAt(h)
        BY <2>5, <4>1
      <4> HIDE DEF h
      <4> QED BY <1>0, <4>2, CourseFixed
    <3>2. CASE s # store
      <4>1. s \in Stores /\ answers'[s] = answers[s] /\ s \in Answered
        BY <2>1, <3>2 DEF Answered
      <4> QED BY <1>0, <4>1, CourseFixed
    <3> QED BY <3>1, <3>2
  <2> QED BY <2>1, <2>6 DEF OneCourse
<1>5. CASE UNCHANGED vars
  BY <1>0, <1>5, <1>a DEF vars, Here
<1> QED BY <1>1, <1>2, <1>3, <1>4, <1>5 DEF Next

\* Asked for callees without a threshold, every two stores answer alike,
\* whatever the graph, the root and the depth.
THEOREM StoresAnswerAlike == Spec => []StoresAgree
<1>1. Init => AgreeInv
  BY InitTypes, InitComplete, InitAgree DEF AgreeInv, CompleteInv
<1>2. AgreeInv /\ [Next]_vars => AgreeInv'
  BY NextTypes, NextComplete, NextAgree DEF AgreeInv, CompleteInv
<1>3. AgreeInv => StoresAgree
  <2> SUFFICES ASSUME AgreeInv, Alike, NEW s \in Answered, NEW t \in Answered
               PROVE  answers[s] = answers[t]
    BY DEF StoresAgree, Alike
  <2>1. PICK x : OnCourse(x) /\ Ended(x) /\ answers[s] = AnswerAt(x)
    BY DEF AgreeInv, OneCourse
  <2>2. PICK y : OnCourse(y) /\ Ended(y) /\ answers[t] = AnswerAt(y)
    BY DEF AgreeInv, OneCourse
  <2> QED BY <2>1, <2>2, CourseEnds
<1> QED
  BY <1>1, <1>2, <1>3, PTL DEF Spec

=============================================================================
