--------------------------- MODULE AnalysisProofs ---------------------------
(***************************************************************************)
(* Proofs about Analysis, for every call graph, depth, number of runs and *)
(* order of events: a trace is a tree that only the limit of depth cuts,  *)
(* and processes are current while the status says that they are.         *)
(***************************************************************************)
EXTENDS Analysis, TLAPS, SequenceTheorems

----------------------------------------------------------------------------
(* A trace.                                                                *)

Entry(f) == [entry |-> f, func |-> f, depth |-> 0]

StepAt(i) == [entry |-> stack[1], func |-> stack[i], depth |-> i - 1]

\* All trusted calls of a step lead to steps.
Followed(s) ==
  \A c \in forest : c.from = s.func /\ c.trusted =>
    \E t \in traced : t.entry = s.entry /\ t.func = c.to

OnStack(s) == \E i \in 1..Len(stack) : s = StepAt(i)

\* The functions on the stack are steps, one level below one another, a step
\* above the limit is on the stack until its calls are followed, and an
\* entry is traced once.
StackInv ==
  /\ an \in {"idle", "classify", "entries", "clear"} => traced = {}
  /\ an # "trace" => stack = <<>>
  /\ forest \subseteq Call /\ todo \subseteq Funcs
  /\ stack \in Seq(Funcs)
  /\ \A s \in traced : s.depth \in Nat /\ s.func \in Funcs /\ s.entry \in Funcs
  /\ \A i \in 1..Len(stack) : StepAt(i) \in traced
  /\ \A s \in traced : s.entry \notin todo
  /\ \A s \in traced : s.depth < MaxDepth => Followed(s) \/ OnStack(s)

TraceInv == StackInv /\ TraceIsTree /\ calls \subseteq Call /\ program \in Programs

LEMMA ProgramsAreCalls == \A p \in Programs : p \subseteq Call
BY AnalysisAssumption

LEMMA TraceInit == Init => TraceInv
BY DEF Init, TraceInv, StackInv, TraceIsTree

\* Nothing traced, nothing to show.
LEMMA NoTrace ==
  ASSUME traced' = {}, stack' = <<>>, forest' \subseteq Call, todo' \subseteq Funcs
  PROVE  StackInv' /\ TraceIsTree'
BY DEF StackInv, TraceIsTree

\* Steps that leave the trace as it is.
LEMMA SameTrace ==
  ASSUME StackInv, TraceIsTree, UNCHANGED <<forest, stack, traced, todo>>,
         an' \in {"idle", "classify", "entries", "clear"} =>
           an \in {"idle", "classify", "entries", "clear"},
         an' # "trace" => stack = <<>>
  PROVE  StackInv' /\ TraceIsTree'
<1>1. StackInv'
  BY DEF StackInv, StepAt, Followed, OnStack
<1>2. TraceIsTree'
  BY DEF TraceIsTree, Hangs
<1> QED BY <1>1, <1>2

LEMMA LoadedAreCalls ==
  ASSUME calls \subseteq Call
  PROVE  Loaded \subseteq Call
BY DEF Loaded, Call

LEMMA TraceStep == TraceInv /\ [Next]_vars => TraceInv'
<1> SUFFICES ASSUME TraceInv, [Next]_vars PROVE TraceInv'
  OBVIOUS
<1> USE DEF TraceInv
\* Steps of others.
<1>a. ASSUME UNCHANGED analyzer, calls' \subseteq Call, program' \in Programs PROVE TraceInv'
  <2>1. UNCHANGED <<an, forest, stack, traced, todo>>
    BY <1>a DEF analyzer
  <2> QED BY <1>a, <2>1, SameTrace DEF StackInv
\* Steps of the analysis that find nothing.
<1>b. ASSUME UNCHANGED <<forest, stack, traced, todo, calls, program>>,
             an' \in {"idle", "classify", "entries", "clear"} =>
               an \in {"idle", "classify", "entries", "clear"},
             an' # "trace" => stack = <<>>
      PROVE  TraceInv'
  BY <1>b, SameTrace
<1>1. CASE Edit
  BY <1>1, <1>a DEF Edit, graph
<1>2. CASE Tick
  BY <1>2, <1>a DEF Tick, graph
<1>3. ASSUME NEW full \in BOOLEAN, StartIndex(full) PROVE TraceInv'
  BY <1>3, <1>a DEF StartIndex
<1>4. CASE WriteIndex
  <2>1. program \subseteq Call => calls' \subseteq Call
    BY <1>4 DEF WriteIndex
  <2> QED BY <1>4, <1>a, <2>1, ProgramsAreCalls DEF WriteIndex, tree
<1>5. CASE MarkIndexed
  BY <1>5, <1>a DEF MarkIndexed, graph, tree
<1>6. ASSUME NEW s \in Scopes, NEW force \in BOOLEAN, StartAnalyze(s, force) PROVE TraceInv'
  <2>1. /\ an = "idle" /\ UNCHANGED <<program, calls, stack, traced, todo>> /\ forest' = Loaded
        /\ stack = <<>> /\ traced = {}
    BY <1>6 DEF StartAnalyze, graph, StackInv
  <2> QED BY <2>1, LoadedAreCalls, NoTrace DEF StackInv
<1>7. CASE Classify
  BY <1>7, <1>b DEF Classify, graph, tree, StackInv
<1>8. CASE WriteEntryPoints
  BY <1>8, <1>b DEF WriteEntryPoints, tree, StackInv
<1>9. CASE ClearAnalysisData
  <2>1. /\ UNCHANGED <<program, forest, calls, stack, traced>> /\ stack = <<>> /\ traced = {}
        /\ todo' \subseteq Funcs
    BY <1>9 DEF ClearAnalysisData, tree, StackInv
  <2> QED BY <2>1, NoTrace DEF StackInv
<1>10. CASE TraceEntry
  <2>1. PICK f \in todo : /\ todo' = todo \ {f} /\ stack' = <<f>>
                          /\ traced' = traced \cup {Entry(f)}
    BY <1>10 DEF TraceEntry, Entry
  <2>2. /\ UNCHANGED <<an, forest, calls, program>> /\ an = "trace" /\ stack = <<>> /\ f \in Funcs
    BY <1>10 DEF TraceEntry, graph, tree, StackInv
  <2>3. stack' \in Seq(Funcs) /\ Len(stack') = 1 /\ stack'[1] = f /\ Len(stack) = 0
    BY <2>1, <2>2
  <2>4. \A s \in traced : s.entry # f
    BY <2>1 DEF StackInv
  <2>5. /\ Entry(f) \in traced' /\ Entry(f).entry = f /\ Entry(f).func = f /\ Entry(f).depth = 0
    BY <2>1 DEF Entry
  <2>6. StepAt(1)' = Entry(f)
    BY <2>3 DEF StepAt, Entry
  <2>7. StackInv'
    <3>1. \A s \in traced' : s.depth \in Nat /\ s.func \in Funcs /\ s.entry \in Funcs /\ s.entry \notin todo'
      BY <2>1, <2>2, <2>5 DEF StackInv
    <3>2. \A i \in 1..Len(stack') : StepAt(i)' \in traced'
      BY <2>3, <2>5, <2>6
    <3>3. ASSUME NEW s \in traced', s.depth < MaxDepth PROVE Followed(s)' \/ OnStack(s)'
      <4>1. CASE s = Entry(f)
        BY <2>3, <2>6, <4>1 DEF OnStack
      <4>2. CASE s \in traced
        <5>1. Followed(s) \/ OnStack(s)
          BY <3>3, <4>2 DEF StackInv
        <5>2. Followed(s)
          BY <2>3, <5>1 DEF OnStack
        <5> QED BY <2>1, <2>2, <5>2 DEF Followed
      <4> QED BY <2>1, <4>1, <4>2
    <3> QED BY <2>1, <2>2, <2>3, <3>1, <3>2, <3>3 DEF StackInv
  <2>8. TraceIsTree'
    <3> SUFFICES ASSUME NEW s \in traced'
                 PROVE  /\ IF s.depth = 0 THEN s.func = s.entry ELSE Hangs(s, traced', forest)
                        /\ \A t \in traced' : s.entry = t.entry /\ s.func = t.func => s = t
      BY <2>2 DEF TraceIsTree, Hangs
    <3>1. CASE s = Entry(f)
      BY <2>1, <2>4, <2>5, <3>1
    <3>2. CASE s \in traced
      <4>1. IF s.depth = 0 THEN s.func = s.entry ELSE Hangs(s, traced, forest)
        BY <3>2 DEF TraceIsTree
      <4>2. Hangs(s, traced, forest) => Hangs(s, traced', forest)
        BY <2>1 DEF Hangs
      <4>3. \A t \in traced : s.entry = t.entry /\ s.func = t.func => s = t
        BY <3>2 DEF TraceIsTree
      <4> QED BY <2>1, <2>4, <2>5, <3>2, <4>1, <4>2, <4>3
    <3> QED BY <2>1, <3>1, <3>2
  <2> QED BY <2>2, <2>7, <2>8
<1>11. CASE Descend
  <2>1. PICK g \in Unvisited(stack[Len(stack)]) :
          /\ traced' = traced \cup {[entry |-> stack[1], func |-> g, depth |-> Len(stack)]}
          /\ stack' = Append(stack, g)
    BY <1>11 DEF Descend
  <2>2. /\ UNCHANGED <<an, forest, todo, calls, program>> /\ an = "trace" /\ stack # <<>>
        /\ stack \in Seq(Funcs) /\ Len(stack) \in Nat \ {0}
    BY <1>11 DEF Descend, graph, tree, StackInv
  <2> DEFINE new == [entry |-> stack[1], func |-> g, depth |-> Len(stack)]
  <2>3. PICK c \in forest : c.from = stack[Len(stack)] /\ c.trusted /\ c.to = g
    BY DEF Unvisited
  <2>4. g \in Funcs
    BY <2>3 DEF StackInv, Call
  <2>5. /\ stack' \in Seq(Funcs) /\ Len(stack') = Len(stack) + 1
        /\ \A i \in 1..Len(stack) : stack'[i] = stack[i]
        /\ stack'[Len(stack) + 1] = g /\ stack'[1] = stack[1] /\ stack[1] \in Funcs
    BY <2>1, <2>2, <2>4
  <2>6. /\ \A i \in 1..Len(stack) : StepAt(i)' = StepAt(i)
        /\ \A n : n = Len(stack) + 1 => StepAt(n)' = new
    BY <2>2, <2>5 DEF StepAt
  <2>7. new.entry = stack[1] /\ new.func = g /\ new.depth = Len(stack)
    OBVIOUS
  <2>8. \A s \in traced : ~(s.entry = stack[1] /\ s.func = g)
    BY <2>1 DEF Unvisited, Visited
  <2>9. StepAt(1) \in traced /\ StepAt(Len(stack)) \in traced
    BY <2>2 DEF StackInv
  <2>10. traced' = traced \cup {new} /\ new \in traced'
    BY <2>1
  <2> HIDE DEF new
  <2>11. StackInv'
    <3>1. new.entry \notin todo
      BY <2>7, <2>9 DEF StackInv, StepAt
    <3>2. \A s \in traced' : s.depth \in Nat /\ s.func \in Funcs /\ s.entry \in Funcs /\ s.entry \notin todo'
      BY <2>2, <2>4, <2>5, <2>7, <2>10, <3>1 DEF StackInv
    <3>3. \A i \in 1..Len(stack') : StepAt(i)' \in traced'
      <4>1. \A i \in 1..Len(stack) : StepAt(i)' \in traced'
        BY <2>6, <2>10 DEF StackInv
      <4>2. \A i \in 1..Len(stack') : i \in 1..Len(stack) \/ i = Len(stack) + 1
        BY <2>2, <2>5
      <4> QED BY <2>6, <2>10, <4>1, <4>2
    <3>4. ASSUME NEW s \in traced', s.depth < MaxDepth PROVE Followed(s)' \/ OnStack(s)'
      <4>1. CASE s = new
        <5>1. PICK n \in 1..Len(stack') : n = Len(stack) + 1
          BY <2>2, <2>5
        <5> QED BY <2>6, <4>1, <5>1 DEF OnStack
      <4>2. CASE s \in traced
        <5>1. Followed(s) \/ OnStack(s)
          BY <3>4, <4>2 DEF StackInv
        <5>2. Followed(s) => Followed(s)'
          BY <2>2, <2>10 DEF Followed
        <5>3. OnStack(s) => OnStack(s)'
          <6>1. \A i \in 1..Len(stack) : i \in 1..Len(stack')
            BY <2>2, <2>5
          <6> QED BY <2>6, <6>1 DEF OnStack
        <5> QED BY <5>1, <5>2, <5>3
      <4> QED BY <2>10, <4>1, <4>2
    <3> QED BY <2>2, <2>5, <3>2, <3>3, <3>4 DEF StackInv
  <2>12. Hangs(new, traced', forest)
    <3>1. /\ StepAt(Len(stack)).entry = stack[1] /\ StepAt(Len(stack)).func = stack[Len(stack)]
          /\ StepAt(Len(stack)).depth + 1 = Len(stack)
      BY <2>2 DEF StepAt
    <3> QED BY <2>3, <2>7, <2>9, <2>10, <3>1 DEF Hangs
  <2>13. TraceIsTree'
    <3> SUFFICES ASSUME NEW s \in traced'
                 PROVE  /\ IF s.depth = 0 THEN s.func = s.entry ELSE Hangs(s, traced', forest)
                        /\ \A t \in traced' : s.entry = t.entry /\ s.func = t.func => s = t
      BY <2>2 DEF TraceIsTree, Hangs
    <3>1. CASE s = new
      BY <2>2, <2>7, <2>8, <2>10, <2>12, <3>1
    <3>2. CASE s \in traced
      <4>1. IF s.depth = 0 THEN s.func = s.entry ELSE Hangs(s, traced, forest)
        BY <3>2 DEF TraceIsTree
      <4>2. Hangs(s, traced, forest) => Hangs(s, traced', forest)
        BY <2>10 DEF Hangs
      <4>3. \A t \in traced : s.entry = t.entry /\ s.func = t.func => s = t
        BY <3>2 DEF TraceIsTree
      <4> QED BY <2>7, <2>8, <2>10, <3>2, <4>1, <4>2, <4>3
    <3> QED BY <2>10, <3>1, <3>2
  <2> QED BY <2>2, <2>11, <2>13
<1>12. CASE Return
  <2>1. /\ UNCHANGED <<an, forest, todo, calls, program, traced>> /\ an = "trace" /\ stack # <<>>
        /\ stack \in Seq(Funcs) /\ Len(stack) \in Nat \ {0}
        /\ stack' = SubSeq(stack, 1, Len(stack) - 1)
        /\ Len(stack) > MaxDepth \/ Unvisited(stack[Len(stack)]) = {}
    BY <1>12 DEF Return, graph, tree, StackInv
  <2>2. /\ stack' \in Seq(Funcs) /\ Len(stack') = Len(stack) - 1
        /\ \A i \in 1..(Len(stack) - 1) : stack'[i] = stack[i]
    <3>1. 1 \in Int /\ Len(stack) - 1 \in Int /\ \A i \in 1..(Len(stack) - 1) : stack[i] \in Funcs
      BY <2>1
    <3> HIDE DEF TraceInv
    <3>2. /\ SubSeq(stack, 1, Len(stack) - 1) \in Seq(Funcs)
          /\ Len(SubSeq(stack, 1, Len(stack) - 1))
               = IF 1 <= Len(stack) - 1 THEN Len(stack) - 1 - 1 + 1 ELSE 0
          /\ \A i \in 1..(Len(stack) - 1 - 1 + 1) :
               SubSeq(stack, 1, Len(stack) - 1)[i] = stack[1 + i - 1]
      BY <3>1, SubSeqProperties
    <3> DEFINE n == Len(stack)
    <3>3. /\ n - 1 - 1 + 1 = n - 1
          /\ (IF 1 <= n - 1 THEN n - 1 - 1 + 1 ELSE 0) = n - 1
          /\ \A i \in 1..(n - 1) : 1 + i - 1 = i
      <4>1. n \in Nat \ {0}
        BY <2>1
      <4> HIDE DEF n
      <4> QED BY <4>1
    <3>4. stack' \in Seq(Funcs) /\ Len(stack') = n - 1
      BY <2>1, <3>2, <3>3
    <3>5. \A i \in 1..(n - 1) : stack'[i] = stack[i]
      BY <2>1, <3>2, <3>3
    <3> QED BY <3>4, <3>5
  <2>3. \A i \in 1..Len(stack') : i \in 1..Len(stack) /\ StepAt(i)' = StepAt(i)
    <3> SUFFICES ASSUME NEW i \in 1..Len(stack') PROVE i \in 1..Len(stack) /\ StepAt(i)' = StepAt(i)
      OBVIOUS
    <3>1. i \in 1..Len(stack) /\ i \in 1..(Len(stack) - 1) /\ 1 \in 1..(Len(stack) - 1)
      BY <2>1, <2>2
    <3>2. stack'[i] = stack[i] /\ stack'[1] = stack[1]
      BY <2>2, <3>1
    <3> QED BY <3>1, <3>2 DEF StepAt
  <2>4. StackInv'
    <3>1. \A i \in 1..Len(stack') : StepAt(i)' \in traced'
      BY <2>1, <2>3 DEF StackInv
    <3>2. ASSUME NEW s \in traced', s.depth < MaxDepth PROVE Followed(s)' \/ OnStack(s)'
      <4>1. s \in traced /\ (Followed(s) \/ OnStack(s))
        BY <2>1, <3>2 DEF StackInv
      <4>2. CASE Followed(s)
        BY <2>1, <4>2 DEF Followed
      <4>3. ASSUME NEW i \in 1..Len(stack), s = StepAt(i), i # Len(stack) PROVE OnStack(s)'
        <5>1. i \in 1..Len(stack')
          BY <2>1, <2>2, <4>3
        <5> QED BY <2>3, <4>3, <5>1 DEF OnStack
      <4>4. CASE s = StepAt(Len(stack))
        <5>1. s.depth = Len(stack) - 1 /\ s.func = stack[Len(stack)] /\ s.entry = stack[1]
          BY <4>4 DEF StepAt
        <5>2. Unvisited(stack[Len(stack)]) = {}
          BY <2>1, <3>2, <5>1, AnalysisAssumption
        <5>3. Followed(s)
          BY <5>1, <5>2 DEF Followed, Unvisited, Visited
        <5> QED BY <2>1, <5>3 DEF Followed
      <4> QED BY <4>1, <4>2, <4>3, <4>4 DEF OnStack
    <3> QED BY <2>1, <2>2, <3>1, <3>2 DEF StackInv
  <2>5. TraceIsTree'
    BY <2>1 DEF TraceIsTree, Hangs
  <2> QED BY <2>1, <2>4, <2>5
<1>13. CASE CreateProcesses
  BY <1>13, <1>b DEF CreateProcesses, tree
<1>14. CASE WriteSteps
  BY <1>14, <1>b DEF WriteSteps, tree, StackInv
<1>15. CASE MarkAnalyzed
  <2>1. UNCHANGED <<program, calls>>
    BY <1>15 DEF MarkAnalyzed, tree, graph
  <2>2. CASE AnalyzerGone
    BY <2>1, <2>2, NoTrace DEF AnalyzerGone
  <2>3. CASE /\ UNCHANGED <<scope, forest, roots, todo, stack, traced>>
             /\ an \in {"read", "truncate"} /\ an' \in {"truncate", "fill"}
    BY <2>1, <2>3, <1>b DEF StackInv
  <2> QED BY <1>15, <2>2, <2>3 DEF MarkAnalyzed
<1>16. CASE Abort
  <2>1. UNCHANGED <<program, calls>>
    BY <1>16 DEF Abort, tree, graph
  <2>2. CASE AnalyzerGone
    BY <2>1, <2>2, NoTrace DEF AnalyzerGone
  <2>3. CASE UNCHANGED analyzer
    BY <2>1, <2>3, <1>a
  <2> QED BY <1>16, <2>2, <2>3 DEF Abort
<1>17. CASE UNCHANGED vars
  BY <1>17, <1>a DEF vars, graph, tree
<1> QED
  BY <1>1, <1>2, <1>3, <1>4, <1>5, <1>6, <1>7, <1>8, <1>9, <1>10, <1>11, <1>12, <1>13,
     <1>14, <1>15, <1>16, <1>17 DEF Next, Analyze

\* However calls are followed, and whatever the depth, the trace of an entry
\* is a tree: each function once, at the depth of a chain of trusted calls.
THEOREM TracesAreTrees == Spec => []TraceIsTree
<1>1. TraceInv => TraceIsTree
  BY DEF TraceInv
<1> QED
  BY <1>1, TraceInit, TraceStep, PTL DEF Spec

\* When the steps are written, only the limit of depth has cut a trace.
THEOREM DepthAloneCuts == Spec => []OnlyDepthCuts
<1>1. TraceInv => OnlyDepthCuts
  <2> SUFFICES ASSUME StackInv, an = "steps" PROVE Closed(traced, forest)
    BY DEF TraceInv, OnlyDepthCuts
  <2>1. \A s \in traced : ~OnStack(s)
    BY DEF StackInv, OnStack
  <2> QED BY <2>1 DEF StackInv, Followed, Closed
<1> QED
  BY <1>1, TraceInit, TraceStep, PTL DEF Spec

----------------------------------------------------------------------------
(* Processes that are current.                                             *)

Stamp == [indexed : Nat, analyzed : Nat]

\* What CurrentWhenFresh says of a project whose status is fresh.
Current ==
  /\ \A f \in present :
       Handles(f) \/ ((\E c \in calls : c.from = f) /\ (\A c \in calls : c.to # f)) =>
       /\ entryType[f] # Nothing
       /\ entryType[f] \notin Untraced => f \in processes
  /\ \A e \in processes : Entry(e) \in steps
  /\ \A s \in steps : s.depth > 0 => Hangs(s, steps, calls)
  /\ Closed(steps, calls)

StatusInv ==
  /\ now \in Nat /\ status \in Stamp \cup {Nothing}
  /\ seen \in [{"ix", "an"} -> Stamp]

EndsInv ==
  /\ present \subseteq Funcs /\ batch \subseteq Funcs
  /\ \A c \in calls : c.from \in present /\ c.to \in present

\* An index run ends later than the last analysis: its mark asks for another.
IndexedLast ==
  /\ ix \in {"write", "read"} => ReadStatus.analyzed < now
  /\ ix \in {"truncate", "fill"} => seen["ix"].analyzed < now

Traceable(f) == f \in Roots /\ EntryType(f) \notin Untraced

\* An analysis, from the forest to the mark: what is written so far is of
\* the calls in the graph.
Underway ==
  /\ an # "idle" => forest = calls /\ scope = "all"
  /\ an \in {"entries", "clear"} =>
       roots = [f \in Funcs |-> IF f \in Roots THEN EntryType(f) ELSE Nothing]
  /\ an \in {"clear", "trace", "steps"} => \A f \in Roots : entryType[f] = EntryType(f)
  /\ an \in {"trace", "steps"} =>
       /\ steps = {}
       /\ \A f \in Roots : Traceable(f) => f \in todo \/ Entry(f) \in traced
       /\ \A s \in traced : s.entry \in Roots /\ Entry(s.entry) \in traced
       /\ todo \subseteq Roots
  /\ an = "trace" => processes = {}
  /\ an = "steps" => processes = {s.entry : s \in traced} /\ todo = {}
  /\ an \in {"read", "truncate", "fill"} => Current

FreshInv ==
  /\ StatusInv /\ EndsInv
  /\ careful => /\ ix = "idle" \/ an = "idle"
                /\ IndexedLast /\ Underway
                /\ Idle /\ ~NeedsAnalyze => Current

LEMMA FreshInit == Init => FreshInv
BY DEF Init, FreshInv, StatusInv, EndsInv, IndexedLast, Underway, Never, Stamp, Idle,
       NeedsAnalyze, ReadStatus

LEMMA ReadStamp == StatusInv => ReadStatus \in Stamp
BY DEF StatusInv, ReadStatus, Never, Stamp

LEMMA SameCurrent == UNCHANGED graph => Current' = Current
BY DEF graph, Current, Entry, Closed, Hangs

LEMMA SameRoots ==
  ASSUME UNCHANGED <<present, forest>>
  PROVE  /\ Roots' = Roots
         /\ \A f : EntryType(f)' = EntryType(f) /\ Traceable(f)' = Traceable(f)
<1>1. Roots' = Roots /\ \A f : EntryType(f)' = EntryType(f)
  BY DEF Roots, InForest, Called, EntryType
<1> QED BY <1>1 DEF Traceable

LEMMA EntryTypes == \A f : EntryType(f) \in Types /\ EntryType(f) # Nothing
BY NothingAssumption DEF EntryType, Types

\* What is current after the analysis has written its steps.
LEMMA AllWritten ==
  ASSUME TraceInv, EndsInv, Underway, an = "steps", UNCHANGED <<present, calls, entryType, processes>>,
         steps' = steps \cup {s \in traced : s.func \in present /\ s.entry \in processes}
  PROVE  Current'
<1>1. /\ forest = calls /\ steps = {} /\ processes = {s.entry : s \in traced} /\ todo = {}
      /\ \A f \in Roots : entryType[f] = EntryType(f)
      /\ \A f \in Roots : Traceable(f) => Entry(f) \in traced
      /\ \A s \in traced : s.entry \in Roots /\ Entry(s.entry) \in traced
  BY DEF Underway
<1>2. ASSUME NEW s \in traced PROVE s.func \in present
  <2>1. CASE s.depth = 0
    BY <1>1, <1>2, <2>1 DEF TraceInv, TraceIsTree, Roots
  <2>2. CASE s.depth # 0
    BY <1>1, <1>2, <2>2 DEF TraceInv, TraceIsTree, Hangs, EndsInv
  <2> QED BY <2>1, <2>2
<1>3. steps' = traced
  BY <1>1, <1>2
<1>4. ASSUME NEW f \in present,
             Handles(f) \/ ((\E c \in calls : c.from = f) /\ (\A c \in calls : c.to # f))
      PROVE  entryType[f] # Nothing /\ (entryType[f] \notin Untraced => f \in processes)
  <2>1. f \in Roots
    BY <1>1, <1>4 DEF Roots, InForest, Called
  <2>2. entryType[f] = EntryType(f)
    BY <1>1, <2>1
  <2>3. Traceable(f) => Entry(f) \in traced
    BY <1>1, <2>1
  <2>4. Entry(f).entry = f
    BY DEF Entry
  <2> QED BY <1>1, <2>1, <2>2, <2>3, <2>4, EntryTypes DEF Traceable
<1>5. \A e \in processes : Entry(e) \in traced
  BY <1>1
<1>6. \A s \in traced : s.depth > 0 => Hangs(s, traced, calls)
  BY <1>1 DEF TraceInv, TraceIsTree, StackInv
<1>7. Closed(traced, calls)
  <2>1. \A s \in traced : ~OnStack(s)
    BY DEF TraceInv, StackInv, OnStack
  <2> QED BY <1>1, <2>1 DEF TraceInv, StackInv, Followed, Closed
<1> HIDE DEF Current
<1> QED
  <2>1. /\ \A f \in present' :
             Handles(f) \/ ((\E c \in calls' : c.from = f) /\ (\A c \in calls' : c.to # f)) =>
             /\ entryType'[f] # Nothing
             /\ entryType'[f] \notin Untraced => f \in processes'
    BY <1>4
  <2>2. /\ \A e \in processes' : Entry(e) \in steps'
        /\ \A s \in steps' : s.depth > 0 => Hangs(s, steps', calls')
        /\ Closed(steps', calls')
    BY <1>3, <1>5, <1>6, <1>7
  <2>3. /\ \A e : Entry(e)' = Entry(e)
        /\ \A s : Hangs(s, steps, calls)' <=> Hangs(s, steps', calls')
        /\ Closed(steps, calls)' <=> Closed(steps', calls')
    BY DEF Entry, Hangs, Closed
  <2> QED BY <2>1, <2>2, <2>3 DEF Current

LEMMA FreshStep == Confident /\ TraceInv /\ FreshInv /\ [Next]_vars => FreshInv'
<1> SUFFICES ASSUME Confident, TraceInv, FreshInv, [Next]_vars PROVE FreshInv'
  OBVIOUS
<1>0. StatusInv /\ EndsInv /\ ReadStatus \in Stamp
  BY ReadStamp DEF FreshInv
\* Steps that change nothing the invariant speaks of, but let time pass.
<1>a. ASSUME UNCHANGED <<careful, graph, status, ix, batch, seen, an, scope, forest, roots, todo, traced>>,
             now' \in Nat, now' >= now
      PROVE  FreshInv'
  <2>1. StatusInv' /\ EndsInv'
    BY <1>0, <1>a DEF StatusInv, EndsInv, graph
  <2>2. IndexedLast => IndexedLast'
    <3>1. ReadStatus' = ReadStatus /\ ReadStatus.analyzed \in Nat /\ seen["ix"].analyzed \in Nat /\ now \in Nat
      BY <1>0, <1>a DEF ReadStatus, StatusInv, Stamp
    <3> QED BY <1>a, <3>1 DEF IndexedLast
  <2>3. /\ UNCHANGED <<present, calls, entryType, processes, steps>>
        /\ Current' = Current /\ Roots' = Roots
        /\ \A f : EntryType(f)' = EntryType(f) /\ Traceable(f)' = Traceable(f)
        /\ \A f : Entry(f)' = Entry(f)
    BY <1>a, SameCurrent, SameRoots DEF graph, Entry
  <2>4. Underway => Underway'
    BY <1>a, <2>3 DEF Underway
  <2>5. (Idle /\ ~NeedsAnalyze)' = (Idle /\ ~NeedsAnalyze)
    BY <1>a DEF Idle, NeedsAnalyze, ReadStatus
  <2> QED BY <1>a, <2>1, <2>2, <2>3, <2>4, <2>5 DEF FreshInv
\* Steps of a careful analysis, which no index run joins.
<1>b. ASSUME an # "idle", UNCHANGED <<careful, ix>>, StatusInv', EndsInv', Underway /\ careful => Underway',
             an' = "idle" /\ careful => Current'
      PROVE  FreshInv'
  BY <1>b DEF FreshInv, Idle, IndexedLast
<1>1. CASE Edit
  BY <1>0, <1>1, <1>a DEF Edit, StatusInv, indexer, analyzer
<1>2. CASE Tick
  BY <1>0, <1>2, <1>a DEF Tick, StatusInv, indexer, analyzer
<1>3. ASSUME NEW full \in BOOLEAN, StartIndex(full) PROVE FreshInv'
  <2>1. StatusInv' /\ EndsInv'
    <3>1. StatusInv'
      BY <1>0, <1>3 DEF StartIndex, StatusInv
    <3>2. EndsInv'
      BY <1>0, <1>3 DEF StartIndex, EndsInv
    <3> QED BY <3>1, <3>2
  <2>2. ASSUME careful PROVE an' = "idle" /\ ix' = "write" /\ ReadStatus'.analyzed < now'
    BY <1>3, <2>2 DEF StartIndex, MayStart, ReadStatus, analyzer
  <2>3. careful' = careful
    BY <1>3 DEF StartIndex
  <2> QED BY <2>1, <2>2, <2>3 DEF FreshInv, IndexedLast, Underway, Idle
<1>4. CASE WriteIndex
  <2>1. StatusInv' /\ EndsInv'
    <3>1. StatusInv'
      BY <1>0, <1>4 DEF WriteIndex, StatusInv, tree
    <3>2. EndsInv'
      BY <1>0, <1>4 DEF WriteIndex, EndsInv
    <3> QED BY <3>1, <3>2
  <2>2. ASSUME careful PROVE an' = "idle" /\ ix' = "read" /\ ReadStatus'.analyzed < now'
    BY <1>4, <2>2 DEF WriteIndex, FreshInv, IndexedLast, ReadStatus, analyzer, tree
  <2>3. careful' = careful
    BY <1>4 DEF WriteIndex, tree
  <2> QED BY <2>1, <2>2, <2>3 DEF FreshInv, IndexedLast, Underway, Idle
<1>5. CASE MarkIndexed
  <2>1. UNCHANGED <<now, careful, graph, an, present, calls>> /\ (careful => an = "idle")
    BY <1>5 DEF MarkIndexed, tree, graph, analyzer, FreshInv
  <2>2. CASE ix = "read" /\ ReadBy("ix") /\ ix' = "truncate" /\ UNCHANGED <<status, batch>>
    <3>1. StatusInv' /\ EndsInv'
      BY <1>0, <2>1, <2>2 DEF ReadBy, StatusInv, EndsInv
    <3>2. ASSUME careful PROVE seen'["ix"].analyzed < now'
      <4>1. ReadStatus.analyzed < now
        BY <2>2, <3>2 DEF FreshInv, IndexedLast
      <4>2. seen'["ix"] = ReadStatus
        BY <1>0, <2>2 DEF ReadBy, StatusInv
      <4> QED BY <2>1, <4>1, <4>2
    <3> QED BY <2>1, <2>2, <3>1, <3>2 DEF FreshInv, IndexedLast, Underway, Idle
  <2>3. CASE ix = "truncate" /\ status' = Nothing /\ ix' = "fill" /\ UNCHANGED <<seen, batch>>
    <3>1. StatusInv' /\ EndsInv'
      BY <1>0, <2>1, <2>3 DEF StatusInv, EndsInv
    <3> QED BY <2>1, <2>3, <3>1 DEF FreshInv, IndexedLast, Underway, Idle
  <2>4. CASE ix = "fill" /\ status' = [seen.ix EXCEPT !.indexed = now] /\ IndexerGone
    <3>1. /\ seen["ix"] \in Stamp /\ now \in Nat
          /\ Never \in Stamp
      BY <1>0 DEF StatusInv, Never, Stamp
    <3>2. status' \in Stamp /\ status'.indexed = now /\ status'.analyzed = seen["ix"].analyzed
      BY <2>4, <3>1 DEF Stamp
    <3>3. seen' \in [{"ix", "an"} -> Stamp]
      BY <1>0, <2>4, <3>1 DEF IndexerGone, StatusInv
    <3>4. StatusInv' /\ EndsInv'
      BY <1>0, <2>1, <2>4, <3>1, <3>2, <3>3 DEF StatusInv, EndsInv, IndexerGone
    <3>5. ASSUME careful PROVE NeedsAnalyze'
      <4>1. seen["ix"].analyzed < now
        BY <2>4, <3>5 DEF FreshInv, IndexedLast
      <4>2. CASE status' = Nothing
        BY <4>2 DEF NeedsAnalyze, ReadStatus, Never
      <4>3. CASE status' # Nothing
        <5>1. ReadStatus' = status'
          BY <4>3 DEF ReadStatus
        <5>2. now > seen["ix"].analyzed
          BY <3>1, <4>1 DEF Stamp
        <5> QED BY <3>2, <5>1, <5>2 DEF NeedsAnalyze
      <4> QED BY <4>2, <4>3
    <3>6. ix' = "idle"
      BY <2>4 DEF IndexerGone
    <3> QED BY <2>1, <3>4, <3>5, <3>6 DEF FreshInv, IndexedLast, Underway, Idle
  <2> QED BY <1>5, <2>2, <2>3, <2>4 DEF MarkIndexed
<1>6. ASSUME NEW s \in Scopes, NEW force \in BOOLEAN, StartAnalyze(s, force) PROVE FreshInv'
  <2>1. /\ UNCHANGED <<now, careful, graph, status, ix, batch, seen, present, calls>>
        /\ an' = "classify" /\ forest' = calls /\ scope' = s
        /\ careful => ix = "idle" /\ s = "all"
    BY <1>6 DEF StartAnalyze, graph, indexer, MayStart, Loaded
  <2>2. StatusInv' /\ EndsInv'
    BY <1>0, <2>1 DEF StatusInv, EndsInv
  <2> QED BY <2>1, <2>2 DEF FreshInv, IndexedLast, Underway, Idle
<1>7. CASE Classify
  <2>1. /\ UNCHANGED <<now, careful, graph, status, ix, batch, seen, present, calls, forest, scope>>
        /\ an = "classify" /\ an' = "entries"
        /\ roots' = [f \in Funcs |-> IF f \in Roots THEN EntryType(f) ELSE Nothing]
    BY <1>7 DEF Classify, graph, indexer, tree
  <2>2. StatusInv' /\ EndsInv'
    BY <1>0, <2>1 DEF StatusInv, EndsInv
  <2>3. Underway => Underway'
    BY <2>1, SameRoots DEF Underway
  <2> QED BY <1>b, <2>1, <2>2, <2>3
<1>8. CASE WriteEntryPoints
  <2>1. /\ UNCHANGED <<now, careful, status, ix, batch, seen, present, calls, forest, scope, roots>>
        /\ an = "entries" /\ (scope = "all" => an' = "clear") /\ an' # "idle"
        /\ entryType' = [f \in Funcs |-> IF roots[f] # Nothing /\ f \in present
                                           THEN roots[f] ELSE entryType[f]]
    BY <1>8 DEF WriteEntryPoints, indexer, tree
  <2>2. StatusInv' /\ EndsInv'
    BY <1>0, <2>1 DEF StatusInv, EndsInv
  <2>3. ASSUME Underway PROVE Underway'
    <3>1. /\ scope = "all" /\ forest = calls
          /\ roots = [f \in Funcs |-> IF f \in Roots THEN EntryType(f) ELSE Nothing]
      BY <2>1, <2>3 DEF Underway
    <3>2. Roots \subseteq present /\ present \subseteq Funcs
      BY <1>0 DEF Roots, EndsInv
    <3>3. \A f \in Roots : entryType'[f] = EntryType(f)
      BY <2>1, <3>1, <3>2, EntryTypes
    <3>4. /\ Roots' = Roots /\ \A f : EntryType(f)' = EntryType(f)
      BY <2>1, SameRoots
    <3> QED BY <2>1, <3>1, <3>3, <3>4 DEF Underway
  <2> QED BY <1>b, <2>1, <2>2, <2>3
<1>9. CASE ClearAnalysisData
  <2>1. /\ UNCHANGED <<now, careful, status, ix, batch, seen, present, calls, entryType, forest, scope, traced>>
        /\ an = "clear" /\ an' = "trace" /\ processes' = {} /\ steps' = {} /\ traced = {}
        /\ todo' = {f \in Funcs : roots[f] # Nothing /\ roots[f] \notin Untraced}
    BY <1>9 DEF ClearAnalysisData, indexer, tree, TraceInv, StackInv
  <2>2. StatusInv' /\ EndsInv'
    BY <1>0, <2>1 DEF StatusInv, EndsInv
  <2>3. ASSUME Underway PROVE Underway'
    <3>1. /\ scope = "all" /\ forest = calls
          /\ roots = [f \in Funcs |-> IF f \in Roots THEN EntryType(f) ELSE Nothing]
          /\ \A f \in Roots : entryType[f] = EntryType(f)
      BY <2>1, <2>3 DEF Underway
    <3>2. Roots \subseteq Funcs
      BY <1>0 DEF Roots, EndsInv
    <3>3. \A f : f \in todo' <=> Traceable(f)
      BY <2>1, <3>1, <3>2, EntryTypes DEF Traceable
    <3>4. /\ Roots' = Roots
          /\ \A f : EntryType(f)' = EntryType(f) /\ Traceable(f)' = Traceable(f)
      BY <2>1, SameRoots
    <3> QED BY <2>1, <3>1, <3>3, <3>4 DEF Underway, Traceable
  <2> QED BY <1>b, <2>1, <2>2, <2>3
<1>10. CASE TraceEntry
  <2>1. PICK f \in todo : /\ todo' = todo \ {f}
                          /\ traced' = traced \cup {Entry(f)}
    BY <1>10 DEF TraceEntry, Entry
  <2>2. /\ UNCHANGED <<now, careful, status, ix, batch, seen, graph, present, calls, entryType,
                       processes, steps, an, forest, scope>>
        /\ an = "trace"
    BY <1>10 DEF TraceEntry, indexer, tree, graph
  <2>3. StatusInv' /\ EndsInv'
    BY <1>0, <2>2 DEF StatusInv, EndsInv
  <2>4. ASSUME Underway PROVE Underway'
    <3>1. /\ \A g \in Roots : entryType[g] = EntryType(g)
          /\ scope = "all" /\ forest = calls /\ processes = {} /\ steps = {}
          /\ \A g \in Roots : Traceable(g) => g \in todo \/ Entry(g) \in traced
          /\ \A s \in traced : s.entry \in Roots /\ Entry(s.entry) \in traced
          /\ todo \subseteq Roots
      BY <2>2, <2>4 DEF Underway
    <3>2. Entry(f).entry = f
      BY DEF Entry
    <3>3. /\ \A g \in Roots : Traceable(g) => g \in todo' \/ Entry(g) \in traced'
          /\ \A s \in traced' : s.entry \in Roots /\ Entry(s.entry) \in traced'
          /\ todo' \subseteq Roots
      BY <2>1, <3>1, <3>2
    <3>4. /\ Roots' = Roots
          /\ \A g : EntryType(g)' = EntryType(g) /\ Traceable(g)' = Traceable(g)
          /\ \A g : Entry(g)' = Entry(g)
      BY <2>2, SameRoots DEF Entry
    <3> QED BY <2>2, <3>1, <3>3, <3>4 DEF Underway
  <2> QED BY <1>b, <2>2, <2>3, <2>4
<1>11. CASE Descend
  <2>1. PICK g \in Unvisited(stack[Len(stack)]) :
          traced' = traced \cup {[entry |-> stack[1], func |-> g, depth |-> Len(stack)]}
    BY <1>11 DEF Descend
  <2>2. /\ UNCHANGED <<now, careful, status, ix, batch, seen, graph, present, calls, entryType,
                       processes, steps, an, forest, scope, todo>>
        /\ an = "trace"
    BY <1>11 DEF Descend, indexer, tree, graph
  <2>3. StatusInv' /\ EndsInv'
    BY <1>0, <2>2 DEF StatusInv, EndsInv
  <2>4. ASSUME Underway PROVE Underway'
    <3>1. /\ \A f \in Roots : entryType[f] = EntryType(f)
          /\ scope = "all" /\ forest = calls /\ processes = {} /\ steps = {}
          /\ \A f \in Roots : Traceable(f) => f \in todo \/ Entry(f) \in traced
          /\ \A s \in traced : s.entry \in Roots /\ Entry(s.entry) \in traced
          /\ todo \subseteq Roots
      BY <2>2, <2>4 DEF Underway
    <3>2. PICK s \in traced : s.entry = stack[1]
      <4>1. stack \in Seq(Funcs) /\ stack # <<>> /\ \A i \in 1..Len(stack) : StepAt(i) \in traced
        BY <1>11 DEF Descend, TraceInv, StackInv
      <4>2. 1 \in 1..Len(stack)
        BY <4>1
      <4> QED BY <4>1, <4>2 DEF StepAt
    <3>3. /\ \A f \in Roots : Traceable(f) => f \in todo' \/ Entry(f) \in traced'
          /\ \A t \in traced' : t.entry \in Roots /\ Entry(t.entry) \in traced'
      BY <2>1, <2>2, <3>1, <3>2
    <3>4. /\ Roots' = Roots
          /\ \A f : EntryType(f)' = EntryType(f) /\ Traceable(f)' = Traceable(f)
          /\ \A f : Entry(f)' = Entry(f)
      BY <2>2, SameRoots DEF Entry
    <3> QED BY <2>2, <3>1, <3>3, <3>4 DEF Underway
  <2> QED BY <1>b, <2>2, <2>3, <2>4
<1>12. CASE Return
  BY <1>0, <1>12, <1>a DEF Return, tree, indexer, StatusInv
<1>13. CASE CreateProcesses
  <2>1. /\ UNCHANGED <<now, careful, status, ix, batch, seen, present, calls, entryType,
                       steps, forest, scope, traced, todo>>
        /\ an = "trace" /\ an' = "steps" /\ todo = {}
        /\ processes' = processes \cup {s.entry : s \in traced}
    BY <1>13 DEF CreateProcesses, indexer, tree
  <2>2. StatusInv' /\ EndsInv'
    BY <1>0, <2>1 DEF StatusInv, EndsInv
  <2>3. ASSUME Underway PROVE Underway'
    <3>1. /\ Roots' = Roots
          /\ \A f : EntryType(f)' = EntryType(f) /\ Traceable(f)' = Traceable(f)
          /\ \A f : Entry(f)' = Entry(f)
      BY <2>1, SameRoots DEF Entry
    <3>2. processes' = {s.entry : s \in traced'}
      BY <2>1, <2>3 DEF Underway
    <3> QED BY <2>1, <2>3, <3>1, <3>2 DEF Underway
  <2> QED BY <1>b, <2>1, <2>2, <2>3
<1>14. CASE WriteSteps
  <2>1. /\ UNCHANGED <<now, careful, status, ix, batch, seen, present, calls, entryType,
                       processes, forest, scope>>
        /\ an = "steps" /\ an' = "read"
        /\ steps' = steps \cup {s \in traced : s.func \in present /\ s.entry \in processes}
    BY <1>14 DEF WriteSteps, indexer, tree
  <2>2. StatusInv' /\ EndsInv'
    BY <1>0, <2>1 DEF StatusInv, EndsInv
  <2>3. ASSUME Underway PROVE Underway'
    <3>1. Current'
      BY <1>0, <2>1, <2>3, AllWritten
    <3> QED BY <2>1, <2>3, <3>1 DEF Underway
  <2> QED BY <1>b, <2>1, <2>2, <2>3
<1>15. CASE MarkAnalyzed
  <2>1. /\ UNCHANGED <<now, careful, graph, present, calls, ix, batch>>
        /\ Current' = Current
    BY <1>15, SameCurrent DEF MarkAnalyzed, tree, graph, indexer
  <2>2. CASE an = "read" /\ ReadBy("an") /\ an' = "truncate" /\ UNCHANGED <<status, scope, forest>>
    <3>1. StatusInv' /\ EndsInv'
      BY <1>0, <2>1, <2>2 DEF ReadBy, StatusInv, EndsInv
    <3>2. Underway => Underway'
      BY <2>1, <2>2 DEF Underway
    <3> QED BY <1>b, <2>1, <2>2, <3>1, <3>2
  <2>3. CASE an = "truncate" /\ status' = Nothing /\ an' = "fill" /\ UNCHANGED <<seen, scope, forest>>
    <3>1. StatusInv' /\ EndsInv'
      BY <1>0, <2>1, <2>3 DEF StatusInv, EndsInv
    <3>2. Underway => Underway'
      BY <2>1, <2>3 DEF Underway
    <3> QED BY <1>b, <2>1, <2>3, <3>1, <3>2
  <2>4. CASE an = "fill" /\ status' = [seen.an EXCEPT !.analyzed = now] /\ AnalyzerGone
    <3>1. seen["an"] \in Stamp /\ now \in Nat /\ Never \in Stamp
      BY <1>0 DEF StatusInv, Never, Stamp
    <3>2. status' \in Stamp
      BY <2>4, <3>1 DEF Stamp
    <3>3. seen' \in [{"ix", "an"} -> Stamp] /\ an' = "idle"
      BY <1>0, <2>4, <3>1 DEF AnalyzerGone, StatusInv
    <3>4. StatusInv' /\ EndsInv'
      BY <1>0, <2>1, <3>1, <3>2, <3>3 DEF StatusInv, EndsInv
    <3>5. Underway'
      BY <3>3 DEF Underway
    <3>6. careful => Current'
      BY <2>1, <2>4 DEF FreshInv, Underway
    <3> QED BY <1>b, <2>1, <2>4, <3>4, <3>5, <3>6
  <2> QED BY <1>15, <2>2, <2>3, <2>4 DEF MarkAnalyzed
<1>16. CASE Abort
  <2>1. UNCHANGED <<now, careful, status, present, calls>> /\ ~careful
    BY <1>16 DEF Abort, tree, graph
  <2>2. Never \in Stamp
    BY DEF Never, Stamp
  <2>3. CASE IndexerGone
    BY <1>0, <2>1, <2>2, <2>3 DEF IndexerGone, FreshInv, StatusInv, EndsInv
  <2>4. CASE AnalyzerGone /\ UNCHANGED indexer
    BY <1>0, <2>1, <2>2, <2>4 DEF AnalyzerGone, indexer, FreshInv, StatusInv, EndsInv
  <2> QED BY <1>16, <2>3, <2>4 DEF Abort
<1>17. CASE UNCHANGED vars
  BY <1>0, <1>17, <1>a DEF vars, tree, indexer, analyzer, StatusInv
<1> QED
  BY <1>1, <1>2, <1>3, <1>4, <1>5, <1>6, <1>7, <1>8, <1>9, <1>10, <1>11, <1>12, <1>13,
     <1>14, <1>15, <1>16, <1>17 DEF Next, Analyze

\* With a store that returns confidences: when runs go one at a time, to
\* their end and a second apart, a status of fresh means that entry points
\* and processes are those of the calls in the graph - over any number of
\* edits, runs and analyses. The mark of an index run is later than the last
\* analysis, and nothing of the graph changes between forest and mark.
THEOREM FreshIsCurrent == ASSUME Confident PROVE Spec => []CurrentWhenFresh
<1>1. FreshInv => CurrentWhenFresh
  BY DEF FreshInv, CurrentWhenFresh, Settled, Current, Entry
<1>2. FreshInv /\ TraceInv /\ [Next]_vars => FreshInv' /\ TraceInv'
  BY FreshStep, TraceStep
<1> QED
  BY <1>1, <1>2, TraceInit, FreshInit, PTL DEF Spec

=============================================================================
