--------------------------- MODULE ResolutionProofs ---------------------------
(***************************************************************************)
(* Proofs about Resolution, for every project and every order of its parse *)
(* results: the rounds over the assignments of a file end with all of them *)
(* typed that can be, re-exports name what they lead to and lose none, and *)
(* overrides are found however far up the hierarchy they are.              *)
(***************************************************************************)
EXTENDS Resolution, TLAPS, FiniteSetTheorems, WellFoundedInduction, SequenceTheorems

----------------------------------------------------------------------------
(* Looking something up gives the same while what is looked at rests.  The *)
(* provers know nothing of SelectSeq: each lookup is an operator of what it *)
(* reads.                                                                   *)

OfName(symbols, n) == SelectSeq(symbols, LAMBDA s : s.qn # <<>> /\ Last(s.qn) = n)

BoundIn(scopes, env, variable) ==
  LET bound == SelectSeq(scopes, LAMBDA around : <<around, variable>> \in DOMAIN env)
  IN IF bound = <<>> THEN Nothing ELSE env[<<Head(bound), variable>>]

OwnedIn(endings, s, type) ==
  \E i \in 1..(Len(s.qn) - 1) : s.qn[i] = Last(type) \/ <<s.qn[i], Last(type)>> \in endings

ReturnIn(symbols, endings, type) ==
  LET f == First(SelectSeq(Returning(symbols), LAMBDA s : OwnedIn(endings, s, type)))
  IN IF f = Nothing THEN Nothing ELSE f.returns[1]

ResultIn(symbols, index) ==
  LET f == First(SelectSeq(symbols, LAMBDA s :
             s.kind = "Function" /\ Len(s.returns) >= index))
  IN IF f = Nothing THEN Nothing ELSE f.returns[index]

LEMMA Lookups ==
  /\ \A n : FindByName(n) = OfName(table, n)
  /\ \A f, s, v : Binding(f, s, v) = BoundIn(ScopeChain(f, s), bindings[f], v)
  /\ \A type, m : MethodReturn(type, m) = ReturnIn(FindByName(m), project.endings, type)
  /\ \A c, i : ResultOf(c, i) = ResultIn(FindByName(c), i)
<1>1. \A n : FindByName(n) = OfName(table, n)
  BY DEF FindByName, OfName
<1>2. \A f, s, v : Binding(f, s, v) = BoundIn(ScopeChain(f, s), bindings[f], v)
  BY DEF Binding, BoundIn
<1>3. \A type, m : MethodReturn(type, m) = ReturnIn(FindByName(m), project.endings, type)
  BY DEF MethodReturn, ReturnIn, OwnedBy, OwnedIn
<1>4. \A c, i : ResultOf(c, i) = ResultIn(FindByName(c), i)
  BY DEF ResultOf, ResultIn
<1> QED BY <1>1, <1>2, <1>3, <1>4

LEMMA TypeableStays ==
  ASSUME UNCHANGED <<project, table, bindings>>
  PROVE  \A f, p : Typeable(f, p)' <=> Typeable(f, p)
<1>0. /\ (\A n : FindByName(n) = OfName(table, n))'
      /\ (\A f, s, v : Binding(f, s, v) = BoundIn(ScopeChain(f, s), bindings[f], v))'
      /\ (\A type, m : MethodReturn(type, m) = ReturnIn(FindByName(m), project.endings, type))'
      /\ (\A c, i : ResultOf(c, i) = ResultIn(FindByName(c), i))'
  BY Lookups, PTL
<1>1. \A n : FindByName(n)' = FindByName(n)
  BY <1>0, Lookups
<1>2. \A f, s : ScopeChain(f, s)' = ScopeChain(f, s)
  BY DEF ScopeChain
<1>3. \A f, s, v : Binding(f, s, v)' = Binding(f, s, v)
  BY <1>0, <1>2, Lookups
<1>4. \A f, s, v : TypeOfVariable(f, s, v)' = TypeOfVariable(f, s, v)
  BY <1>3 DEF TypeOfVariable
<1>5. \A type, m : MethodReturn(type, m)' = MethodReturn(type, m)
  BY <1>0, <1>1, Lookups
<1>6. \A c, i : ResultOf(c, i)' = ResultOf(c, i)
  BY <1>0, <1>1, Lookups
<1>7. \A c : ReturnOf(c)' = ReturnOf(c)
  BY <1>1 DEF ReturnOf
<1>8. \A type, m : GoReturn(type, m)' = GoReturn(type, m)
  BY DEF GoReturn, ExternalMethod
<1>9. \A class, name : FindFieldByOwner(class, name)' = FindFieldByOwner(class, name)
  BY DEF FindFieldByOwner, Fields
<1>10. \A f, p : PendingType(f, p)' = PendingType(f, p)
  BY <1>4, <1>5, <1>6, <1>7, <1>8, <1>9 DEF PendingType
<1> QED BY <1>10 DEF Typeable

----------------------------------------------------------------------------
(* The rounds.                                                             *)

Early == {"imports", "exports", "reexports", "infer"}

FirstRound == [file |-> 1, n |-> 1, changed |-> FALSE]

\* Assignments of the file whose variable has a type by now.
Bound == {i \in 1..Len(Pendings) :
            <<Pendings[i].scope, Pendings[i].lhs>> \in DOMAIN bindings[File]}

\* A round that has typed nothing so far has found nothing that it could.
Tried == ~round.changed => \A i \in 1..(next - 1) :
                             \A p \in {Pendings[i]} : ~Typeable(File, p)

\* Every round but this one has typed an assignment, and so has this one if
\* it says so.
Counted == Cardinality(Bound) >= round.n - 1 + (IF round.changed THEN 1 ELSE 0)

ShapeInv ==
  /\ project \in Projects /\ parseOrder \in SetToSeqs(Files)
  /\ bindings = [f \in Files |-> bindings[f]]
  /\ round.file \in 1..Len(parseOrder) /\ round.n \in 1..MaxRounds
  /\ round.changed \in BOOLEAN
  /\ round = [file |-> round.file, n |-> round.n, changed |-> round.changed]

RoundInv ==
  /\ phase \in Early => round = FirstRound
  /\ phase = "fixpoint" => next \in 1..(Len(Pendings) + 1) /\ Tried /\ Counted

SettleInv == ShapeInv /\ RoundInv

LEMMA Order ==
  ASSUME NEW p \in Projects, NEW order \in SetToSeqs(DOMAIN p.files)
  PROVE  /\ order \in Seq(DOMAIN p.files) /\ Len(order) \in Nat \ {0}
         /\ \A i \in 1..Len(order) : order[i] \in DOMAIN p.files
<1> DEFINE S == DOMAIN p.files
           n == Cardinality(S)
<1>1. n \in Nat /\ n # 0
  BY ProjectsAssumption, FS_CardinalityType, FS_EmptySet
<1>2. order \in [1..n -> S]
  BY DEF SetToSeqs
<1> HIDE DEF n, S
<1>3. order \in Seq(S) /\ Len(order) = n
  BY <1>1, <1>2
<1>4. \A i \in 1..Len(order) : order[i] \in S
  BY <1>2, <1>3
<1> QED BY <1>1, <1>3, <1>4 DEF S

LEMMA FileShape ==
  ASSUME ShapeInv
  PROVE  /\ File \in Files
         /\ Len(Pendings) \in Nat /\ DOMAIN Pendings = 1..Len(Pendings)
         /\ Pendings \in Seq(ToSet(Pendings))
<1>1. File \in Files
  BY Order DEF ShapeInv, File, Files
<1>2. Pendings \in Seq(ToSet(Pendings))
  BY <1>1, PendingsAssumption DEF ShapeInv, Pendings, Files
<1> QED BY <1>1, <1>2

\* Sets of assignments are finite, and larger ones count more.
LEMMA BoundCount ==
  ASSUME ShapeInv
  PROVE  /\ IsFiniteSet(Bound) /\ Cardinality(Bound) \in Nat
         /\ Cardinality(Bound) = Len(Pendings) => Bound = 1..Len(Pendings)
         /\ Cardinality(Bound) <= Len(Pendings)
<1>1. IsFiniteSet(1..Len(Pendings)) /\ Cardinality(1..Len(Pendings)) = Len(Pendings)
  BY FileShape, FS_Interval
<1> DEFINE All == 1..Len(Pendings)
<1>2. Bound \in SUBSET All
  BY DEF Bound
<1> HIDE DEF All
<1>3. /\ IsFiniteSet(Bound) /\ Cardinality(Bound) <= Cardinality(All)
      /\ Cardinality(Bound) = Cardinality(All) => Bound = All
  BY <1>1, <1>2, FS_Subset DEF All
<1> QED BY <1>1, <1>3, FS_CardinalityType DEF All

LEMMA SettleInit == Init => SettleInv
<1> SUFFICES ASSUME Init PROVE SettleInv
  OBVIOUS
<1>1. /\ project \in Projects /\ parseOrder \in SetToSeqs(Files)
      /\ bindings = [f \in Files |-> Empty] /\ round = FirstRound /\ phase = "imports"
  BY DEF Init, InitTable, InitExports, InitTypes, Files, FirstRound
<1>2. Len(parseOrder) \in Nat \ {0}
  BY <1>1, Order DEF Files
<1>3. ShapeInv
  BY <1>1, <1>2, RoundsAssumption DEF ShapeInv, FirstRound
<1> QED BY <1>1, <1>3 DEF SettleInv, RoundInv, Early

\* What does not touch the types and stays outside of the fixpoint.
LEMMA Elsewhere ==
  ASSUME SettleInv, UNCHANGED <<project, parseOrder, bindings, round>>,
         phase' # "fixpoint", phase' \in Early => phase \in Early
  PROVE  SettleInv'
<1>1. ShapeInv'
  BY DEF SettleInv, ShapeInv, Files
<1>2. RoundInv'
  BY DEF SettleInv, RoundInv, FirstRound
<1> QED BY <1>1, <1>2 DEF SettleInv

LEMMA Resting == ASSUME SettleInv, UNCHANGED vars PROVE SettleInv'
<1>1. /\ UNCHANGED <<project, parseOrder, bindings, round, phase, next, table>>
  BY DEF vars, tableVars, typeVars
<1>2. ShapeInv'
  BY <1>1 DEF SettleInv, ShapeInv, Files
<1>3. File' = File /\ Pendings' = Pendings
  BY <1>1 DEF File, Pendings
<1>4. Tried' <=> Tried
  BY <1>1, <1>3, TypeableStays DEF Tried
<1>5. Counted' <=> Counted
  BY <1>1, <1>3 DEF Counted, Bound
<1>6. RoundInv'
  BY <1>1, <1>3, <1>4, <1>5 DEF SettleInv, RoundInv, FirstRound
<1> QED BY <1>2, <1>6 DEF SettleInv

----------------------------------------------------------------------------
(* Steps.                                                                  *)

LEMMA ExportsStep ==
  ASSUME SettleInv, PropagateExports, UNCHANGED typeVars PROVE SettleInv'
<1>1. UNCHANGED <<project, parseOrder, bindings, round>> /\ phase \in Early
      /\ phase' \in Early
  BY DEF PropagateExports, ResolveImports, RegisterLocalExports, SkipImport,
         RegisterWildcard, SkipRegistered, RegisterDirect, RegisterViaBarrel, WaitForBarrel,
         ExportsPropagated, Advance, tableVars, typeVars, exportVars, Early
<1> QED BY <1>1, Elsewhere DEF Early

LEMMA LocalStep == ASSUME SettleInv, InferLocal PROVE SettleInv'
<1>1. /\ UNCHANGED <<project, parseOrder, round>> /\ round = FirstRound
      /\ phase' = "fixpoint" /\ next' = 1
      /\ bindings' = [f \in Files |-> LocalBindings(f)]
  BY DEF InferLocal, tableVars, SettleInv, RoundInv, Early
<1>2. ShapeInv'
  BY <1>1 DEF SettleInv, ShapeInv, Files
<1>3. (Len(Pendings) \in Nat)' /\ (Cardinality(Bound) \in Nat)'
  BY <1>2, FileShape, BoundCount, PTL
<1>4. Tried'
  BY <1>1 DEF Tried
<1>5. Counted'
  BY <1>1, <1>3 DEF Counted, FirstRound
<1>6. RoundInv'
  BY <1>1, <1>3, <1>4, <1>5 DEF RoundInv, Early
<1> QED BY <1>2, <1>6 DEF SettleInv

LEMMA CallsStep ==
  ASSUME SettleInv, ResolveCalls PROVE SettleInv'
<1>1. UNCHANGED <<project, parseOrder, bindings, round>> /\ phase' \in {"calls", "heritage"}
  <2>1. CASE \E s : At(s)
    <3>1. PICK s : At(s)
      BY <2>1
    <3> QED BY <3>1 DEF At, typeVars
  <2>2. CASE CallsResolved
    BY <2>2 DEF CallsResolved, tableVars, typeVars
  <2> QED BY <2>1, <2>2 DEF ResolveCalls,
     PreResolvedCall, LambdaCall, Begin, SkipPackage, SuperCall, LambdaRedirect,
     NotImported, CallReExported, CallComposed, CallInheritedImport, CallExternalImport,
     LookupType, Untyped, SkipPackageType, QualifyType, CallOfType, CallInherited,
     CallExternalType, CallUnknown, CallOfPrefix, CallByLanguage, FallbackCall,
     CallOwnInherited, CallUnique, CallBack
<1> QED BY <1>1, Elsewhere DEF Early

LEMMA RelateStep ==
  ASSUME SettleInv, Relate \/ ResolveConstRefs PROVE SettleInv'
<1>1. UNCHANGED <<project, parseOrder, bindings, round>> /\ phase' \notin Early \union {"fixpoint"}
  BY DEF Relate, ResolveConstRefs, ResolveHeritage, DetectOverridesAndDispatches,
         InferImplements, tableVars, typeVars, Early
<1> QED BY <1>1, Elsewhere

\* In the middle of a round: an assignment is typed, or is found not to be
\* one that could.
LEMMA PendingStep == ASSUME SettleInv, InferPending PROVE SettleInv'
<1>0. /\ UNCHANGED <<project, parseOrder, table, phase>> /\ next' = next + 1
      /\ phase = "fixpoint" /\ next \in 1..Len(Pendings)
      /\ Tried /\ Counted /\ Len(Pendings) \in Nat
  BY FileShape DEF InferPending, tableVars, SettleInv, RoundInv
<1> DEFINE p == Pendings[next]
           key == <<p.scope, p.lhs>>
<1>1. CASE ~Typeable(File, p)
  <2>1. UNCHANGED <<bindings, round>>
    BY <1>1 DEF InferPending, typeVars
  <2>2. ShapeInv'
    BY <1>0, <2>1 DEF SettleInv, ShapeInv, Files
  <2>3. File' = File /\ Pendings' = Pendings
    BY <1>0, <2>1 DEF File, Pendings
  <2>4. Tried'
    <3> SUFFICES ASSUME ~round.changed, NEW i \in 1..next, NEW q \in {Pendings[i]}
                 PROVE  ~Typeable(File, q)
      BY <1>0, <2>1, <2>3, TypeableStays DEF Tried
    <3>1. CASE i = next
      BY <1>1, <3>1
    <3>2. CASE i \in 1..(next - 1)
      BY <1>0, <3>2 DEF Tried
    <3> QED BY <1>0, <3>1, <3>2
  <2>5. Counted'
    BY <1>0, <2>1, <2>3 DEF Counted, Bound
  <2>6. RoundInv'
    BY <1>0, <2>1, <2>3, <2>4, <2>5 DEF RoundInv, Early
  <2> QED BY <2>2, <2>6 DEF SettleInv
<1>2. CASE Typeable(File, p)
  <2>1. /\ key \notin DOMAIN bindings[File]
        /\ round' = [round EXCEPT !.changed = TRUE]
        /\ bindings' = [bindings EXCEPT ![File] =
                          [k \in DOMAIN @ \union {key} |->
                             IF k = key THEN Of(PendingType(File, p)) ELSE @[k]]]
    BY <1>2 DEF InferPending, Typeable
  <2>2. /\ round'.file = round.file /\ round'.n = round.n /\ round'.changed
        /\ round.file \in 1..Len(parseOrder) /\ round.n \in 1..MaxRounds
        /\ round' = [file |-> round.file, n |-> round.n, changed |-> TRUE]
    BY <2>1 DEF SettleInv, ShapeInv
  <2>3. ShapeInv'
    BY <1>0, <2>1, <2>2 DEF SettleInv, ShapeInv, Files
  <2>4. File' = File /\ Pendings' = Pendings /\ File \in Files
    BY <1>0, <2>2, FileShape DEF File, Pendings, SettleInv
  <2>5. DOMAIN bindings'[File] = {key} \union DOMAIN bindings[File]
    BY <2>1, <2>4 DEF SettleInv, ShapeInv
  <2>6. Bound \union {next} \subseteq Bound' /\ next \notin Bound
    BY <1>0, <2>1, <2>4, <2>5 DEF Bound
  <2>7. /\ IsFiniteSet(Bound) /\ Cardinality(Bound) \in Nat
        /\ IsFiniteSet(Bound') /\ Cardinality(Bound)' \in Nat
    <3>1. (IsFiniteSet(Bound) /\ Cardinality(Bound) \in Nat)'
      BY <2>3, BoundCount, PTL
    <3> QED BY <3>1, BoundCount DEF SettleInv
  <2>8. Cardinality(Bound)' >= Cardinality(Bound) + 1
    <3>1. Cardinality(Bound \union {next}) = Cardinality(Bound) + 1
      BY <2>6, <2>7, FS_AddElement
    <3>2. Cardinality(Bound \union {next}) <= Cardinality(Bound')
      BY <2>6, <2>7, FS_Subset
    <3> QED BY <3>1, <3>2, <2>7
  <2>9. Counted'
    BY <1>0, <2>2, <2>7, <2>8 DEF Counted
  <2>10. Tried'
    BY <2>2 DEF Tried
  <2>11. RoundInv'
    BY <1>0, <2>4, <2>9, <2>10 DEF RoundInv, Early
  <2> QED BY <2>3, <2>11 DEF SettleInv
<1> QED BY <1>1, <1>2

\* A round has typed something, and another begins.
LEMMA RoundStep == ASSUME SettleInv, NextRound PROVE SettleInv'
<1>0. /\ UNCHANGED <<project, parseOrder, table, phase, bindings>> /\ next' = 1
      /\ phase = "fixpoint" /\ round.changed /\ round.n # MaxRounds
      /\ round' = [round EXCEPT !.n = @ + 1, !.changed = FALSE]
      /\ Counted /\ Len(Pendings) \in Nat
  BY FileShape DEF NextRound, RoundsOver, tableVars, SettleInv, RoundInv
<1>1. /\ round'.file = round.file /\ round'.n = round.n + 1 /\ ~round'.changed
      /\ round.file \in 1..Len(parseOrder) /\ round.n + 1 \in 1..MaxRounds
      /\ round' = [file |-> round.file, n |-> round.n + 1, changed |-> FALSE]
  <2>1. /\ round.file \in 1..Len(parseOrder) /\ round.n \in 1..MaxRounds
        /\ round = [file |-> round.file, n |-> round.n, changed |-> round.changed]
    BY DEF SettleInv, ShapeInv
  <2>2. round.n + 1 \in 1..MaxRounds
    BY <1>0, <2>1, RoundsAssumption
  <2>3. round' = [file |-> round.file, n |-> round.n + 1, changed |-> FALSE]
    BY <1>0, <2>1
  <2> QED BY <2>1, <2>2, <2>3
<1>2. ShapeInv'
  BY <1>0, <1>1 DEF SettleInv, ShapeInv, Files
<1>3. File' = File /\ Pendings' = Pendings
  BY <1>0, <1>1 DEF File, Pendings
<1>4. Tried'
  BY <1>0 DEF Tried
<1>5. Bound' = Bound /\ Cardinality(Bound) \in Nat
  BY <1>0, <1>3, BoundCount DEF Bound, SettleInv
<1>6. Counted'
  BY <1>0, <1>1, <1>5 DEF Counted, SettleInv, ShapeInv
<1>7. RoundInv'
  BY <1>0, <1>3, <1>4, <1>6 DEF RoundInv, Early
<1> QED BY <1>2, <1>7 DEF SettleInv

\* The rounds of the next file begin, or the last file is done.
LEMMA FileStep == ASSUME SettleInv, NextFile PROVE SettleInv'
<1>0. /\ UNCHANGED <<project, parseOrder, table>> /\ next' = 1 /\ phase = "fixpoint"
  BY DEF NextFile, tableVars
<1>1. (bindings = [f \in Files |-> bindings[f]])'
  BY <1>0 DEF NextFile, SettleInv, ShapeInv, Files
<1>2. Len(parseOrder) \in Nat
  BY Order DEF SettleInv, ShapeInv, Files
<1>3. CASE round.file < Len(parseOrder)
  <2>1. /\ round' = [file |-> round.file + 1, n |-> 1, changed |-> FALSE]
        /\ phase' = phase
    BY <1>3 DEF NextFile
  <2>2. ShapeInv'
    BY <1>0, <1>1, <1>2, <1>3, <2>1, RoundsAssumption DEF SettleInv, ShapeInv, Files
  <2>3. (Len(Pendings) \in Nat)' /\ (Cardinality(Bound) \in Nat)'
    BY <2>2, FileShape, BoundCount, PTL
  <2>4. Tried'
    BY <1>0 DEF Tried
  <2>5. Counted'
    BY <2>1, <2>3 DEF Counted
  <2>6. RoundInv'
    BY <1>0, <2>1, <2>3, <2>4, <2>5 DEF RoundInv, Early
  <2> QED BY <2>2, <2>6 DEF SettleInv
<1>4. CASE ~(round.file < Len(parseOrder))
  <2>1. UNCHANGED round /\ phase' = "calls"
    BY <1>4 DEF NextFile
  <2>2. ShapeInv'
    BY <1>0, <1>1, <2>1 DEF SettleInv, ShapeInv, Files
  <2> QED BY <2>1, <2>2 DEF SettleInv, RoundInv, Early
<1> QED BY <1>3, <1>4

LEMMA SettleStep == SettleInv /\ [Next]_vars => SettleInv'
<1> SUFFICES ASSUME SettleInv, [Next]_vars PROVE SettleInv'
  OBVIOUS
<1>1. CASE PropagateExports /\ UNCHANGED <<typeVars, hierarchyVars, relations, callVars>>
  BY <1>1, ExportsStep
<1>2. CASE InferTypes
  BY <1>2, LocalStep, PendingStep, RoundStep, FileStep DEF InferTypes
<1>3. CASE ResolveCalls
  BY <1>3, CallsStep
<1>4. CASE Relate \/ ResolveConstRefs
  BY <1>4, RelateStep
<1>5. CASE UNCHANGED vars
  BY <1>5, Resting
<1> QED BY <1>1, <1>2, <1>3, <1>4, <1>5 DEF Next, Done

\* For every project, language and order of the parse results: when the
\* rounds over the assignments of a file end, none is left that could be
\* typed, unless the file has more assignments than there are rounds.  Rounds
\* that end because nothing changed have tried all; rounds that run out have
\* each typed one, so all are typed.
THEOREM RoundsSettleTypes == Spec => []TypesSettle
<1>1. SettleInv => TypesSettle
  <2> SUFFICES ASSUME SettleInv, phase = "fixpoint", next > Len(Pendings), RoundsOver,
                      Len(Pendings) <= MaxRounds, NEW p \in ToSet(Pendings)
               PROVE  ~Typeable(File, p)
    BY DEF TypesSettle
  <2>1. PICK i \in 1..Len(Pendings) : p = Pendings[i]
    BY FileShape DEF SettleInv, ToSet
  <2>2. next = Len(Pendings) + 1 /\ Len(Pendings) \in Nat
    BY FileShape DEF SettleInv, RoundInv
  <2>3. CASE ~round.changed
    BY <2>1, <2>2, <2>3 DEF SettleInv, RoundInv, Tried
  <2>4. CASE round.changed
    <3>1. Cardinality(Bound) >= MaxRounds /\ Cardinality(Bound) \in Nat
      BY <2>4, BoundCount, RoundsAssumption DEF SettleInv, RoundInv, Counted, RoundsOver
    <3>2. Bound = 1..Len(Pendings)
      BY <2>2, <3>1, BoundCount, RoundsAssumption DEF SettleInv
    <3> QED BY <2>1, <3>2 DEF Bound, Typeable
  <2> QED BY <2>3, <2>4
<1> QED BY <1>1, SettleInit, SettleStep, PTL DEF Spec

----------------------------------------------------------------------------
(* Lists put end to end.  What a fold computes is a function of its length, *)
(* and has the parts that were put together.                               *)

\* A set of numbers has a least one.
LEMMA LeastNat ==
  ASSUME NEW T, T \subseteq Nat, T # {}
  PROVE  \E n \in T : \A m \in T : n <= m
<1> DEFINE R == OpToRel(<, Nat)
<1>1. IsWellFoundedOn(R, Nat)
  BY NatLessThanWellFounded
<1>2. ASSUME NEW n \in T, NEW m \in T, ~(<<m, n>> \in R) PROVE n <= m
  <2>1. ~(m < n) BY <1>2 DEF OpToRel
  <2> QED BY <2>1
<1> HIDE DEF R
<1>3. \E n \in T : \A m \in T : ~(<<m, n>> \in R)
  BY <1>1, WFMin, Zenon
<1> QED
  BY <1>2, <1>3

\* How FlattenSeq puts the first m lists together.
Flattening(ss, m, g) ==
  g = [i \in 1..m |-> IF i = 1 THEN ss[i] ELSE g[i - 1] \o ss[i]]

LEMMA Flattenable ==
  ASSUME NEW S, NEW n \in Nat, NEW ss \in [1..n -> Seq(S)]
  PROVE  \E g \in [1..n -> Seq(S)] : Flattening(ss, n, g)
<1> DEFINE T == {m \in 0..n : ~\E g \in [1..m -> Seq(S)] : Flattening(ss, m, g)}
<1>1. SUFFICES T = {}
  <2>1. n \notin T => \E g \in [1..n -> Seq(S)] : Flattening(ss, n, g)
    OBVIOUS
  <2> QED BY <2>1
<1>2. SUFFICES ASSUME T # {} PROVE FALSE
  OBVIOUS
<1>3. PICK m \in T : \A k \in T : m <= k
  <2>1. T \subseteq Nat
    OBVIOUS
  <2> HIDE DEF T
  <2> QED BY <1>2, <2>1, LeastNat
<1>4. m # 0
  <2>1. SUFFICES ASSUME m = 0 PROVE FALSE
    OBVIOUS
  <2> DEFINE g == [i \in 1..0 |-> <<>>]
  <2>2. g \in [1..0 -> Seq(S)] /\ Flattening(ss, 0, g)
    BY DEF Flattening
  <2> QED BY <2>1, <2>2
<1>5. m - 1 \in 0..n /\ m \in 1..n /\ m - 1 \notin T
  <2>1. m \in 0..n
    BY <1>3
  <2>2. m - 1 \in 0..n /\ m \in 1..n /\ ~(m <= m - 1)
    BY <1>4, <2>1
  <2> HIDE DEF T
  <2> QED BY <1>3, <2>2
<1>6. PICK g \in [1..(m - 1) -> Seq(S)] : Flattening(ss, m - 1, g)
  BY <1>5
<1> DEFINE h == [i \in 1..m |-> IF i < m THEN g[i]
                                ELSE IF i = 1 THEN ss[i] ELSE g[i - 1] \o ss[i]]
<1>7. h \in [1..m -> Seq(S)]
  <2>1. ASSUME NEW i \in 1..m PROVE (IF i < m THEN g[i] ELSE IF i = 1 THEN ss[i] ELSE g[i - 1] \o ss[i]) \in Seq(S)
    <3>1. CASE i < m
      BY <3>1, <1>5
    <3>2. CASE ~(i < m) /\ i = 1
      BY <3>2, <1>5
    <3>3. CASE ~(i < m) /\ i # 1
      <4>1. g[i - 1] \in Seq(S) /\ ss[i] \in Seq(S)
        BY <3>3, <1>5
      <4> HIDE DEF h
      <4> QED BY <3>3, <4>1
    <3> QED BY <3>1, <3>2, <3>3
  <2> QED BY <2>1
<1>8. Flattening(ss, m, h)
  <2>1. ASSUME NEW i \in 1..m PROVE h[i] = IF i = 1 THEN ss[i] ELSE h[i - 1] \o ss[i]
    <3>1. CASE i < m
      <4>1. g[i] = IF i = 1 THEN ss[i] ELSE g[i - 1] \o ss[i]
        <5>1. i \in 1..(m - 1)
          BY <1>5, <3>1
        <5> HIDE DEF h
        <5> QED BY <1>6, <5>1 DEF Flattening
      <4>2. i # 1 => h[i - 1] = g[i - 1]
        BY <3>1, <1>5
      <4>3. h[i] = g[i]
        BY <3>1, <1>5
      <4> HIDE DEF h
      <4> QED BY <4>1, <4>2, <4>3
    <3>2. CASE ~(i < m)
      BY <3>2, <1>5
    <3> QED BY <3>1, <3>2
  <2>2. h = [i \in 1..m |-> h[i]]
    OBVIOUS
  <2> HIDE DEF h
  <2> QED BY <2>1, <2>2 DEF Flattening
<1> HIDE DEF h
<1> QED BY <1>5, <1>7, <1>8, <1>3

\* A list has what the first k of others have.
HasParts(list, ss, k) == \A x : x \in ToSet(list) <=> \E j \in 1..k : x \in ToSet(ss[j])

\* What is put end to end is what there was.
LEMMA FlatParts ==
  ASSUME NEW S, NEW n \in Nat, NEW ss \in [1..n -> Seq(S)], NEW g, Flattening(ss, n, g),
         NEW i \in 1..n
  PROVE  g[i] \in Seq(S) /\ HasParts(g[i], ss, i)
<1> DEFINE P(k) == g[k] \in Seq(S) /\ HasParts(g[k], ss, k)
           T == {k \in 1..n : ~P(k)}
<1>1. SUFFICES T = {}
  OBVIOUS
<1>2. SUFFICES ASSUME T # {} PROVE FALSE
  OBVIOUS
<1>3. PICK m \in T : \A k \in T : m <= k
  <2>1. T \subseteq Nat
    OBVIOUS
  <2> HIDE DEF T
  <2> QED BY <1>2, <2>1, LeastNat
<1>4. m \in 1..n /\ ~P(m) /\ ss[m] \in Seq(S)
  OBVIOUS
<1>5. g[m] = IF m = 1 THEN ss[m] ELSE g[m - 1] \o ss[m]
  BY <1>4 DEF Flattening
<1>6. CASE m = 1
  <2>1. g[m] = ss[1] /\ ss[1] \in Seq(S) /\ 1..m = {1}
    BY <1>4, <1>5, <1>6
  <2> QED BY <1>4, <2>1 DEF HasParts
<1>7. CASE m # 1
  <2>1. m - 1 \in 1..n /\ ~(m <= m - 1)
    BY <1>4, <1>7
  <2>2. P(m - 1)
    <3>1. m - 1 \notin T
      <4> HIDE DEF T
      <4> QED BY <1>3, <2>1
    <3> QED BY <2>1, <3>1
  <2>3. g[m] = g[m - 1] \o ss[m] /\ g[m - 1] \in Seq(S)
    BY <1>5, <1>7, <2>2
  <2>4. g[m] \in Seq(S) /\ ToSet(g[m]) = ToSet(g[m - 1]) \union ToSet(ss[m])
    <3>1. ASSUME NEW a \in Seq(S), NEW b \in Seq(S)
          PROVE  a \o b \in Seq(S) /\ ToSet(a \o b) = ToSet(a) \union ToSet(b)
      <4>1. a \o b \in Seq(S) /\ Len(a \o b) = Len(a) + Len(b)
            /\ Len(a) \in Nat /\ Len(b) \in Nat /\ DOMAIN (a \o b) = 1..(Len(a) + Len(b))
        BY <3>1
      <4> DEFINE c == a \o b
      <4>0. \A k \in 1..(Len(a) + Len(b)) : c[k] \in ToSet(c)
        BY <4>1 DEF ToSet
      <4>2. ASSUME NEW x \in ToSet(a \o b) PROVE x \in ToSet(a) \union ToSet(b)
        <5>1. PICK k \in 1..(Len(a) + Len(b)) : x = (a \o b)[k]
          BY <4>1, <4>2 DEF ToSet
        <5>2. CASE k <= Len(a)
          BY <3>1, <4>1, <5>1, <5>2 DEF ToSet
        <5>3. CASE ~(k <= Len(a))
          <6>1. k - Len(a) \in 1..Len(b) /\ x = b[k - Len(a)]
            BY <3>1, <4>1, <5>1, <5>3
          <6> QED BY <3>1, <6>1 DEF ToSet
        <5> QED BY <5>2, <5>3
      <4>3. ASSUME NEW x \in ToSet(a) PROVE x \in ToSet(a \o b)
        <5>1. PICK k \in 1..Len(a) : x = a[k]
          BY <3>1, <4>3 DEF ToSet
        <5>2. k \in 1..(Len(a) + Len(b)) /\ (a \o b)[k] = a[k]
          BY <3>1, <4>1, <5>1
        <5> QED BY <4>0, <5>1, <5>2
      <4>4. ASSUME NEW x \in ToSet(b) PROVE x \in ToSet(a \o b)
        <5>1. PICK k \in 1..Len(b) : x = b[k]
          BY <3>1, <4>4 DEF ToSet
        <5>2. k + Len(a) \in 1..(Len(a) + Len(b)) /\ (a \o b)[k + Len(a)] = b[k]
          BY <3>1, <4>1, <5>1
        <5> QED BY <4>0, <5>1, <5>2
      <4> QED BY <4>1, <4>2, <4>3, <4>4
    <3> QED BY <1>4, <2>3, <3>1
  <2>5. \A j : j \in 1..m <=> j \in 1..(m - 1) \/ j = m
    BY <1>4
  <2> QED BY <1>4, <2>2, <2>4, <2>5 DEF HasParts
<1> QED BY <1>6, <1>7

\* FlattenSeq is such a function.
LEMMA Flattened ==
  ASSUME NEW S, NEW n \in Nat \ {0}, NEW ss \in [1..n -> Seq(S)]
  PROVE  FlattenSeq(ss) \in Seq(S) /\ HasParts(FlattenSeq(ss), ss, n)
<1>1. Len(ss) = n /\ n \in 1..n /\ n \in Nat
  OBVIOUS
<1> DEFINE f == CHOOSE g : Flattening(ss, n, g)
<1>2. FlattenSeq(ss) = f[n]
  BY <1>1 DEF FlattenSeq, Flattening
<1>3. Flattening(ss, n, f)
  BY Flattenable
<1> HIDE DEF f
<1> QED BY <1>1, <1>2, <1>3, FlatParts

----------------------------------------------------------------------------
(* The names of symbols.                                                   *)

\* In whatever order the files are parsed, the lists have the same.
PartsOf(part) == UNION {ToSet(project.files[f][part]) : f \in Files}

LEMMA Collected ==
  ASSUME project \in Projects, NEW order \in SetToSeqs(Files),
         NEW part \in {"symbols", "imports", "heritage"}
  PROVE  /\ Collect(order, part) \in Seq(PartsOf(part))
         /\ ToSet(Collect(order, part)) = PartsOf(part)
<1> DEFINE n == Cardinality(Files)
           S == PartsOf(part)
           ss == [i \in 1..n |-> project.files[order[i]][part]]
<1>1. n \in Nat \ {0} /\ IsFiniteSet(Files)
  BY ProjectsAssumption, FS_CardinalityType, FS_EmptySet DEF Files
<1>2. order \in [1..n -> Files] /\ \A i, j \in 1..n : i # j => order[i] # order[j]
  BY DEF SetToSeqs
<1>3. \A f \in Files : \E i \in 1..n : order[i] = f
  <2>1. order \in Injection(1..n, Files)
    BY <1>2 DEF Injection, IsInjective
  <2>2. IsFiniteSet(1..n) /\ Cardinality(1..n) = n
    BY <1>1, FS_Interval
  <2>3. order \in Surjection(1..n, Files)
    <3> HIDE DEF n
    <3> QED BY <1>1, <2>1, <2>2, FS_Injection DEF n
  <2> QED BY <2>3 DEF Surjection
<1>4. Len(order) = n /\ Collect(order, part) = FlattenSeq(ss)
  <2>1. Len(order) = n
    <3> HIDE DEF n
    <3> QED BY <1>1, <1>2
  <2> QED BY <2>1 DEF Collect
<1>5. ss \in [1..n -> Seq(S)]
  <2>1. ASSUME NEW f \in Files PROVE project.files[f][part] \in Seq(S)
    <3>1. project.files[f][part] \in Seq(ToSet(project.files[f][part]))
      BY PartsAssumption DEF Files
    <3>2. ToSet(project.files[f][part]) \subseteq S
      BY DEF PartsOf
    <3> HIDE DEF S
    <3> QED BY <3>1, <3>2
  <2> HIDE DEF S, n
  <2> QED BY <1>2, <2>1
<1>6. Collect(order, part) \in Seq(S) /\ HasParts(Collect(order, part), ss, n)
  <2> HIDE DEF S, n, ss
  <2> QED BY <1>1, <1>4, <1>5, Flattened
<1>7. ASSUME NEW x PROVE x \in ToSet(Collect(order, part)) <=> x \in S
  <2>1. x \in ToSet(Collect(order, part)) <=> \E i \in 1..n : x \in ToSet(project.files[order[i]][part])
    <3>1. \A i \in 1..n : ss[i] = project.files[order[i]][part]
      OBVIOUS
    <3> HIDE DEF ss, n
    <3> QED BY <1>6, <3>1 DEF HasParts
  <2> HIDE DEF n
  <2> QED BY <1>2, <1>3, <2>1 DEF PartsOf
<1> QED BY <1>6, <1>7

\* The parse results, and the table while nothing was added to it.
Shape == project \in Projects /\ parseOrder \in SetToSeqs(Files)

LEMMA Lists ==
  ASSUME Shape
  PROVE  /\ OwnSymbols \in Seq(PartsOf("symbols")) /\ DOMAIN OwnSymbols = 1..Len(OwnSymbols)
         /\ ToSet(OwnSymbols) = PartsOf("symbols")
         /\ Entries \in Seq(PartsOf("imports")) /\ Len(Entries) \in Nat
         /\ \A i \in 1..Len(Entries) : Entries[i] \in ToSet(Entries)
         /\ \A e \in ToSet(Entries) : \E i \in 1..Len(Entries) : e = Entries[i]
         /\ \A e \in ToSet(Entries) : e.file \in Files
         /\ \A s \in ToSet(OwnSymbols) : s.file \in Files /\ s # Nothing
<1>1. /\ OwnSymbols \in Seq(PartsOf("symbols")) /\ ToSet(OwnSymbols) = PartsOf("symbols")
      /\ Entries \in Seq(PartsOf("imports")) /\ ToSet(Entries) = PartsOf("imports")
  BY Collected DEF Shape, OwnSymbols, Entries
<1>2. \A part \in {"symbols", "imports"} : \A x \in PartsOf(part) : x.file \in Files /\ x # Nothing
  BY PartsAssumption DEF PartsOf, Files, Shape
<1>3. \A e \in ToSet(Entries) : \E i \in 1..Len(Entries) : e = Entries[i]
  BY <1>1 DEF ToSet
<1>4. \A i \in 1..Len(Entries) : Entries[i] \in ToSet(Entries)
  BY <1>1 DEF ToSet
<1> QED BY <1>1, <1>2, <1>3, <1>4

LEMMA Appended ==
  ASSUME NEW D, NEW p \in Seq(D), NEW x
  PROVE  Last(Append(p, x)) = x /\ Front(Append(p, x)) = p
<1> DEFINE E == D \union {x}
           q == Append(p, x)
<1>1. p \in Seq(E) /\ x \in E
  OBVIOUS
<1> HIDE DEF E
<1>2. q \in Seq(E) /\ Len(q) = Len(p) + 1 /\ q[Len(p) + 1] = x /\ Len(p) \in Nat
      /\ \A i \in 1..Len(p) : q[i] = p[i]
  BY <1>1
<1>3. Last(q) = x
  BY <1>2 DEF Last
<1>4. Front(q) = SubSeq(q, 1, Len(p))
  BY <1>2 DEF Front
<1> HIDE DEF q
<1>5. SubSeq(q, 1, Len(p)) \in Seq(E) /\ Len(SubSeq(q, 1, Len(p))) = Len(p)
      /\ \A i \in 1..Len(p) : SubSeq(q, 1, Len(p))[i] = q[i]
  BY <1>2, SubSeqProperties
<1>6. SubSeq(q, 1, Len(p)) = p
  BY <1>1, <1>2, <1>5
<1> QED BY <1>3, <1>4, <1>6 DEF q

LEMMA NameParts ==
  ASSUME project \in Projects, NEW f \in Files
  PROVE  \A x : Last(NameIn(f, x)) = x /\ Front(NameIn(f, x)) = DerivePackage(f)
<1>1. f \in Seq(STRING) /\ project.lang \in STRING
  BY PartsAssumption DEF Files
<1>2. DerivePackage(f) \in Seq(STRING)
  <2>1. Append(f, project.lang) \in Seq(STRING)
    BY <1>1
  <2>2. Len(f) > 1 => Front(f) \in Seq(STRING)
    BY <1>1 DEF Front
  <2> QED BY <1>1, <2>1, <2>2 DEF DerivePackage
<1> QED BY <1>2, Appended DEF NameIn

LEMMA Targets == ASSUME NEW e PROVE ResolveTargetFile(e) \in Files \union {Nothing}
<1>1. \A m : AliasFile(m) \in Files \union {Nothing}
  BY DEF AliasFile
<1>2. \A p : Module(p) \in Files \union {Nothing}
  BY DEF Module
<1> QED BY <1>1, <1>2 DEF ResolveTargetFile

\* Names are the same while the parse results are.
LEMMA NamesRest ==
  ASSUME UNCHANGED <<project, parseOrder>>
  PROVE  /\ Files' = Files /\ Entries' = Entries /\ OwnSymbols' = OwnSymbols
         /\ ExportedSymbols' = ExportedSymbols
         /\ \A f, n : NameIn(f, n)' = NameIn(f, n)
         /\ \A s : OwnName(s)' = OwnName(s)
         /\ \A e : ResolveTargetFile(e)' = ResolveTargetFile(e)
         /\ \A s : NamesOf(s)' = NamesOf(s)
<1>1. Files' = Files /\ \A p, q : Collect(p, q)' = Collect(p, q)
  BY DEF Files, Collect
<1>2. Entries' = Entries /\ OwnSymbols' = OwnSymbols
  BY DEF Entries, OwnSymbols, Collect
<1>3. ExportedSymbols' = ExportedSymbols /\ ReExportEntries' = ReExportEntries
  BY <1>2 DEF ExportedSymbols, ReExportEntries
<1>4. \A f : DerivePackage(f)' = DerivePackage(f)
  BY DEF DerivePackage
<1>5. \A f, n : NameIn(f, n)' = NameIn(f, n)
  BY <1>4 DEF NameIn
<1>6. \A s : OwnName(s)' = OwnName(s)
  BY <1>5 DEF OwnName
<1>7. \A m : AliasFile(m)' = AliasFile(m)
  BY DEF AliasFile, Files
<1>8. \A p : Module(p)' = Module(p)
  BY DEF Module, Files
<1>9. \A e : ResolveTargetFile(e)' = ResolveTargetFile(e)
  BY <1>7, <1>8 DEF ResolveTargetFile
<1>10. \A s : PossibleNames(s)' = PossibleNames(s)
  <2> SUFFICES ASSUME NEW s, NEW x PROVE x \in PossibleNames(s)' <=> x \in PossibleNames(s)
    OBVIOUS
  <2> QED BY <1>3, <1>5, <1>6 DEF PossibleNames
<1>11. \A e, s : PassedBy(e, s)' = PassedBy(e, s)
  BY <1>4, <1>9, <1>10 DEF PassedBy
<1>12. \A e, n : NameGiven(e, n)' = NameGiven(e, n)
  BY <1>5 DEF NameGiven
<1>13. \A s : Passing(s)' = Passing(s)
  BY <1>3, <1>11, <1>12 DEF Passing
<1>14. \A s : NamesOf(s)' = NamesOf(s)
  BY <1>6, <1>10, <1>13 DEF NamesOf
<1> QED BY <1>1, <1>2, <1>3, <1>5, <1>6, <1>9, <1>14

\* What a re-export gives to a possible name is one.
LEMMA PossibleGiven ==
  ASSUME Shape, NEW s \in ToSet(OwnSymbols), NEW e \in ReExportEntries, NEW n \in PassedBy(e, s)
  PROVE  NameGiven(e, n) \in PossibleNames(s)
<1> DEFINE renamed == {x \in ReExportEntries : ~x.isWildcard}
           passing == {x \in ReExportEntries : x.isWildcard}
           short == {Last(s.qn)} \cup {x.localName : x \in renamed}
<1>1. PossibleNames(s) = {OwnName(s)} \cup {NameIn(x.file, x.localName) : x \in renamed}
                          \cup {NameIn(x.file, y) : x \in passing, y \in short}
  BY DEF PossibleNames
<1>2. CASE ~e.isWildcard
  BY <1>2 DEF NameGiven, PossibleNames
<1>3. CASE e.isWildcard
  <2>1. n \in PossibleNames(s)
    BY DEF PassedBy
  <2>2. s.file \in Files /\ \A x \in renamed \union passing : x.file \in Files
    BY Lists DEF ReExportEntries
  <2>3. \A f \in Files : \A x : Last(NameIn(f, x)) = x
    BY NameParts DEF Shape
  <2>4. Last(n) \in short
    <3>1. CASE n = OwnName(s)
      BY <2>2, <2>3, <3>1 DEF OwnName
    <3>2. CASE \E x \in renamed : n = NameIn(x.file, x.localName)
      BY <2>2, <2>3, <3>2
    <3>3. CASE \E x \in passing, y \in short : n = NameIn(x.file, y)
      <4> HIDE DEF short
      <4> QED BY <2>2, <2>3, <3>3
    <3> HIDE DEF short, passing, renamed
    <3> QED BY <1>1, <2>1, <3>1, <3>2, <3>3
  <2>5. NameGiven(e, n) = NameIn(e.file, Last(n)) /\ e \in passing
    BY <1>3 DEF NameGiven
  <2> HIDE DEF short, passing, renamed
  <2> QED BY <1>1, <2>4, <2>5
<1> QED BY <1>2, <1>3

\* The names of a symbol: its own, and what re-exports pass on of them.
LEMMA NamesClosed ==
  ASSUME Shape, NEW s \in ToSet(OwnSymbols)
  PROVE  /\ OwnName(s) \in NamesOf(s)
         /\ \A e \in ReExportEntries, n \in NamesOf(s) :
              n \in PassedBy(e, s) => NameGiven(e, n) \in NamesOf(s)
<1>1. OwnName(s) \in NamesOf(s)
  BY DEF NamesOf, PossibleNames
<1>2. ASSUME NEW e \in ReExportEntries, NEW n \in NamesOf(s), n \in PassedBy(e, s)
      PROVE  NameGiven(e, n) \in NamesOf(s)
  <2>1. <<n, NameGiven(e, n)>> \in Passing(s)
    BY <1>2 DEF Passing
  <2>2. NameGiven(e, n) \in PossibleNames(s)
    BY <1>2, PossibleGiven
  <2> QED BY <2>1, <2>2 DEF NamesOf
<1> QED BY <1>1, <1>2

\* They are in every set that has these.
LEMMA NamesLeast ==
  ASSUME Shape, NEW s \in ToSet(OwnSymbols), NEW A, OwnName(s) \in A,
         \A e \in ReExportEntries, n \in A : n \in PassedBy(e, s) => NameGiven(e, n) \in A
  PROVE  NamesOf(s) \subseteq A
<1> DEFINE B == A \intersect PossibleNames(s)
<1>1. B \in SUBSET PossibleNames(s) /\ OwnName(s) \in B
  BY DEF PossibleNames
<1>2. ASSUME NEW p \in Passing(s), p[1] \in B PROVE p[2] \in B
  <2>0. PICK e \in ReExportEntries : \E n \in PassedBy(e, s) : p = <<n, NameGiven(e, n)>>
    BY DEF Passing
  <2>1. PICK n \in PassedBy(e, s) : p = <<n, NameGiven(e, n)>>
    BY <2>0
  <2>2. n \in A
    BY <1>2, <2>1
  <2>3. NameGiven(e, n) \in A /\ NameGiven(e, n) \in PossibleNames(s)
    BY <2>1, <2>2, PossibleGiven
  <2> QED BY <2>1, <2>3
<1> HIDE DEF B
<1>3. \A n \in NamesOf(s) : n \in B
  BY <1>1, <1>2 DEF NamesOf
<1> QED BY <1>3 DEF B

\* A possible name in the package of a file is of that file, as far as
\* names tell.
LEMMA NameOfPackage ==
  ASSUME Shape, NEW s \in ToSet(OwnSymbols), NEW n \in PossibleNames(s),
         NEW f, Front(n) = DerivePackage(f)
  PROVE  n = NameIn(f, Last(n))
<1>1. \E g \in Files : \E x : n = NameIn(g, x)
  <2>1. s.file \in Files /\ \A x \in ReExportEntries : x.file \in Files
    BY Lists DEF ReExportEntries
  <2> QED BY <2>1 DEF PossibleNames, OwnName
<1>2. PICK g \in Files : \E x : n = NameIn(g, x)
  BY <1>1
<1>3. PICK x : n = NameIn(g, x)
  BY <1>2
<1>4. Last(n) = x /\ Front(n) = DerivePackage(g)
  BY <1>3, NameParts DEF Shape
<1> QED BY <1>3, <1>4 DEF NameIn

----------------------------------------------------------------------------
(* Waking.                                                                 *)

LEMMA WokenClosed ==
  ASSUME NEW names
  PROVE  /\ names \subseteq Woken(names)
         /\ \A w \in waitingFor : w.awaited \in Woken(names) => w.waiter \in Woken(names)
BY DEF Woken

LEMMA WokenLeast ==
  ASSUME NEW names, NEW A, names \subseteq A,
         \A w \in waitingFor : w.awaited \in A => w.waiter \in A
  PROVE  Woken(names) \subseteq A
<1> DEFINE all == names \cup {w.waiter : w \in waitingFor}
           B == A \intersect all
<1>1. B \in SUBSET all /\ names \subseteq B
  OBVIOUS
<1>2. \A w \in waitingFor : w.awaited \in B => w.waiter \in B
  OBVIOUS
<1>3. \A n \in Woken(names) : n \in B
  <2> HIDE DEF B
  <2> QED BY <1>1, <1>2 DEF Woken
<1> QED BY <1>3

----------------------------------------------------------------------------
(* What a step registers.                                                  *)

BarrelOf(e) == NameIn(e.file, e.localName)
SourceOf(e) == NameIn(ResolveTargetFile(e), e.name)

\* The first of some places is one of them.
LEMMA FirstIsOne ==
  ASSUME NEW list, NEW places \in SUBSET Nat, FirstAt(places, list) # Nothing
  PROVE  \E i \in places : FirstAt(places, list) = list[i]
<1>1. places # {} /\ FirstAt(places, list) = list[Min(places)]
  BY DEF FirstAt
<1>2. \E i \in places : \A j \in places : i <= j
  BY <1>1, LeastNat
<1>3. Min(places) \in places
  BY <1>2 DEF Min
<1> QED BY <1>1, <1>3

\* A name that a re-export asks for is passed on.
LEMMA PassedSource ==
  ASSUME Shape, NEW s \in ToSet(OwnSymbols), NEW e \in ReExportEntries, ~e.isWildcard,
         ResolveTargetFile(e) # Nothing, SourceOf(e) \in NamesOf(s)
  PROVE  BarrelOf(e) \in NamesOf(s)
<1>1. ResolveTargetFile(e) \in Files
  BY Targets
<1>2. Front(SourceOf(e)) = DerivePackage(ResolveTargetFile(e)) /\ Last(SourceOf(e)) = e.name
  BY <1>1, NameParts DEF Shape, SourceOf
<1>3. SourceOf(e) \in PassedBy(e, s)
  BY <1>2 DEF PassedBy, NamesOf
<1>4. NameGiven(e, SourceOf(e)) = BarrelOf(e)
  BY DEF NameGiven, BarrelOf
<1> QED BY <1>3, <1>4, NamesClosed

\* So is a symbol of the target that is found by the name.
LEMMA PassedDirect ==
  ASSUME Shape, table \in Seq(ToSet(table)), ToSet(table) = ToSet(OwnSymbols),
         NEW e \in ReExportEntries, ~e.isWildcard, ResolveTargetFile(e) # Nothing,
         FindSymbolInFile(ResolveTargetFile(e), e.name) # Nothing
  PROVE  /\ FindSymbolInFile(ResolveTargetFile(e), e.name) \in ExportedSymbols
         /\ BarrelOf(e) \in NamesOf(FindSymbolInFile(ResolveTargetFile(e), e.name))
<1> DEFINE target == ResolveTargetFile(e)
           places == {i \in FindExportedByFile(target) :
                        Last(table[i].qn) = e.name
                        \/ (e.name = "default" /\ table[i].isDefault)}
<1>1. places \in SUBSET Nat /\ FindSymbolInFile(target, e.name) = FirstAt(places, table)
  BY DEF FindExportedByFile, FindSymbolInFile
<1>2. PICK i \in places : FindSymbolInFile(target, e.name) = table[i]
  <2> HIDE DEF places
  <2> QED BY <1>1, FirstIsOne
<1> DEFINE s == table[i]
<1>3. s \in ToSet(OwnSymbols) /\ s.exported /\ s.file = target
      /\ (Last(s.qn) = e.name \/ (e.name = "default" /\ s.isDefault))
  BY <1>2 DEF FindExportedByFile, ToSet
<1> HIDE DEF s, places
<1>4. target \in Files
  BY Targets
<1>5. Front(OwnName(s)) = DerivePackage(target) /\ Last(OwnName(s)) = Last(s.qn)
  BY <1>3, <1>4, NameParts DEF Shape, OwnName
<1>6. OwnName(s) \in NamesOf(s)
  BY <1>3, NamesClosed
<1>7. OwnName(s) \in PassedBy(e, s)
  BY <1>3, <1>5, <1>6 DEF PassedBy, NamesOf
<1>8. NameGiven(e, OwnName(s)) = BarrelOf(e)
  BY DEF NameGiven, BarrelOf
<1>9. BarrelOf(e) \in NamesOf(s)
  BY <1>3, <1>6, <1>7, <1>8, NamesClosed
<1> QED BY <1>2, <1>3, <1>9 DEF ExportedSymbols, s

\* A wildcard gives each symbol that its target exports its own last name.
LEMMA PassedByWildcard ==
  ASSUME Shape, NEW s \in ToSet(OwnSymbols), NEW e \in ReExportEntries, e.isWildcard,
         ResolveTargetFile(e) # Nothing, s.file = ResolveTargetFile(e)
  PROVE  NameIn(e.file, Last(s.qn)) \in NamesOf(s)
<1>1. ResolveTargetFile(e) \in Files
  BY Targets
<1>2. Front(OwnName(s)) = DerivePackage(ResolveTargetFile(e)) /\ Last(OwnName(s)) = Last(s.qn)
  BY <1>1, NameParts DEF Shape, OwnName
<1>3. OwnName(s) \in NamesOf(s)
  BY NamesClosed
<1>4. OwnName(s) \in PassedBy(e, s)
  BY <1>2, <1>3 DEF PassedBy, NamesOf
<1>5. NameGiven(e, OwnName(s)) = NameIn(e.file, Last(s.qn))
  BY <1>2 DEF NameGiven
<1> QED BY <1>3, <1>4, <1>5, NamesClosed

----------------------------------------------------------------------------
(* The invariant of the propagation.                                       *)

Propagating == {"imports", "exports", "reexports"}

NoWildcards == \A e \in ReExportEntries : ~e.isWildcard

\* The target has no default export that the entry could ask for.
NoDefault(e) ==
  e.name = "default" =>
    \A s \in ExportedSymbols : ~(s.isDefault /\ s.file = ResolveTargetFile(e))

\* The name that an entry gives is registered, or waits for the one it asks for.
Settled(e) ==
  e.isReexport /\ ~e.isWildcard /\ ResolveTargetFile(e) # Nothing =>
    \/ BarrelOf(e) \in DOMAIN reExports
    \/ [awaited |-> SourceOf(e), waiter |-> BarrelOf(e)] \in waitingFor /\ NoDefault(e)

\* Registered names are real; the names that wait for one that may be
\* registered for a symbol may be, too.
RealInv ==
  /\ ReExportsAreReal
  /\ \A w \in waitingFor, s \in ExportedSymbols :
       w.awaited \in NamesOf(s) => w.waiter \in NamesOf(s)

StartInv ==
  /\ phase \in Propagating => table \in Seq(ToSet(table)) /\ ToSet(table) = ToSet(OwnSymbols)
  /\ phase \in {"imports", "exports"} => waitingFor = {} /\ reExports = Empty

\* Nobody waits for a registered name, and the entries so far are settled.
SettledInv ==
  /\ phase = "reexports" =>
       /\ HasReExports /\ next \in 1..(Len(Entries) + 1)
       /\ \A s \in ExportedSymbols : OwnName(s) \in DOMAIN reExports
  /\ NoWildcards =>
       /\ \A w \in waitingFor : w.awaited \notin DOMAIN reExports
       /\ phase = "reexports" =>
            \A i \in 1..(next - 1) : \A e \in {Entries[i]} : Settled(e)

ExportInv == Shape /\ RealInv /\ StartInv /\ SettledInv /\ BarrelsResolve

LEMMA WildcardsRest ==
  ASSUME UNCHANGED <<project, parseOrder>>
  PROVE  /\ NoWildcards' = NoWildcards /\ HasReExports' = HasReExports
         /\ ReExportEntries' = ReExportEntries
         /\ \A e : NoDefault(e)' <=> NoDefault(e)
         /\ \A e : BarrelOf(e)' = BarrelOf(e) /\ SourceOf(e)' = SourceOf(e)
<1>1. /\ Entries' = Entries /\ ExportedSymbols' = ExportedSymbols
      /\ \A e : ResolveTargetFile(e)' = ResolveTargetFile(e)
      /\ \A f, n : NameIn(f, n)' = NameIn(f, n)
  BY NamesRest
<1>2. ReExportEntries' = ReExportEntries
  BY <1>1 DEF ReExportEntries
<1> QED BY <1>1, <1>2 DEF NoWildcards, HasReExports, NoDefault, BarrelOf, SourceOf

LEMMA NamesInit == Init => ExportInv
<1> SUFFICES ASSUME Init PROVE ExportInv
  OBVIOUS
<1>1. Shape
  BY DEF Init, InitTable, Shape, Files
<1>2. waitingFor = {} /\ reExports = Empty /\ phase = "imports"
  BY DEF Init, InitTable, InitExports
<1>3. table \in Seq(ToSet(table)) /\ ToSet(table) = ToSet(OwnSymbols)
  <2>1. PICK added \in SetToSeqs(Files) : table = Collect(added, "symbols")
    BY DEF Init, InitTable, Files
  <2> QED BY <1>1, <2>1, Collected DEF Shape, OwnSymbols
<1>4. RealInv
  BY <1>2 DEF RealInv, ReExportsAreReal, Empty
<1> QED BY <1>1, <1>2, <1>3, <1>4 DEF ExportInv, StartInv, SettledInv, BarrelsResolve

\* What rests when nothing is registered and nothing is processed.
LEMMA ExportRest ==
  ASSUME ExportInv, UNCHANGED <<project, parseOrder, reExports, waitingFor>>,
         \/ UNCHANGED <<phase, next, table>>
         \/ phase \notin Propagating /\ phase' \notin Propagating
  PROVE  ExportInv'
<1>1. /\ Entries' = Entries /\ ExportedSymbols' = ExportedSymbols /\ OwnSymbols' = OwnSymbols
      /\ Files' = Files /\ (\A s : NamesOf(s)' = NamesOf(s))
      /\ (\A s : OwnName(s)' = OwnName(s))
      /\ (\A e : ResolveTargetFile(e)' = ResolveTargetFile(e))
  BY NamesRest
<1>2. /\ NoWildcards' = NoWildcards /\ HasReExports' = HasReExports
      /\ (\A e : NoDefault(e)' <=> NoDefault(e))
      /\ (\A e : BarrelOf(e)' = BarrelOf(e) /\ SourceOf(e)' = SourceOf(e))
  BY WildcardsRest
<1>3. Shape'
  BY <1>1 DEF ExportInv, Shape
<1>4. RealInv'
  BY <1>1 DEF ExportInv, RealInv, ReExportsAreReal
<1>5. StartInv'
  BY <1>1 DEF ExportInv, StartInv, Propagating
<1>6. \A e : Settled(e)' <=> Settled(e)
  BY <1>1, <1>2 DEF Settled
<1>7. SettledInv'
  BY <1>1, <1>2, <1>6 DEF ExportInv, SettledInv, Propagating
<1>8. BarrelsResolve'
  BY <1>1, <1>2 DEF ExportInv, BarrelsResolve, Propagating
<1> QED BY <1>3, <1>4, <1>5, <1>7, <1>8 DEF ExportInv

\* An entry is processed: what has to be shown of it.
LEMMA EntryDone ==
  ASSUME ExportInv, Advance, RealInv', DOMAIN reExports \subseteq DOMAIN reExports',
         NoWildcards =>
           /\ \A w \in waitingFor' : w.awaited \notin DOMAIN reExports'
           /\ \A w \in waitingFor : w.waiter \in DOMAIN reExports' \/ w \in waitingFor'
           /\ Settled(Entry) \/ BarrelOf(Entry) \in DOMAIN reExports'
              \/ ([awaited |-> SourceOf(Entry), waiter |-> BarrelOf(Entry)] \in waitingFor'
                  /\ NoDefault(Entry))
  PROVE  ExportInv'
<1>0. /\ UNCHANGED <<project, parseOrder, table, phase>> /\ next' = next + 1
      /\ phase = "reexports" /\ next <= Len(Entries)
      /\ next \in 1..(Len(Entries) + 1) /\ Len(Entries) \in Nat
  BY Lists DEF Advance, ExportInv, SettledInv
<1>1. /\ Entries' = Entries /\ ExportedSymbols' = ExportedSymbols /\ OwnSymbols' = OwnSymbols
      /\ Files' = Files /\ (\A s : NamesOf(s)' = NamesOf(s))
      /\ (\A s : OwnName(s)' = OwnName(s))
      /\ (\A e : ResolveTargetFile(e)' = ResolveTargetFile(e))
  BY <1>0, NamesRest
<1>2. /\ NoWildcards' = NoWildcards /\ HasReExports' = HasReExports
      /\ (\A e : NoDefault(e)' <=> NoDefault(e))
      /\ (\A e : BarrelOf(e)' = BarrelOf(e) /\ SourceOf(e)' = SourceOf(e))
  BY <1>0, WildcardsRest
<1>3. Shape'
  BY <1>0, <1>1 DEF ExportInv, Shape
<1>4. StartInv'
  BY <1>0, <1>1 DEF ExportInv, StartInv, Propagating
<1>5. NoWildcards => \A e : Settled(e) => Settled(e)'
  BY <1>1, <1>2 DEF Settled
<1>6. NoWildcards => \A e \in {Entries[next]} : Settled(e)'
  <2>1. Entry = Entries[next]
    BY DEF Entry
  <2> SUFFICES ASSUME NoWildcards, NEW e, e = Entries[next] PROVE Settled(e)'
    OBVIOUS
  <2>2. CASE Settled(e)
    BY <1>5, <2>2
  <2>3. CASE BarrelOf(e) \in DOMAIN reExports'
    BY <1>2, <2>3 DEF Settled
  <2>4. CASE [awaited |-> SourceOf(e), waiter |-> BarrelOf(e)] \in waitingFor' /\ NoDefault(e)
    BY <1>2, <2>4 DEF Settled
  <2> QED BY <2>1, <2>2, <2>3, <2>4
<1>7. SettledInv'
  <2>1. \A i \in 1..(next' - 1) : i \in 1..(next - 1) \/ i = next
    BY <1>0
  <2>2. next' \in 1..(Len(Entries) + 1)
    BY <1>0
  <2>3. NoWildcards => \A i \in 1..(next' - 1) : \A e \in {Entries[i]} : Settled(e)'
    <3> SUFFICES ASSUME NoWildcards, NEW i \in 1..(next' - 1), NEW e \in {Entries[i]}
                 PROVE  Settled(e)'
      OBVIOUS
    <3>1. CASE i \in 1..(next - 1)
      BY <1>0, <1>5, <3>1 DEF ExportInv, SettledInv
    <3>2. CASE i = next
      BY <1>6, <3>2
    <3> QED BY <2>1, <3>1, <3>2
  <2> QED BY <1>0, <1>1, <1>2, <2>2, <2>3 DEF SettledInv, ExportInv
<1>8. BarrelsResolve'
  BY <1>0 DEF BarrelsResolve
<1> QED BY <1>3, <1>4, <1>7, <1>8 DEF ExportInv

\* The entry that is processed.
LEMMA EntryShape ==
  ASSUME ExportInv, Advance
  PROVE  /\ Entry \in ToSet(Entries) /\ Entry.file \in Files
         /\ Entry.isReexport => Entry \in ReExportEntries
         /\ Target = ResolveTargetFile(Entry)
         /\ Barrel = BarrelOf(Entry) /\ Source = SourceOf(Entry)
         /\ table \in Seq(ToSet(table)) /\ ToSet(table) = ToSet(OwnSymbols)
         /\ UNCHANGED <<project, parseOrder, table, phase>>
         /\ \A s \in ExportedSymbols : s \in ToSet(OwnSymbols)
<1>1. phase = "reexports" /\ next \in 1..Len(Entries)
  <2>1. next \in 1..(Len(Entries) + 1) /\ next <= Len(Entries) /\ Len(Entries) \in Nat
    BY Lists DEF Advance, ExportInv, SettledInv
  <2> QED BY <2>1 DEF Advance
<1>2. Entry \in ToSet(Entries) /\ Entry.file \in Files
  BY <1>1, Lists DEF Entry, ExportInv
<1> QED BY <1>1, <1>2 DEF ReExportEntries, Target, Barrel, Source, BarrelOf, SourceOf,
       ExportInv, StartInv, Propagating, Advance, ExportedSymbols

LEMMA RegisterStep ==
  ASSUME ExportInv, Advance, Entry.isReexport, ~Entry.isWildcard, Target # Nothing,
         NEW symbol \in ExportedSymbols, Barrel \in NamesOf(symbol), Register(Barrel, symbol)
  PROVE  ExportInv'
<1> DEFINE woken == Woken({Barrel})
<1>1. UNCHANGED <<project, parseOrder>> /\ Barrel = BarrelOf(Entry)
  BY EntryShape
<1>2. /\ ExportedSymbols' = ExportedSymbols /\ \A s : NamesOf(s)' = NamesOf(s)
  BY <1>1, NamesRest
<1>3. woken \subseteq NamesOf(symbol)
  BY WokenLeast DEF ExportInv, RealInv
<1>4. /\ Barrel \in woken
      /\ \A w \in waitingFor : w.awaited \in woken => w.waiter \in woken
  BY WokenClosed
<1>5. /\ reExports' = [n \in DOMAIN reExports \cup woken |->
                         IF n \in woken THEN symbol ELSE reExports[n]]
      /\ waitingFor' = {w \in waitingFor : w.awaited \notin woken}
  BY DEF Register
<1> HIDE DEF woken
<1>6. RealInv'
  <2>1. ASSUME NEW n \in DOMAIN reExports'
        PROVE  reExports'[n] \in ExportedSymbols /\ n \in NamesOf(reExports'[n])
    <3>1. CASE n \in woken
      BY <1>3, <1>5, <3>1
    <3>2. CASE n \notin woken
      BY <1>5, <3>2 DEF ExportInv, RealInv, ReExportsAreReal
    <3> QED BY <3>1, <3>2
  <2>2. \A n \in DOMAIN reExports' : \A s \in {reExports'[n]} : NamesOf(s)' = NamesOf(s)
    BY <1>2
  <2>3. ReExportsAreReal'
    BY <1>2, <2>1, <2>2 DEF ReExportsAreReal
  <2>4. \A w \in waitingFor', s \in ExportedSymbols :
          w.awaited \in NamesOf(s) => w.waiter \in NamesOf(s)
    BY <1>5 DEF ExportInv, RealInv
  <2> QED BY <1>2, <2>3, <2>4 DEF RealInv
<1>7. DOMAIN reExports' = DOMAIN reExports \cup woken
  BY <1>5
<1> QED BY <1>1, <1>4, <1>5, <1>6, <1>7, EntryDone DEF ExportInv, SettledInv

LEMMA ImportsStep == ASSUME ExportInv, ResolveImports PROVE ExportInv'
<1>0. /\ UNCHANGED <<project, parseOrder, table, reExports, waitingFor>>
      /\ phase = "imports" /\ phase' = "exports"
  BY DEF ResolveImports, tableVars
<1>1. /\ ExportedSymbols' = ExportedSymbols /\ OwnSymbols' = OwnSymbols
      /\ Files' = Files /\ (\A s : NamesOf(s)' = NamesOf(s))
  BY <1>0, NamesRest
<1>2. Shape'
  BY <1>0, <1>1 DEF ExportInv, Shape
<1>3. RealInv'
  BY <1>0, <1>1 DEF ExportInv, RealInv, ReExportsAreReal
<1>4. StartInv'
  BY <1>0, <1>1 DEF ExportInv, StartInv, Propagating
<1>5. SettledInv'
  BY <1>0 DEF ExportInv, StartInv, SettledInv
<1>6. BarrelsResolve'
  BY <1>0 DEF BarrelsResolve
<1> QED BY <1>2, <1>3, <1>4, <1>5, <1>6 DEF ExportInv

\* What the files themselves export is registered by its own name.
LEMMA LocalsStep == ASSUME ExportInv, RegisterLocalExports PROVE ExportInv'
<1>0. /\ UNCHANGED <<project, parseOrder, table, waitingFor>> /\ next' = 1
      /\ phase = "exports" /\ waitingFor = {}
      /\ phase' = IF HasReExports THEN "reexports" ELSE "infer"
  BY DEF RegisterLocalExports, exportVars, ExportInv, StartInv
<1>1. /\ ExportedSymbols' = ExportedSymbols /\ OwnSymbols' = OwnSymbols /\ Entries' = Entries
      /\ Files' = Files /\ (\A s : NamesOf(s)' = NamesOf(s))
      /\ (\A s : OwnName(s)' = OwnName(s))
  BY <1>0, NamesRest
<1>2. HasReExports' = HasReExports
  BY <1>0, WildcardsRest
<1>3. OwnSymbols \in Seq(PartsOf("symbols")) /\ DOMAIN OwnSymbols = 1..Len(OwnSymbols)
      /\ Len(Entries) \in Nat /\ \A s \in ToSet(OwnSymbols) : s # Nothing
  BY Lists DEF ExportInv
<1>4. Exported \subseteq Nat
  BY <1>3 DEF Exported
<1>5. Shape'
  BY <1>0, <1>1 DEF ExportInv, Shape
<1>6. ASSUME HasReExports, NEW n \in DOMAIN reExports'
      PROVE  reExports'[n] \in ExportedSymbols /\ n \in NamesOf(reExports'[n])
  <2>1. reExports'[n] = FirstAt(ExportedAs(n), OwnSymbols)
        /\ \E i \in Exported : n = OwnName(OwnSymbols[i])
    BY <1>6 DEF RegisterLocalExports
  <2>2. \A i \in ExportedAs(n) : /\ OwnSymbols[i] \in ExportedSymbols
                                 /\ OwnSymbols[i] # Nothing
                                 /\ n = OwnName(OwnSymbols[i])
    BY <1>3 DEF ExportedAs, Exported, ExportedSymbols, ToSet
  <2>3. ExportedAs(n) # {} /\ ExportedAs(n) \in SUBSET Nat
    BY <1>4, <2>1 DEF ExportedAs
  <2>4. PICK i \in ExportedAs(n) : FirstAt(ExportedAs(n), OwnSymbols) = OwnSymbols[i]
    <3>1. \E i \in ExportedAs(n) : \A j \in ExportedAs(n) : i <= j
      BY <2>3, LeastNat
    <3>2. Min(ExportedAs(n)) \in ExportedAs(n)
      BY <3>1 DEF Min
    <3> QED BY <2>3, <3>2 DEF FirstAt
  <2>5. OwnSymbols[i] \in ToSet(OwnSymbols)
    BY <2>2 DEF ExportedSymbols
  <2> QED BY <2>1, <2>2, <2>4, <2>5, NamesClosed DEF ExportInv
<1>7. RealInv'
  <2>1. ASSUME NEW n \in DOMAIN reExports'
        PROVE  reExports'[n] \in ExportedSymbols /\ n \in NamesOf(reExports'[n])
    <3>1. CASE HasReExports
      BY <1>6, <3>1
    <3>2. CASE ~HasReExports
      BY <3>2 DEF RegisterLocalExports, Empty
    <3> QED BY <3>1, <3>2
  <2>2. \A n \in DOMAIN reExports' : \A s \in {reExports'[n]} : NamesOf(s)' = NamesOf(s)
    BY <1>1
  <2>3. ReExportsAreReal'
    BY <1>1, <2>1, <2>2 DEF ReExportsAreReal
  <2> QED BY <1>0, <2>3 DEF RealInv
<1>8. StartInv'
  BY <1>0, <1>1 DEF ExportInv, StartInv, Propagating
<1>9. HasReExports => \A s \in ExportedSymbols : OwnName(s) \in DOMAIN reExports'
  <2>1. \A s \in ExportedSymbols : \E i \in Exported : s = OwnSymbols[i]
    BY <1>3 DEF ExportedSymbols, Exported, ToSet
  <2> QED BY <2>1 DEF RegisterLocalExports
<1>10. SettledInv'
  <2>1. phase' = "reexports" => HasReExports /\ next' = 1
    BY <1>0
  <2>2. 1..(next' - 1) = {}
    BY <1>0
  <2>3. waitingFor' = {}
    BY <1>0
  <2>4. next' \in 1..(Len(Entries) + 1)
    BY <1>0, <1>3
  <2> QED BY <1>1, <1>2, <1>9, <2>1, <2>2, <2>3, <2>4 DEF SettledInv
<1>11. BarrelsResolve'
  BY <1>0, <1>2 DEF BarrelsResolve
<1> QED BY <1>5, <1>7, <1>8, <1>10, <1>11 DEF ExportInv

\* An import that is no re-export, or of a library.
LEMMA SkipStep == ASSUME ExportInv, SkipImport \/ SkipRegistered PROVE ExportInv'
<1>1. Advance /\ UNCHANGED <<reExports, waitingFor>>
  BY DEF SkipImport, SkipRegistered
<1>2. UNCHANGED <<project, parseOrder>> /\ Target = ResolveTargetFile(Entry)
      /\ Barrel = BarrelOf(Entry)
  BY <1>1, EntryShape
<1>3. RealInv'
  <2>1. /\ ExportedSymbols' = ExportedSymbols /\ \A s : NamesOf(s)' = NamesOf(s)
    BY <1>2, NamesRest
  <2> QED BY <1>1, <2>1 DEF ExportInv, RealInv, ReExportsAreReal
<1>4. Settled(Entry) \/ BarrelOf(Entry) \in DOMAIN reExports'
  BY <1>1, <1>2 DEF SkipImport, SkipRegistered, Settled
<1> QED BY <1>1, <1>3, <1>4, EntryDone DEF ExportInv, SettledInv

\* What a wildcard registers, the target exports.
LEMMA WildcardStep == ASSUME ExportInv, RegisterWildcard PROVE ExportInv'
<1> DEFINE places == FindExportedByFile(Target)
           names == {NameIn(Entry.file, Last(table[i].qn)) : i \in places}
           named(n) == {i \in places : Last(table[i].qn) = Last(n)}
<1>0. /\ Advance /\ Entry.isReexport /\ Target # Nothing /\ Entry.isWildcard
      /\ UNCHANGED waitingFor
      /\ reExports' = [n \in DOMAIN reExports \cup names |->
                         IF n \in DOMAIN reExports THEN reExports[n]
                         ELSE FirstAt(named(n), table)]
  BY DEF RegisterWildcard
<1>1. /\ Entry \in ReExportEntries /\ Entry.file \in Files
      /\ Target = ResolveTargetFile(Entry)
      /\ table \in Seq(ToSet(table)) /\ ToSet(table) = ToSet(OwnSymbols)
      /\ UNCHANGED <<project, parseOrder>>
  BY <1>0, EntryShape
<1>2. /\ ExportedSymbols' = ExportedSymbols /\ \A s : NamesOf(s)' = NamesOf(s)
  BY <1>1, NamesRest
<1>3. places \in SUBSET Nat
      /\ \A i \in places : table[i] \in ToSet(OwnSymbols) /\ table[i].exported
                            /\ table[i].file = Target
  <2>1. DOMAIN table = 1..Len(table) /\ Len(table) \in Nat
    BY <1>1
  <2>2. places \subseteq DOMAIN table /\ \A i \in places : table[i].exported /\ table[i].file = Target
    BY DEF FindExportedByFile
  <2>3. \A i \in DOMAIN table : table[i] \in ToSet(table)
    BY DEF ToSet
  <2> HIDE DEF places
  <2> QED BY <1>1, <2>1, <2>2, <2>3
<1> HIDE DEF places
<1>4. ASSUME NEW n \in DOMAIN reExports'
      PROVE  reExports'[n] \in ExportedSymbols /\ n \in NamesOf(reExports'[n])
  <2>1. CASE n \in DOMAIN reExports
    BY <1>0, <2>1 DEF ExportInv, RealInv, ReExportsAreReal
  <2>2. CASE n \notin DOMAIN reExports
    <3>1. PICK j \in places : n = NameIn(Entry.file, Last(table[j].qn))
      BY <1>0, <2>2
    <3>2. Last(n) = Last(table[j].qn)
      BY <1>1, <3>1, NameParts DEF ExportInv, Shape
    <3>3. reExports'[n] = FirstAt(named(n), table) /\ named(n) # {} /\ named(n) \in SUBSET Nat
      BY <1>0, <1>3, <2>2, <3>2
    <3>4. PICK i \in named(n) : FirstAt(named(n), table) = table[i]
      <4> DEFINE found == named(n)
      <4> HIDE DEF found
      <4>1. \E i \in found : \A k \in found : i <= k
        BY <3>3, LeastNat DEF found
      <4>2. Min(found) \in found
        BY <4>1 DEF Min
      <4> QED BY <3>3, <4>2 DEF FirstAt, found
    <3>5. i \in places /\ Last(table[i].qn) = Last(table[j].qn)
      BY <3>2
    <3>6. NameIn(Entry.file, Last(table[i].qn)) \in NamesOf(table[i])
      BY <1>0, <1>1, <1>3, <3>5, PassedByWildcard DEF ExportInv
    <3> QED BY <1>3, <3>1, <3>3, <3>4, <3>5, <3>6 DEF ExportedSymbols
  <2> QED BY <2>1, <2>2
<1>5. RealInv'
  <2>1. \A n \in DOMAIN reExports' : \A s \in {reExports'[n]} : NamesOf(s)' = NamesOf(s)
    BY <1>2
  <2>2. ReExportsAreReal'
    BY <1>2, <1>4, <2>1 DEF ReExportsAreReal
  <2> QED BY <1>0, <1>2, <2>2 DEF ExportInv, RealInv
<1>6. DOMAIN reExports \subseteq DOMAIN reExports'
  BY <1>0
<1>7. ~NoWildcards
  BY <1>0, <1>1 DEF NoWildcards
<1> QED BY <1>0, <1>5, <1>6, <1>7, EntryDone

LEMMA DirectStep == ASSUME ExportInv, RegisterDirect PROVE ExportInv'
<1>1. /\ Advance /\ Entry.isReexport /\ ~Entry.isWildcard /\ Target # Nothing
      /\ FindSymbolInFile(Target, Entry.name) # Nothing
      /\ Register(Barrel, FindSymbolInFile(Target, Entry.name))
  BY DEF RegisterDirect, Named
<1>2. FindSymbolInFile(Target, Entry.name) \in ExportedSymbols
      /\ Barrel \in NamesOf(FindSymbolInFile(Target, Entry.name))
  BY <1>1, EntryShape, PassedDirect DEF ExportInv
<1> QED BY <1>1, <1>2, RegisterStep

LEMMA BarrelStep == ASSUME ExportInv, RegisterViaBarrel PROVE ExportInv'
<1>1. /\ Advance /\ Entry.isReexport /\ ~Entry.isWildcard /\ Target # Nothing
      /\ Source \in DOMAIN reExports /\ Register(Barrel, reExports[Source])
  BY DEF RegisterViaBarrel, Named
<1>2. reExports[Source] \in ExportedSymbols /\ Source \in NamesOf(reExports[Source])
  BY <1>1 DEF ExportInv, RealInv, ReExportsAreReal
<1>3. Barrel \in NamesOf(reExports[Source])
  BY <1>1, <1>2, EntryShape, PassedSource DEF ExportInv
<1> QED BY <1>1, <1>2, <1>3, RegisterStep

\* A name waits for one that its target does not define.
LEMMA WaitStep == ASSUME ExportInv, WaitForBarrel PROVE ExportInv'
<1>0. /\ Advance /\ Entry.isReexport /\ ~Entry.isWildcard /\ Target # Nothing
      /\ FindSymbolInFile(Target, Entry.name) = Nothing
      /\ Source \notin DOMAIN reExports /\ UNCHANGED reExports
      /\ waitingFor' = waitingFor \cup {[awaited |-> Source, waiter |-> Barrel]}
  BY DEF WaitForBarrel, Named
<1>1. /\ Entry \in ReExportEntries /\ Target = ResolveTargetFile(Entry)
      /\ Barrel = BarrelOf(Entry) /\ Source = SourceOf(Entry)
      /\ table \in Seq(ToSet(table)) /\ ToSet(table) = ToSet(OwnSymbols)
      /\ UNCHANGED <<project, parseOrder>>
      /\ \A s \in ExportedSymbols : s \in ToSet(OwnSymbols)
  BY <1>0, EntryShape
<1>2. /\ ExportedSymbols' = ExportedSymbols /\ \A s : NamesOf(s)' = NamesOf(s)
  BY <1>1, NamesRest
<1>3. RealInv'
  <2>1. \A s \in ExportedSymbols : Source \in NamesOf(s) => Barrel \in NamesOf(s)
    BY <1>0, <1>1, PassedSource DEF ExportInv
  <2> QED BY <1>0, <1>2, <2>1 DEF ExportInv, RealInv, ReExportsAreReal
<1>4. NoDefault(Entry)
  <2> SUFFICES ASSUME Entry.name = "default", NEW s \in ExportedSymbols,
                      s.isDefault, s.file = ResolveTargetFile(Entry)
               PROVE  FALSE
    BY DEF NoDefault
  <2> DEFINE places == {i \in FindExportedByFile(Target) :
                          Last(table[i].qn) = Entry.name
                          \/ (Entry.name = "default" /\ table[i].isDefault)}
  <2>1. PICK i \in DOMAIN table : s = table[i]
    BY <1>1 DEF ExportedSymbols, ToSet
  <2>2. i \in places
    BY <1>1, <2>1 DEF FindExportedByFile, ExportedSymbols
  <2>3. /\ places \subseteq DOMAIN table /\ places \subseteq Nat
        /\ FindSymbolInFile(Target, Entry.name) = FirstAt(places, table)
    BY <1>1 DEF FindExportedByFile, FindSymbolInFile
  <2> HIDE DEF places
  <2>4. \E k \in places : \A j \in places : k <= j
    BY <2>2, <2>3, LeastNat
  <2>5. Min(places) \in places
    BY <2>4 DEF Min
  <2>6. table[Min(places)] \in ToSet(OwnSymbols)
    BY <1>1, <2>3, <2>5 DEF ToSet
  <2>7. table[Min(places)] # Nothing
    BY <2>6, Lists DEF ExportInv
  <2> QED BY <1>0, <2>2, <2>3, <2>7 DEF FirstAt
<1> QED BY <1>0, <1>1, <1>3, <1>4, EntryDone DEF ExportInv, SettledInv

\* All entries are processed: no name of a chain is missing.
LEMMA PropagatedStep == ASSUME ExportInv, ExportsPropagated PROVE ExportInv'
<1>0. /\ UNCHANGED <<project, parseOrder, table, reExports, waitingFor>>
      /\ phase = "reexports" /\ phase' = "infer" /\ next > Len(Entries)
      /\ next \in 1..(Len(Entries) + 1) /\ Len(Entries) \in Nat
  BY Lists DEF ExportsPropagated, tableVars, exportVars, ExportInv, SettledInv
<1>1. /\ Entries' = Entries /\ ExportedSymbols' = ExportedSymbols /\ OwnSymbols' = OwnSymbols
      /\ Files' = Files /\ (\A s : NamesOf(s)' = NamesOf(s))
  BY <1>0, NamesRest
<1>2. NoWildcards' = NoWildcards /\ HasReExports' = HasReExports
  BY <1>0, WildcardsRest
<1>3. Shape'
  BY <1>0, <1>1 DEF ExportInv, Shape
<1>4. RealInv'
  BY <1>0, <1>1 DEF ExportInv, RealInv, ReExportsAreReal
<1>5. StartInv'
  BY <1>0 DEF StartInv, Propagating
<1>6. SettledInv'
  BY <1>0, <1>2 DEF ExportInv, SettledInv
<1>7. NoWildcards => \A s \in ExportedSymbols : NamesOf(s) \subseteq DOMAIN reExports
  <2> SUFFICES ASSUME NoWildcards, NEW s \in ExportedSymbols
               PROVE  NamesOf(s) \subseteq DOMAIN reExports
    OBVIOUS
  <2>1. s \in ToSet(OwnSymbols) /\ OwnName(s) \in DOMAIN reExports
    BY <1>0 DEF ExportedSymbols, ExportInv, SettledInv
  <2>2. ASSUME NEW e \in ReExportEntries, NEW n \in DOMAIN reExports, n \in PassedBy(e, s)
        PROVE  NameGiven(e, n) \in DOMAIN reExports
    <3>1. ~e.isWildcard /\ e \in ToSet(Entries) /\ e.isReexport
      BY <2>2 DEF NoWildcards, ReExportEntries
    <3>2. PICK i \in 1..Len(Entries) : e = Entries[i]
      BY <3>1, Lists DEF ExportInv
    <3>3. Settled(e)
      BY <1>0, <3>2 DEF ExportInv, SettledInv
    <3>4. NameGiven(e, n) = BarrelOf(e) /\ ResolveTargetFile(e) # Nothing
      BY <2>2, <3>1 DEF NameGiven, BarrelOf, PassedBy
    <3>5. CASE BarrelOf(e) \in DOMAIN reExports
      BY <3>4, <3>5
    <3>6. CASE [awaited |-> SourceOf(e), waiter |-> BarrelOf(e)] \in waitingFor /\ NoDefault(e)
      <4>1. SourceOf(e) \notin DOMAIN reExports
        BY <3>6 DEF ExportInv, SettledInv
      <4>2. Last(n) = e.name /\ n \in PossibleNames(s)
            /\ Front(n) = DerivePackage(ResolveTargetFile(e))
        BY <2>2, <3>1, <3>6 DEF PassedBy, NoDefault
      <4>3. n = SourceOf(e)
        BY <2>1, <4>2, NameOfPackage DEF SourceOf, ExportInv
      <4> QED BY <4>1, <4>3
    <3> QED BY <3>1, <3>3, <3>4, <3>5, <3>6 DEF Settled
  <2> QED BY <2>1, <2>2, NamesLeast DEF ExportInv
<1>8. BarrelsResolve'
  <2>1. (\A e \in ToSet(Entries) : ~(e.isReexport /\ e.isWildcard)) => NoWildcards
    BY DEF NoWildcards, ReExportEntries
  <2> QED BY <1>0, <1>1, <1>7, <2>1 DEF BarrelsResolve
<1> QED BY <1>3, <1>4, <1>5, <1>6, <1>8 DEF ExportInv

\* The other phases leave the names alone.
LEMMA LaterStep ==
  ASSUME ExportInv, InferTypes \/ ResolveCalls \/ Relate \/ ResolveConstRefs
  PROVE  ExportInv'
<1>1. /\ UNCHANGED <<project, parseOrder, reExports, waitingFor>>
      /\ phase \notin Propagating /\ phase' \notin Propagating
  <2>1. CASE InferTypes
    BY <2>1 DEF InferTypes, InferLocal, InferPending, NextRound, NextFile, tableVars, exportVars,
                Propagating
  <2>2. CASE ResolveCalls
    <3>1. CASE \E s : At(s)
      <4>1. PICK s : At(s)
        BY <3>1
      <4> QED BY <4>1 DEF At, exportVars, Propagating
    <3>2. CASE CallsResolved
      BY <3>2 DEF CallsResolved, tableVars, exportVars, Propagating
    <3> QED BY <2>2, <3>1, <3>2 DEF ResolveCalls,
       PreResolvedCall, LambdaCall, Begin, SkipPackage, SuperCall, LambdaRedirect,
       NotImported, CallReExported, CallComposed, CallInheritedImport, CallExternalImport,
       LookupType, Untyped, SkipPackageType, QualifyType, CallOfType, CallInherited,
       CallExternalType, CallUnknown, CallOfPrefix, CallByLanguage, FallbackCall,
       CallOwnInherited, CallUnique, CallBack
  <2>3. CASE Relate \/ ResolveConstRefs
    BY <2>3 DEF Relate, ResolveConstRefs, ResolveHeritage, DetectOverridesAndDispatches,
                InferImplements, tableVars, exportVars, Propagating
  <2> QED BY <2>1, <2>2, <2>3
<1> QED BY <1>1, ExportRest

LEMMA NamesStep == ExportInv /\ [Next]_vars => ExportInv'
<1> SUFFICES ASSUME ExportInv, [Next]_vars PROVE ExportInv'
  OBVIOUS
<1>1. CASE PropagateExports
  BY <1>1, ImportsStep, LocalsStep, SkipStep, WildcardStep, DirectStep, BarrelStep, WaitStep,
     PropagatedStep DEF PropagateExports
<1>2. CASE InferTypes \/ ResolveCalls \/ Relate \/ ResolveConstRefs
  BY <1>2, LaterStep
<1>3. CASE UNCHANGED vars
  BY <1>3, ExportRest DEF vars, tableVars, exportVars
<1> QED BY <1>1, <1>2, <1>3 DEF Next, Done

\* For every project and every order of its parse results: a name of a barrel
\* is registered only for a symbol that some file exports and that a chain of
\* re-exports leads to.  Whoever waits for a name that a symbol may have may be
\* a name of that symbol, so that those who are woken, and those who wait for
\* them, are named rightly, too.
THEOREM ReExportsReal == Spec => []ReExportsAreReal
<1>1. ExportInv => ReExportsAreReal
  BY DEF ExportInv, RealInv
<1> QED BY <1>1, NamesInit, NamesStep, PTL DEF Spec

\* And without wildcards, all names are registered in the end: each entry that
\* was processed has its name registered or waiting for one that is not, so the
\* registered names have those of a symbol and all that re-exports pass on.
THEOREM NoChainIsLost == Spec => []BarrelsResolve
<1>1. ExportInv => BarrelsResolve
  BY DEF ExportInv
<1> QED BY <1>1, NamesInit, NamesStep, PTL DEF Spec
----------------------------------------------------------------------------
(* The hierarchy.                                                          *)

InHierarchy == {h.child : h \in ToSet(Heritage)} \union {c.qn : c \in OwnClasses}

Namesakes(h) == {c \in OwnClasses : Last(c.qn) = h.parent}

\* Every clause says which class it means: no two classes have the short name
\* it gives, or one has the qualified name, or else the parent is not of the
\* project at all, which has neither of its names.
ClausesAreClear ==
  \A h \in ToSet(Heritage) :
    IF h.parentQN = Nothing THEN \A c, d \in Namesakes(h) : c = d
    ELSE \/ \E c \in OwnClasses : c.qn = h.parentQN
         \/ Namesakes(h) = {} /\ \A s \in ToSet(OwnSymbols) : s.qn # h.parentQN

\* What calls added to the table for libraries is no parent, and no method of
\* the hierarchy has the signature of one that was added.
LibrariesApart ==
  \A s \in ToSet(table) \ ToSet(OwnSymbols) :
    /\ \A h \in ToSet(Heritage) : s.qn # h.parentQN
    /\ \A a, b \in InHierarchy : \A t \in Methods(b) :
         IsMethodOf(s, a) /\ t # s => ~SameSignature(s, t)

\* The table has the symbols of the files, and otherwise no classes.
TableInv ==
  /\ Shape
  /\ table \in Seq(ToSet(table))
  /\ ToSet(OwnSymbols) \subseteq ToSet(table)
  /\ \A s \in ToSet(table) \ ToSet(OwnSymbols) : ~IsClassLike(s)

LEMMA Clauses ==
  ASSUME Shape
  PROVE  /\ Heritage \in Seq(ToSet(Heritage)) /\ Len(Heritage) \in Nat
         /\ \A i \in 1..Len(Heritage) : Heritage[i] \in ToSet(Heritage)
         /\ \A h \in ToSet(Heritage) : \E i \in 1..Len(Heritage) : h = Heritage[i]
<1>1. Heritage \in Seq(PartsOf("heritage")) /\ ToSet(Heritage) = PartsOf("heritage")
  BY Collected DEF Shape, Heritage
<1>2. \A h \in ToSet(Heritage) : \E i \in 1..Len(Heritage) : h = Heritage[i]
  BY <1>1 DEF ToSet
<1>3. \A i \in 1..Len(Heritage) : Heritage[i] \in ToSet(Heritage)
  BY <1>1 DEF ToSet
<1> QED BY <1>1, <1>2, <1>3

\* The qualified names of symbols are finitely many paths.
Names == {s.qn : s \in ToSet(OwnSymbols)}

LEMMA FiniteNames ==
  ASSUME Shape
  PROVE  /\ IsFiniteSet(Names) /\ Names \subseteq Path
         /\ \A c \in OwnClasses : c.qn \in Names /\ c.qn \notin {Nothing, <<>>}
<1>1. /\ OwnSymbols \in Seq(PartsOf("symbols")) /\ ToSet(OwnSymbols) = PartsOf("symbols")
  BY Lists
<1>2. IsFiniteSet(1..Len(OwnSymbols))
  BY <1>1, FS_Interval
<1> DEFINE f == [i \in 1..Len(OwnSymbols) |-> OwnSymbols[i].qn]
<1>3. f \in Surjection(1..Len(OwnSymbols), Names)
  BY <1>1 DEF Surjection, Names, ToSet
<1> HIDE DEF f
<1>4. IsFiniteSet(Names)
  BY <1>2, <1>3, FS_Surjection
<1>5. \A s \in PartsOf("symbols") :
        s.qn \in Path /\ (IsClassLike(s) => s.qn \notin {Nothing, <<>>})
  BY NamesAssumption DEF PartsOf, Files, Shape
<1> QED BY <1>1, <1>4, <1>5 DEF Names, OwnClasses

\* The parent of a clause is the class that it names.
LEMMA ParentNamed ==
  ASSUME TableInv, ClausesAreClear, LibrariesApart, NEW h \in ToSet(Heritage), NEW q
  PROVE  q = ParentOf(h) /\ q # Nothing <=> \E c \in NamedBy(h) : q = c.qn
<1> DEFINE places == {i \in DOMAIN table : /\ IsClassLike(table[i]) /\ table[i].qn # <<>>
                                         /\ Last(table[i].qn) = h.parent}
           class == FirstAt(places, table)
           known == h.parentQN # Nothing /\ \E s \in ToSet(table) : s.qn = h.parentQN
<1>1. ParentOf(h) = IF known THEN h.parentQN
                    ELSE IF class = Nothing THEN Nothing ELSE class.qn
  BY DEF ParentOf
<1>2. \A s \in ToSet(table) : IsClassLike(s) => s \in OwnClasses
  BY DEF TableInv, OwnClasses
<1>3. \A c \in OwnClasses : c \in ToSet(table) /\ c.qn \notin {Nothing, <<>>} /\ c # Nothing
  BY FiniteNames, Lists DEF TableInv, OwnClasses
<1>4. \A i \in places : table[i] \in Namesakes(h)
  BY <1>2 DEF Namesakes, ToSet
<1>5. \A c \in Namesakes(h) : \E i \in places : table[i] = c
  <2> SUFFICES ASSUME NEW c \in Namesakes(h) PROVE \E i \in places : table[i] = c
    OBVIOUS
  <2>1. c \in OwnClasses /\ Last(c.qn) = h.parent /\ IsClassLike(c)
    BY DEF Namesakes, OwnClasses
  <2>2. PICK i \in DOMAIN table : table[i] = c
    BY <1>3, <2>1 DEF ToSet
  <2> QED BY <1>3, <2>1, <2>2
<1>6. places = {} => class = Nothing
  BY DEF FirstAt
<1>7. places # {} => \E i \in places : class = table[i]
  <2> SUFFICES ASSUME places # {} PROVE \E i \in places : class = table[i]
    OBVIOUS
  <2>1. places \subseteq Nat
    BY DEF TableInv
  <2> HIDE DEF places
  <2>2. \E i \in places : \A j \in places : i <= j
    BY <2>1, LeastNat
  <2>3. Min(places) \in places
    BY <2>2 DEF Min
  <2> QED BY <2>3 DEF FirstAt
<1>8. /\ Namesakes(h) = {} => class = Nothing
      /\ Namesakes(h) # {} => class \in Namesakes(h)
  <2> HIDE DEF places, class
  <2> QED BY <1>4, <1>5, <1>6, <1>7
<1>9. class # Nothing => class \in Namesakes(h) /\ class.qn # Nothing
  <2> HIDE DEF class
  <2> QED BY <1>3, <1>8 DEF Namesakes
<1> HIDE DEF places, class
<1>10. CASE h.parentQN = Nothing
  <2>1. ParentOf(h) = IF class = Nothing THEN Nothing ELSE class.qn
    BY <1>1, <1>10
  <2>2. NamedBy(h) = IF Cardinality(Namesakes(h)) = 1 THEN Namesakes(h) ELSE {}
    BY <1>10 DEF NamedBy, Namesakes
  <2>3. \A c, d \in Namesakes(h) : c = d
    BY <1>10 DEF ClausesAreClear
  <2>4. CASE Namesakes(h) = {}
    BY <1>8, <2>1, <2>2, <2>4
  <2>5. CASE Namesakes(h) # {}
    <3>1. Namesakes(h) = {class} /\ class # Nothing /\ class.qn # Nothing
      BY <1>3, <1>8, <2>3, <2>5 DEF Namesakes
    <3>2. NamedBy(h) = {class}
      BY <2>2, <3>1, FS_Singleton
    <3> QED BY <2>1, <3>1, <3>2
  <2> QED BY <2>4, <2>5
<1>11. CASE h.parentQN # Nothing
  <2>1. NamedBy(h) = {c \in OwnClasses : c.qn = h.parentQN}
    BY <1>11 DEF NamedBy
  <2>2. CASE \E c \in OwnClasses : c.qn = h.parentQN
    BY <1>1, <1>3, <1>11, <2>1, <2>2
  <2>3. CASE ~\E c \in OwnClasses : c.qn = h.parentQN
    <3>1. Namesakes(h) = {} /\ \A s \in ToSet(OwnSymbols) : s.qn # h.parentQN
      BY <1>11, <2>3 DEF ClausesAreClear
    <3>2. ~known
      BY <3>1 DEF LibrariesApart
    <3> QED BY <1>1, <1>8, <2>1, <2>3, <3>1, <3>2
  <2> QED BY <2>2, <2>3
<1> QED BY <1>10, <1>11

\* A map of parents that has what the clauses say.
DirectMap(map) ==
  \A c : /\ c \in DOMAIN map => c \in InHierarchy
         /\ ToSet(IF c \in DOMAIN map THEN map[c] ELSE <<>>) = DirectlyAbove({c})

LEMMA NoneListed == ToSet(<<>>) = {}
  BY DEF ToSet

LEMMA MapBuilt ==
  ASSUME TableInv, ClausesAreClear, LibrariesApart
  PROVE  DirectMap(BuildParentMap)
<1> SUFFICES ASSUME NEW c
             PROVE  /\ c \in DOMAIN BuildParentMap => c \in InHierarchy
                    /\ ToSet(IF c \in DOMAIN BuildParentMap THEN BuildParentMap[c] ELSE <<>>)
                         = DirectlyAbove({c})
  BY DEF DirectMap
<1> DEFINE clauses == {h \in ToSet(Heritage) : ParentOf(h) # Nothing}
           n == Len(Heritage)
           parents == {ParentOf(h) : h \in ToSet(Heritage)}
           ss == [i \in 1..n |-> IF Heritage[i] \in clauses /\ Heritage[i].child = c
                                 THEN <<ParentOf(Heritage[i])>> ELSE <<>>]
<1>1. DOMAIN BuildParentMap = {h.child : h \in clauses}
  BY DEF BuildParentMap
<1>2. c \in DOMAIN BuildParentMap => BuildParentMap[c] = FlattenSeq(ss)
  BY DEF BuildParentMap
<1>3. \A q : q \in DirectlyAbove({c}) <=> \E h \in clauses : h.child = c /\ q = ParentOf(h)
  BY ParentNamed DEF DirectlyAbove
<1>4. n \in Nat /\ (\A i \in 1..n : Heritage[i] \in ToSet(Heritage))
      /\ \A h \in ToSet(Heritage) : \E i \in 1..n : h = Heritage[i]
  BY Clauses DEF TableInv
<1>5. CASE c \notin DOMAIN BuildParentMap
  <2>1. DirectlyAbove({c}) = {}
    <3> HIDE DEF clauses
    <3> QED BY <1>1, <1>3, <1>5
  <2> QED BY <1>5, <2>1, NoneListed
<1>6. CASE c \in DOMAIN BuildParentMap
  <2>1. n \in Nat \ {0}
    BY <1>1, <1>4, <1>6
  <2>2. ss \in [1..n -> Seq(parents)]
    <3>1. ASSUME NEW i \in 1..n
          PROVE  (IF Heritage[i] \in clauses /\ Heritage[i].child = c
                  THEN <<ParentOf(Heritage[i])>> ELSE <<>>) \in Seq(parents)
      <4>1. ParentOf(Heritage[i]) \in parents
        BY <1>4
      <4> HIDE DEF parents, clauses
      <4> QED BY <4>1
    <3> QED BY <3>1
  <2>3. HasParts(FlattenSeq(ss), ss, n)
    <3> HIDE DEF ss, n, parents
    <3> QED BY <2>1, <2>2, Flattened
  <2>4. \A i \in 1..n : \A q : q \in ToSet(ss[i]) <=>
           Heritage[i] \in clauses /\ Heritage[i].child = c /\ q = ParentOf(Heritage[i])
    <3> TAKE i \in 1..n
    <3> TAKE q
    <3>1. ss[i] = IF Heritage[i] \in clauses /\ Heritage[i].child = c
                  THEN <<ParentOf(Heritage[i])>> ELSE <<>>
      OBVIOUS
    <3>2. \A x : ToSet(<<x>>) = {x}
      BY DEF ToSet
    <3> HIDE DEF ss, clauses
    <3> QED BY <3>1, <3>2, NoneListed
  <2>5. \A q : q \in ToSet(BuildParentMap[c]) <=> \E h \in clauses : h.child = c /\ q = ParentOf(h)
    <3>1. \A q : q \in ToSet(BuildParentMap[c]) <=> \E i \in 1..n : q \in ToSet(ss[i])
      <4> HIDE DEF ss, n, clauses
      <4> QED BY <1>2, <1>6, <2>3 DEF HasParts
    <3>2. \A h \in clauses : \E i \in 1..n : h = Heritage[i]
      BY <1>4
    <3> HIDE DEF ss, n, clauses
    <3>3. ASSUME NEW q, q \in ToSet(BuildParentMap[c])
          PROVE  \E h \in clauses : h.child = c /\ q = ParentOf(h)
      <4>1. PICK i \in 1..n : q \in ToSet(ss[i])
        BY <3>1, <3>3
      <4>2. Heritage[i] \in clauses /\ Heritage[i].child = c /\ q = ParentOf(Heritage[i])
        BY <2>4, <4>1
      <4> QED BY <4>2
    <3>4. ASSUME NEW q, NEW h \in clauses, h.child = c /\ q = ParentOf(h)
          PROVE  q \in ToSet(BuildParentMap[c])
      <4>1. PICK i \in 1..n : h = Heritage[i]
        BY <3>2
      <4>2. q \in ToSet(ss[i])
        BY <2>4, <3>4, <4>1
      <4> QED BY <3>1, <4>2
    <3> QED BY <3>3, <3>4
  <2>6. c \in InHierarchy
    BY <1>1, <1>6 DEF InHierarchy
  <2>7. ToSet(BuildParentMap[c]) = DirectlyAbove({c})
    <3> HIDE DEF clauses
    <3> QED BY <1>3, <2>5
  <2> QED BY <1>6, <2>6, <2>7
<1> QED BY <1>5, <1>6

----------------------------------------------------------------------------
(* What is above a class: both walks end, the one that the resolver takes   *)
(* and the one that the clauses describe, and find the same.               *)

LEMMA DirectNames ==
  ASSUME Shape
  PROVE  /\ \A K : DirectlyAbove(K) \subseteq Names
         /\ \A K, L : DirectlyAbove(K \union L) = DirectlyAbove(K) \union DirectlyAbove(L)
         /\ \A K : DirectlyAbove(K) = UNION {DirectlyAbove({c}) : c \in K}
         /\ \A K : DirectlyAbove(K) \subseteq {c.qn : c \in OwnClasses}
<1>1. \A h : NamedBy(h) \subseteq OwnClasses
  BY DEF NamedBy
<1>2. \A K : DirectlyAbove(K) \subseteq {c.qn : c \in OwnClasses}
  BY <1>1 DEF DirectlyAbove
<1>3. \A K, L : DirectlyAbove(K \union L) = DirectlyAbove(K) \union DirectlyAbove(L)
  BY DEF DirectlyAbove
<1>4. \A K : DirectlyAbove(K) = UNION {DirectlyAbove({c}) : c \in K}
  BY DEF DirectlyAbove
<1>5. {c.qn : c \in OwnClasses} \subseteq Names
  BY FiniteNames
<1> QED BY <1>2, <1>3, <1>4, <1>5

\* What can be reached by going up, the start included.
Closed(K) == DirectlyAbove(K) \subseteq K
Reached(K) == {q \in Path : \A L \in SUBSET Path : K \subseteq L /\ Closed(L) => q \in L}

LEMMA Reaching ==
  ASSUME Shape, NEW K \in SUBSET Path
  PROVE  /\ Reached(K) \in SUBSET Path /\ K \subseteq Reached(K) /\ Closed(Reached(K))
         /\ Closed(K) => Reached(K) = K
         /\ Reached(K \union DirectlyAbove(K)) = Reached(K)
         /\ DirectlyAbove(K) \in SUBSET Path
<1>1. DirectlyAbove(K) \in SUBSET Path
  BY DirectNames, FiniteNames
<1>2. Reached(K) \in SUBSET Path /\ K \subseteq Reached(K)
  BY DEF Reached
<1>3. \A L, M : L \subseteq M => DirectlyAbove(L) \subseteq DirectlyAbove(M)
  BY DEF DirectlyAbove
<1>4. \A L \in SUBSET Path : K \subseteq L /\ Closed(L) => Reached(K) \subseteq L
  BY DEF Reached
<1>5. Closed(Reached(K))
  <2> SUFFICES ASSUME NEW q \in DirectlyAbove(Reached(K)) PROVE q \in Reached(K)
    BY DEF Closed
  <2>1. q \in Path
    BY DirectNames, FiniteNames
  <2>2. \A L \in SUBSET Path : K \subseteq L /\ Closed(L) => q \in L
    BY <1>3, <1>4 DEF Closed
  <2> QED BY <2>1, <2>2 DEF Reached
<1>6. Closed(K) => Reached(K) = K
  BY <1>2, <1>4
<1>7. \A L \in SUBSET Path : Closed(L) =>
         (K \subseteq L <=> (K \union DirectlyAbove(K)) \subseteq L)
  BY <1>3 DEF Closed
<1>8. Reached(K \union DirectlyAbove(K)) = Reached(K)
  BY <1>7 DEF Reached
<1> QED BY <1>1, <1>2, <1>5, <1>6, <1>8

\* Two functions that agree on what is closed, and on what is not if they do
\* one step further up, are the same: the steps add names, which are finitely
\* many.
LEMMA OneWalk ==
  ASSUME Shape, NEW f, NEW g,
         \A K \in SUBSET Path : Closed(K) => f[K] = g[K],
         \A K \in SUBSET Path :
           ~Closed(K) /\ f[K \union DirectlyAbove(K)] = g[K \union DirectlyAbove(K)] => f[K] = g[K]
  PROVE  \A K \in SUBSET Path : f[K] = g[K]
<1> DEFINE T == {Cardinality(Names \ K) : K \in {L \in SUBSET Path : f[L] # g[L]}}
<1>1. SUFFICES ASSUME NEW K \in SUBSET Path, f[K] # g[K] PROVE FALSE
  OBVIOUS
<1>2. \A L : IsFiniteSet(Names \ L) /\ Cardinality(Names \ L) \in Nat
  BY FiniteNames, FS_Difference, FS_CardinalityType
<1>3. T \subseteq Nat /\ T # {}
  BY <1>1, <1>2
<1>4. PICK n \in T : \A m \in T : n <= m
  <2> HIDE DEF T
  <2> QED BY <1>3, LeastNat
<1>5. PICK L \in SUBSET Path : f[L] # g[L] /\ n = Cardinality(Names \ L)
  BY <1>4
<1> DEFINE M == L \union DirectlyAbove(L)
<1>6. M \in SUBSET Path /\ ~Closed(L) /\ f[M] # g[M]
  BY <1>5, Reaching
<1>7. PICK q \in DirectlyAbove(L) : q \notin L
  BY <1>6 DEF Closed
<1>8. q \in Names \ L /\ q \notin Names \ M /\ (Names \ M) \in SUBSET (Names \ L)
  BY <1>7, DirectNames
<1>9. Cardinality(Names \ M) < Cardinality(Names \ L) /\ Cardinality(Names \ M) \in Nat
      /\ Cardinality(Names \ L) \in Nat
  <2> HIDE DEF M
  <2>0. /\ IsFiniteSet(Names \ L) /\ Cardinality(Names \ L) \in Nat
        /\ Cardinality(Names \ M) \in Nat
    BY <1>2
  <2>1. /\ Cardinality(Names \ M) <= Cardinality(Names \ L)
        /\ Cardinality(Names \ L) = Cardinality(Names \ M) => Names \ L = Names \ M
    BY <2>0, <1>8, FS_Subset
  <2>2. Names \ L # Names \ M
    BY <1>8
  <2> QED BY <2>0, <2>1, <2>2
<1>10. Cardinality(Names \ M) \in T
  <2> HIDE DEF M
  <2> QED BY <1>6
<1>11. n <= Cardinality(Names \ M)
  <2> HIDE DEF T
  <2> QED BY <1>4, <1>10
<1> QED BY <1>5, <1>9, <1>11

\* The walk of the clauses.
ClauseWalk(g) ==
  g = [known \in SUBSET Path |->
         LET more == DirectlyAbove(known)
         IN IF more \subseteq known THEN more \union DirectlyAbove(more)
            ELSE more \union g[known \union more]]

LEMMA AllReached ==
  ASSUME Shape, NEW K \in SUBSET Path
  PROVE  AllAbove(K) = Reached(DirectlyAbove(K))
<1> DEFINE f == CHOOSE g : ClauseWalk(g)
           r == [L \in SUBSET Path |-> Reached(DirectlyAbove(L))]
<1>1. AllAbove(K) = f[K]
  BY DEF AllAbove, ClauseWalk
<1>2. ASSUME NEW L \in SUBSET Path
      PROVE  /\ Closed(L) => r[L] = DirectlyAbove(L) \union DirectlyAbove(DirectlyAbove(L))
             /\ r[L] = DirectlyAbove(L) \union r[L \union DirectlyAbove(L)]
  <2> DEFINE more == DirectlyAbove(L)
  <2>1. more \in SUBSET Path /\ r[L] = Reached(more)
    BY Reaching
  <2>2. Closed(L) => Closed(more) /\ Reached(more) = more
    <3>1. Closed(L) => Closed(more)
      BY DEF Closed, DirectlyAbove
    <3> QED BY <2>1, <3>1, Reaching
  <2>3. (L \union more) \in SUBSET Path /\ DirectlyAbove(L \union more) = more \union DirectlyAbove(more)
    BY <2>1, DirectNames
  <2>4. r[L \union more] = Reached(more \union DirectlyAbove(more))
    <3>1. \A N \in SUBSET Path : r[N] = Reached(DirectlyAbove(N))
      OBVIOUS
    <3> HIDE DEF r, more
    <3> QED BY <2>3, <3>1
  <2>5. r[L \union more] = Reached(more) /\ more \subseteq Reached(more)
    <3> HIDE DEF r, more
    <3> QED BY <2>1, <2>4, Reaching
  <2> HIDE DEF r
  <2> QED BY <2>1, <2>2, <2>5 DEF Closed
<1>3. ClauseWalk(r)
  <2>1. r = [L \in SUBSET Path |-> r[L]]
    OBVIOUS
  <2> HIDE DEF r
  <2>2. \A L \in SUBSET Path :
          r[L] = IF DirectlyAbove(L) \subseteq L
                 THEN DirectlyAbove(L) \union DirectlyAbove(DirectlyAbove(L))
                 ELSE DirectlyAbove(L) \union r[L \union DirectlyAbove(L)]
    BY <1>2 DEF Closed
  <2> QED BY <2>1, <2>2 DEF ClauseWalk
<1>4. ClauseWalk(f)
  <2> HIDE DEF r
  <2> QED BY <1>3
<1> HIDE DEF f, r
<1>5. \A L \in SUBSET Path : f[L] = r[L]
  <2>1. \A L \in SUBSET Path : f[L] = IF DirectlyAbove(L) \subseteq L
                 THEN DirectlyAbove(L) \union DirectlyAbove(DirectlyAbove(L))
                 ELSE DirectlyAbove(L) \union f[L \union DirectlyAbove(L)]
    BY <1>4 DEF ClauseWalk
  <2>2. /\ \A L \in SUBSET Path : Closed(L) => f[L] = r[L]
        /\ \A L \in SUBSET Path :
             ~Closed(L) /\ f[L \union DirectlyAbove(L)] = r[L \union DirectlyAbove(L)] => f[L] = r[L]
    <3> SUFFICES ASSUME NEW L \in SUBSET Path
                 PROVE  /\ Closed(L) => f[L] = r[L]
                        /\ ~Closed(L) /\ f[L \union DirectlyAbove(L)] = r[L \union DirectlyAbove(L)]
                           => f[L] = r[L]
      OBVIOUS
    <3>1. Closed(L) => r[L] = DirectlyAbove(L) \union DirectlyAbove(DirectlyAbove(L))
      BY <1>2
    <3>2. r[L] = DirectlyAbove(L) \union r[L \union DirectlyAbove(L)]
      BY <1>2
    <3>3. f[L] = IF Closed(L) THEN DirectlyAbove(L) \union DirectlyAbove(DirectlyAbove(L))
                 ELSE DirectlyAbove(L) \union f[L \union DirectlyAbove(L)]
      BY <2>1 DEF Closed
    <3> QED BY <3>1, <3>2, <3>3
  <2> QED BY <2>2, OneWalk
<1> QED BY <1>1, <1>5 DEF r

\* The walk of the resolver.
ParentWalk(g) ==
  g = [known \in SUBSET Path |->
         LET more == UNION {ToSet(ParentsOf(c)) : c \in known}
         IN IF more \subseteq known THEN known ELSE g[known \union more]]

LEMMA ParentsReached ==
  ASSUME Shape, DirectMap(Parents), NEW K \in SUBSET Path
  PROVE  Above(K) = Reached(K)
<1> DEFINE f == CHOOSE g : ParentWalk(g)
           r == [L \in SUBSET Path |-> Reached(L)]
<1>1. Above(K) = f[K]
  BY DEF Above, ParentWalk
<1>2. \A L : UNION {ToSet(ParentsOf(c)) : c \in L} = DirectlyAbove(L)
  <2>1. \A c : ToSet(ParentsOf(c)) = DirectlyAbove({c})
    BY DEF ParentsOf, DirectMap
  <2> TAKE L
  <2>2. DirectlyAbove(L) = UNION {DirectlyAbove({c}) : c \in L}
    BY DirectNames
  <2>3. \A q : q \in UNION {ToSet(ParentsOf(c)) : c \in L}
                <=> q \in UNION {DirectlyAbove({c}) : c \in L}
    BY <2>1
  <2> QED BY <2>2, <2>3
<1>3. ASSUME NEW L \in SUBSET Path
      PROVE  /\ Closed(L) => r[L] = L
             /\ r[L] = r[L \union DirectlyAbove(L)]
  BY Reaching
<1>4. ParentWalk(r)
  <2>1. r = [L \in SUBSET Path |-> r[L]]
    OBVIOUS
  <2> HIDE DEF r
  <2>2. \A L \in SUBSET Path :
          r[L] = IF DirectlyAbove(L) \subseteq L THEN L ELSE r[L \union DirectlyAbove(L)]
    BY <1>3 DEF Closed
  <2> QED BY <1>2, <2>1, <2>2 DEF ParentWalk
<1>5. ParentWalk(f)
  <2> HIDE DEF r
  <2> QED BY <1>4
<1> HIDE DEF f, r
<1>6. \A L \in SUBSET Path : f[L] = r[L]
  <2>1. \A L \in SUBSET Path :
          f[L] = IF DirectlyAbove(L) \subseteq L THEN L ELSE f[L \union DirectlyAbove(L)]
    BY <1>2, <1>5 DEF ParentWalk
  <2>2. /\ \A L \in SUBSET Path : Closed(L) => f[L] = r[L]
        /\ \A L \in SUBSET Path :
             ~Closed(L) /\ f[L \union DirectlyAbove(L)] = r[L \union DirectlyAbove(L)] => f[L] = r[L]
    BY <1>3, <2>1 DEF Closed
  <2> QED BY <2>2, OneWalk
<1> QED BY <1>1, <1>6 DEF r

\* Nothing but classes of the project is above a class.
LEMMA AboveAreClasses ==
  ASSUME Shape, NEW K
  PROVE  Reached(DirectlyAbove(K)) \subseteq {c.qn : c \in OwnClasses}
<1> DEFINE classes == {c.qn : c \in OwnClasses}
<1>1. classes \in SUBSET Path /\ DirectlyAbove(K) \subseteq classes /\ Closed(classes)
  BY FiniteNames, DirectNames DEF Closed
<1> HIDE DEF classes
<1>2. \A q \in Reached(DirectlyAbove(K)) : q \in classes
  BY <1>1 DEF Reached
<1> QED BY <1>2 DEF classes

LEMMA NoneAbove == ASSUME Shape, NEW K, DirectlyAbove(K) = {} PROVE Reached(DirectlyAbove(K)) = {}
<1>1. Closed({}) /\ {} \in SUBSET Path
  BY DEF Closed, DirectlyAbove
<1>2. Reached({}) = {}
  BY <1>1, Reaching
<1> QED BY <1>2

\* The methods that the resolver relates are those that override.
LEMMA OverridesFound ==
  ASSUME TableInv, LibrariesApart, DirectMap(Parents)
  PROVE  UNION {Overrides(c) : c \in DOMAIN Parents} = Overriding
<1>1. \A c : /\ ToSet(ParentsOf(c)) = DirectlyAbove({c})
             /\ c \in DOMAIN Parents => c \in InHierarchy
             /\ c \notin DOMAIN Parents => DirectlyAbove({c}) = {}
  BY NoneListed DEF ParentsOf, DirectMap
<1>2. \A c : Above(ToSet(ParentsOf(c))) = Reached(DirectlyAbove({c}))
  BY <1>1, ParentsReached, DirectNames, FiniteNames DEF TableInv
<1>3. \A c \in Path : AllAbove({c}) = Reached(DirectlyAbove({c}))
  BY AllReached DEF TableInv
<1>4. \A c : \A a \in Reached(DirectlyAbove({c})) : a \in InHierarchy
  BY AboveAreClasses DEF TableInv, InHierarchy
<1>5. \A m \in ToSet(OwnSymbols) : Len(m.qn) > 1 => Front(m.qn) \in Path
  <2> SUFFICES ASSUME NEW m \in ToSet(OwnSymbols), Len(m.qn) > 1 PROVE Front(m.qn) \in Path
    OBVIOUS
  <2>1. m.qn \in Seq(STRING)
    BY FiniteNames DEF TableInv, Names, Path
  <2> QED BY <2>1 DEF Front, Path
<1>6. ASSUME NEW c \in DOMAIN Parents, NEW p \in Overrides(c) PROVE p \in Overriding
  <2>0. PICK a \in Above(ToSet(ParentsOf(c))) : \E m \in Methods(c), n \in Methods(a) :
          p = <<m, n>> /\ m # n /\ ~IsConstructor(m, c) /\ SameSignature(m, n)
    BY <1>6 DEF Overrides
  <2>1. PICK m \in Methods(c), n \in Methods(a) :
          p = <<m, n>> /\ m # n /\ ~IsConstructor(m, c) /\ SameSignature(m, n)
    BY <2>0
  <2>2. /\ m \in ToSet(table) /\ IsMethodOf(m, c) /\ n \in ToSet(table) /\ IsMethodOf(n, a)
        /\ c \in InHierarchy /\ a \in InHierarchy /\ a \in Reached(DirectlyAbove({c}))
    BY <1>1, <1>2, <1>4 DEF Methods
  <2>3. SameSignature(n, m)
    BY <2>1 DEF SameSignature
  <2>4. m \in ToSet(OwnSymbols)
    BY <2>1, <2>2 DEF LibrariesApart
  <2>5. n \in ToSet(OwnSymbols)
    BY <2>1, <2>2, <2>3 DEF LibrariesApart
  <2>6. m.kind = "Function" /\ Len(m.qn) > 1 /\ Front(m.qn) = c /\ c \in Path
    BY <1>5, <2>2, <2>4 DEF IsMethodOf
  <2>7. n \in MethodsOf(AllAbove({c}))
    BY <1>3, <2>2, <2>5, <2>6 DEF MethodsOf, IsMethodOf
  <2>8. IsOverriding(m, n)
    BY <2>1, <2>6, <2>7 DEF IsOverriding
  <2> QED BY <2>1, <2>4, <2>5, <2>8 DEF Overriding
<1>7. ASSUME NEW p \in Overriding PROVE \E c \in DOMAIN Parents : p \in Overrides(c)
  <2>1. PICK m \in ToSet(OwnSymbols), n \in ToSet(OwnSymbols) : p = <<m, n>> /\ IsOverriding(m, n)
    BY DEF Overriding
  <2> DEFINE c == Front(m.qn)
  <2>2. /\ m.kind = "Function" /\ Len(m.qn) > 1 /\ m # n /\ c \in Path
        /\ n \in MethodsOf(AllAbove({c})) /\ SameSignature(m, n) /\ ~IsConstructor(m, c)
    BY <1>5, <2>1 DEF IsOverriding
  <2>3. n.kind = "Function" /\ Len(n.qn) > 1 /\ Front(n.qn) \in Reached(DirectlyAbove({c}))
    BY <1>3, <2>2 DEF MethodsOf
  <2>4. c \in DOMAIN Parents
    BY <1>1, <2>3, NoneAbove DEF TableInv
  <2>5. m \in Methods(c) /\ n \in Methods(Front(n.qn))
    BY <2>2, <2>3 DEF Methods, IsMethodOf, TableInv
  <2>6. p \in Overrides(c)
    BY <1>2, <2>1, <2>2, <2>3, <2>5 DEF Overrides
  <2> QED BY <2>4, <2>6
<1> QED BY <1>6, <1>7

----------------------------------------------------------------------------

BeforeOverrides == {"imports", "exports", "reexports", "infer", "fixpoint", "calls",
                    "heritage", "overrides"}
AfterOverrides == {"uses", "implements", "done"}

OverrideKinds == {"OVERRIDES", "DISPATCHES"}

\* Whenever the map of parents is built, it is what the clauses say; there are
\* no overrides before they are looked for, and all of them from then on.
DispatchInv ==
  /\ TableInv
  /\ ClausesAreClear /\ LibrariesApart => parentMap = Nothing \/ DirectMap(parentMap)
  /\ phase \in BeforeOverrides => \A r \in relations : r.kind \notin OverrideKinds
  /\ phase \in AfterOverrides /\ project.lang # "go" /\ ClausesAreClear /\ LibrariesApart
       => DispatchesFound

LEMMA ParentsDirect ==
  ASSUME DispatchInv, ClausesAreClear, LibrariesApart PROVE DirectMap(Parents)
  BY MapBuilt DEF DispatchInv, Parents

LEMMA DispatchInit == Init => DispatchInv
<1> SUFFICES ASSUME Init PROVE DispatchInv
  OBVIOUS
<1>1. Shape
  BY DEF Init, InitTable, Shape, Files
<1>2. table \in Seq(ToSet(table)) /\ ToSet(table) = ToSet(OwnSymbols)
  <2>1. PICK added \in SetToSeqs(Files) : table = Collect(added, "symbols")
    BY DEF Init, InitTable, Files
  <2> QED BY <1>1, <2>1, Collected DEF Shape, OwnSymbols
<1>3. parentMap = Nothing /\ relations = {} /\ phase = "imports"
  BY DEF Init, InitHierarchy, InitExports
<1> QED BY <1>1, <1>2, <1>3 DEF DispatchInv, TableInv, BeforeOverrides, AfterOverrides

\* What a step may do to the table and the map of parents.
Added == UNCHANGED table \/ \E s : s.kind = "Function" /\ table' = Append(table, s)
Asked == UNCHANGED parentMap \/ parentMap' = Parents

\* What is known of the hierarchy stays so.
LEMMA HierarchyRest ==
  ASSUME UNCHANGED <<project, parseOrder>>
  PROVE  /\ Heritage' = Heritage /\ OwnSymbols' = OwnSymbols /\ OwnClasses' = OwnClasses
         /\ (Shape' <=> Shape) /\ (ClausesAreClear' <=> ClausesAreClear)
         /\ InHierarchy' = InHierarchy
         /\ \A c : DirectlyAbove({c})' = DirectlyAbove({c})
         /\ Overriding' = Overriding
<1>1. Heritage' = Heritage /\ OwnSymbols' = OwnSymbols /\ (Shape' <=> Shape)
  BY DEF Heritage, OwnSymbols, Collect, Shape, Files
<1>2. OwnClasses' = OwnClasses /\ \A h : Namesakes(h)' = Namesakes(h) /\ NamedBy(h)' = NamedBy(h)
  BY <1>1 DEF OwnClasses, Namesakes, NamedBy
<1>3. (ClausesAreClear' <=> ClausesAreClear) /\ InHierarchy' = InHierarchy
  BY <1>1, <1>2 DEF ClausesAreClear, InHierarchy
<1>4. \A K : DirectlyAbove(K)' = DirectlyAbove(K)
  BY <1>1, <1>2 DEF DirectlyAbove
<1>5. \A K : AllAbove(K)' = AllAbove(K)
  BY <1>4 DEF AllAbove
<1>6. \A K : MethodsOf(K)' = MethodsOf(K)
  BY <1>1 DEF MethodsOf
<1>7. \A s, class : IsConstructor(s, class)' <=> IsConstructor(s, class)
  BY DEF IsConstructor
<1>8. \A m, n : IsOverriding(m, n)' <=> IsOverriding(m, n)
  BY <1>5, <1>6, <1>7 DEF IsOverriding
<1>9. Overriding' = Overriding
  BY <1>1, <1>8 DEF Overriding
<1> QED BY <1>1, <1>2, <1>3, <1>4, <1>9

LEMMA Grown ==
  ASSUME DispatchInv, UNCHANGED <<project, parseOrder>>, Added, Asked
  PROVE  /\ TableInv'
         /\ LibrariesApart' => LibrariesApart
         /\ (ClausesAreClear /\ LibrariesApart => parentMap = Nothing \/ DirectMap(parentMap))'
<1>1. /\ table' \in Seq(ToSet(table')) /\ ToSet(table) \subseteq ToSet(table')
      /\ \A s \in ToSet(table') \ ToSet(table) : s.kind = "Function"
  <2>1. CASE UNCHANGED table
    BY <2>1 DEF DispatchInv, TableInv
  <2>2. CASE \E s : s.kind = "Function" /\ table' = Append(table, s)
    <3>1. PICK s : s.kind = "Function" /\ table' = Append(table, s)
      BY <2>2
    <3> DEFINE S == ToSet(table) \union {s}
               n == Len(table)
    <3>2. table \in Seq(S) /\ s \in S /\ n \in Nat
      BY DEF DispatchInv, TableInv
    <3>3. /\ table' \in Seq(S) /\ Len(table') = n + 1 /\ DOMAIN table' = 1..(n + 1)
          /\ table'[n + 1] = s /\ \A i \in 1..n : table'[i] = table[i]
      <4> HIDE DEF S
      <4> QED BY <3>1, <3>2
    <3>4. DOMAIN table = 1..n
      BY <3>2
    <3>5. ToSet(table') = S
      BY <3>2, <3>3, <3>4 DEF ToSet
    <3> QED BY <3>1, <3>3, <3>5
  <2> QED BY <2>1, <2>2 DEF Added
<1>2. TableInv'
  BY <1>1, HierarchyRest DEF DispatchInv, TableInv, IsClassLike
<1>3. LibrariesApart' => LibrariesApart
  <2> SUFFICES ASSUME LibrariesApart', NEW s \in ToSet(table) \ ToSet(OwnSymbols)
               PROVE  /\ \A h \in ToSet(Heritage) : s.qn # h.parentQN
                      /\ \A a, b \in InHierarchy : \A t \in Methods(b) :
                           IsMethodOf(s, a) /\ t # s => ~SameSignature(s, t)
    BY DEF LibrariesApart
  <2>1. \A b : Methods(b) \subseteq Methods(b)'
    BY <1>1 DEF Methods, IsMethodOf
  <2>2. s \in (ToSet(table) \ ToSet(OwnSymbols))'
    BY <1>1, HierarchyRest
  <2> QED BY <2>1, <2>2, HierarchyRest DEF LibrariesApart, IsMethodOf, SameSignature
<1>4. ASSUME ClausesAreClear', LibrariesApart' PROVE (parentMap = Nothing \/ DirectMap(parentMap))'
  <2>1. ClausesAreClear /\ LibrariesApart
    BY <1>3, <1>4, HierarchyRest
  <2>2. \A map : DirectMap(map) => DirectMap(map)'
    BY HierarchyRest DEF DirectMap
  <2>3. CASE UNCHANGED parentMap
    BY <2>1, <2>2, <2>3 DEF DispatchInv, DirectMap
  <2>4. CASE parentMap' = Parents
    <3>1. DirectMap(Parents)
      BY <2>1, ParentsDirect
    <3> QED BY <2>4, <3>1, HierarchyRest DEF DirectMap
  <2> QED BY <2>3, <2>4 DEF Asked
<1> QED BY <1>2, <1>3, <1>4

\* Before the overrides, nothing is related that way.
LEMMA BeforeStep ==
  ASSUME DispatchInv, UNCHANGED <<project, parseOrder>>, Added, Asked,
         phase \in BeforeOverrides, phase' \in BeforeOverrides,
         \A r \in relations' : r \in relations \/ r.kind \notin OverrideKinds
  PROVE  DispatchInv'
<1>1. phase' \notin AfterOverrides
  BY DEF BeforeOverrides, AfterOverrides
<1>2. \A r \in relations' : r.kind \notin OverrideKinds
  BY DEF DispatchInv
<1> QED BY <1>1, <1>2, Grown DEF DispatchInv

LEMMA EarlyStep ==
  ASSUME DispatchInv,
         \/ PropagateExports /\ UNCHANGED <<typeVars, hierarchyVars, relations, callVars>>
         \/ InferTypes /\ UNCHANGED <<hierarchyVars, relations, callVars>>
  PROVE  DispatchInv'
<1>1. UNCHANGED <<project, parseOrder, table, parentMap, relations>>
      /\ phase \in BeforeOverrides /\ phase' \in BeforeOverrides
  <2>1. CASE PropagateExports /\ UNCHANGED <<hierarchyVars, relations>>
    BY <2>1 DEF PropagateExports, ResolveImports, RegisterLocalExports, SkipImport,
         RegisterWildcard, SkipRegistered, RegisterDirect, RegisterViaBarrel, WaitForBarrel,
         ExportsPropagated, Advance, tableVars, exportVars, hierarchyVars, BeforeOverrides
  <2>2. CASE InferTypes /\ UNCHANGED <<hierarchyVars, relations>>
    BY <2>2 DEF InferTypes, InferLocal, InferPending, NextRound, NextFile, tableVars,
         hierarchyVars, BeforeOverrides
  <2> QED BY <2>1, <2>2
<1> QED BY <1>1, BeforeStep DEF Added, Asked

\* A call is related to functions, may add one, and may ask the hierarchy.
CallsOnly == \A r \in relations' : r \in relations \/ r.kind = "CALLS"

LEMMA Answers ==
  /\ \A symbols, how : Answer(symbols, how) => CallsOnly
  /\ \A s : Pass(s) => CallsOnly
  /\ \A symbols, how, s : AnswerOr(symbols, how, s) => CallsOnly
  /\ \A symbol : AnswerExternal(symbol) => CallsOnly /\ table' = Append(table, symbol)
  /\ \A symbol : AnswerExternalOr(symbol) =>
        CallsOnly /\ (UNCHANGED table \/ (symbol # Nothing /\ table' = Append(table, symbol)))
  /\ \A class : Ask(class) => Asked
  /\ UNCHANGED hierarchyVars => Asked
<1>1. \A symbols, how : Answer(symbols, how) => CallsOnly
  BY DEF Answer, CallsOnly, Relation
<1>2. \A s : Pass(s) => CallsOnly
  BY DEF Pass, CallsOnly
<1>3. UNCHANGED hierarchyVars => Asked
  BY DEF hierarchyVars, Asked
<1>4. \A class : Ask(class) => Asked
  BY <1>3 DEF Ask, Remember, Asked
<1> QED BY <1>1, <1>2, <1>3, <1>4 DEF AnswerOr, AnswerExternal, AnswerExternalOr

LEMMA CallEffects == ASSUME ResolveCalls PROVE Added /\ Asked /\ CallsOnly
<1>1. CASE \/ PreResolvedCall \/ LambdaCall \/ Begin \/ SkipPackage \/ SuperCall \/ LambdaRedirect
           \/ NotImported \/ CallComposed \/ LookupType \/ Untyped \/ SkipPackageType \/ QualifyType
           \/ CallOfType \/ CallOfPrefix \/ CallByLanguage \/ FallbackCall
  <2>1. UNCHANGED <<table, parentMap>>
    BY <1>1 DEF PreResolvedCall, LambdaCall, Begin, SkipPackage, SuperCall, LambdaRedirect,
         NotImported, CallComposed, LookupType, Untyped, SkipPackageType, QualifyType,
         CallOfType, CallOfPrefix, CallByLanguage, FallbackCall, hierarchyVars
  <2>2. /\ PreResolvedCall => CallsOnly
        /\ LambdaCall => CallsOnly
        /\ SkipPackage => CallsOnly
        /\ CallComposed => CallsOnly
        /\ SkipPackageType => CallsOnly
        /\ CallOfType => CallsOnly
        /\ CallByLanguage => CallsOnly
    BY Answers DEF PreResolvedCall, LambdaCall, SkipPackage, CallComposed, SkipPackageType,
                   CallOfType, CallByLanguage
  <2>3. /\ Begin => CallsOnly
        /\ NotImported => CallsOnly
        /\ LookupType => CallsOnly
        /\ Untyped => CallsOnly
        /\ QualifyType => CallsOnly
    BY Answers DEF Begin, NotImported, LookupType, Untyped, QualifyType
  <2>4. /\ SuperCall => CallsOnly
        /\ LambdaRedirect => CallsOnly
        /\ CallOfPrefix => CallsOnly
        /\ FallbackCall => CallsOnly
    BY Answers DEF SuperCall, LambdaRedirect, CallOfPrefix, FallbackCall
  <2>5. CallsOnly
    BY <1>1, <2>2, <2>3, <2>4
  <2> QED BY <2>1, <2>5 DEF Added, Asked
<1>2. CASE CallReExported
  BY <1>2, Answers DEF CallReExported, Added
<1>3. CASE CallInheritedImport \/ CallInherited \/ CallOwnInherited
  BY <1>3, Answers DEF CallInheritedImport, CallInherited, CallOwnInherited, AskType, Added
<1>4. CASE CallExternalImport
  BY <1>4, Answers DEF CallExternalImport, External, Added
<1>5. CASE CallExternalType
  <2>1. ExternalOfType # Nothing => ExternalOfType.kind = "Function"
    BY DEF ExternalOfType, External
  <2> QED BY <1>5, <2>1, Answers DEF CallExternalType, AskType, Added
<1>6. CASE CallUnknown
  <2>1. ExternalCall # Nothing => ExternalCall.kind = "Function"
    BY DEF ExternalCall, External
  <2> QED BY <1>6, <2>1, Answers DEF CallUnknown, Added
<1>7. CASE CallUnique
  BY <1>7, Answers DEF CallUnique, Relation, Added, CallsOnly
<1>8. CASE CallBack \/ CallsResolved
  BY <1>8 DEF CallBack, CallsResolved, tableVars, hierarchyVars, Relation, Added, Asked, CallsOnly
<1> QED BY <1>1, <1>2, <1>3, <1>4, <1>5, <1>6, <1>7, <1>8 DEF ResolveCalls

LEMMA DispatchCalls == ASSUME DispatchInv, ResolveCalls PROVE DispatchInv'
<1>1. UNCHANGED <<project, parseOrder>> /\ phase \in BeforeOverrides /\ phase' \in BeforeOverrides
  <2>1. CASE \E s : At(s)
    <3>1. PICK s : At(s)
      BY <2>1
    <3> QED BY <3>1 DEF At, BeforeOverrides
  <2>2. CASE CallsResolved
    BY <2>2 DEF CallsResolved, tableVars, BeforeOverrides
  <2> QED BY <2>1, <2>2 DEF ResolveCalls,
     PreResolvedCall, LambdaCall, Begin, SkipPackage, SuperCall, LambdaRedirect,
     NotImported, CallReExported, CallComposed, CallInheritedImport, CallExternalImport,
     LookupType, Untyped, SkipPackageType, QualifyType, CallOfType, CallInherited,
     CallExternalType, CallUnknown, CallOfPrefix, CallByLanguage, FallbackCall,
     CallOwnInherited, CallUnique, CallBack
<1> QED BY <1>1, CallEffects, BeforeStep DEF CallsOnly, OverrideKinds

LEMMA HeritageStep == ASSUME DispatchInv, ResolveHeritage PROVE DispatchInv'
<1>1. /\ UNCHANGED <<project, parseOrder, table, parentMap>>
      /\ phase \in BeforeOverrides /\ phase' \in BeforeOverrides
  BY DEF ResolveHeritage, tableVars, hierarchyVars, BeforeOverrides
<1>2. \A r \in relations' : r \in relations \/ r.kind \notin OverrideKinds
  BY DEF ResolveHeritage, Relation, OverrideKinds
<1> QED BY <1>1, <1>2, BeforeStep DEF Added, Asked

\* The overrides are looked for: those that there are, are found.
LEMMA OverridesStep == ASSUME DispatchInv, DetectOverridesAndDispatches PROVE DispatchInv'
<1> DEFINE pairs == UNION {Overrides(c) : c \in DOMAIN Parents}
<1>1. /\ UNCHANGED <<project, parseOrder, table>> /\ parentMap' = Parents
      /\ phase \in BeforeOverrides /\ phase' = "uses"
      /\ relations' = relations \union Both(pairs, "override_detection")
  BY DEF DetectOverridesAndDispatches, tableVars, BeforeOverrides
<1>2. /\ TableInv' /\ (LibrariesApart' => LibrariesApart)
      /\ (ClausesAreClear /\ LibrariesApart => parentMap = Nothing \/ DirectMap(parentMap))'
  BY <1>1, Grown DEF Added, Asked
<1>3. ASSUME ClausesAreClear', LibrariesApart' PROVE DispatchesFound'
  <2>1. ClausesAreClear /\ LibrariesApart
    BY <1>1, <1>2, <1>3, HierarchyRest
  <2>2. pairs = Overriding
    BY <2>1, ParentsDirect, OverridesFound DEF DispatchInv
  <2>3. \A r \in relations : r.kind \notin OverrideKinds
    BY <1>1 DEF DispatchInv
  <2> HIDE DEF pairs
  <2>4. relations' = relations \union Both(Overriding, "override_detection")
    BY <1>1, <2>2
  <2>5. Pairs("OVERRIDES")' = Overriding
    <3>1. \A x : x \in Pairs("OVERRIDES")' => x \in Overriding
      BY <2>3, <2>4 DEF Pairs, Both, Relation, OverrideKinds, Overriding
    <3>2. ASSUME NEW x \in Overriding PROVE x \in Pairs("OVERRIDES")'
      <4>1. x = <<x[1], x[2]>>
        BY DEF Overriding
      <4>2. Relation("OVERRIDES", x[1], x[2], "override_detection", 0) \in relations'
        BY <2>4 DEF Both
      <4> QED BY <4>1, <4>2 DEF Pairs, Relation
    <3> QED BY <3>1, <3>2
  <2>6. Pairs("DISPATCHES")' = {<<p[2], p[1]>> : p \in Overriding}
    <3>1. \A x : x \in Pairs("DISPATCHES")' => \E p \in Overriding : x = <<p[2], p[1]>>
      BY <2>3, <2>4 DEF Pairs, Both, Relation, OverrideKinds
    <3>2. ASSUME NEW p \in Overriding PROVE <<p[2], p[1]>> \in Pairs("DISPATCHES")'
      <4>1. Relation("DISPATCHES", p[2], p[1], "override_detection", 0) \in relations'
        BY <2>4 DEF Both
      <4> QED BY <4>1 DEF Pairs, Relation
    <3> QED BY <3>1, <3>2
  <2>7. Overriding' = Overriding
    BY <1>1, HierarchyRest
  <2> QED BY <2>5, <2>6, <2>7 DEF DispatchesFound
<1> QED BY <1>1, <1>2, <1>3 DEF DispatchInv, BeforeOverrides

\* After that, no step relates anything that way but those of Go.
LEMMA AfterStep ==
  ASSUME DispatchInv, UNCHANGED <<project, parseOrder, table, parentMap>>,
         phase \in AfterOverrides, phase' \in AfterOverrides,
         project.lang # "go" => /\ relations \subseteq relations'
                                /\ \A r \in relations' : r \in relations \/ r.kind \notin OverrideKinds
  PROVE  DispatchInv'
<1>1. /\ TableInv' /\ (LibrariesApart' => LibrariesApart)
      /\ (ClausesAreClear /\ LibrariesApart => parentMap = Nothing \/ DirectMap(parentMap))'
  BY Grown DEF Added, Asked
<1>2. ASSUME project.lang # "go", ClausesAreClear', LibrariesApart' PROVE DispatchesFound'
  <2>1. DispatchesFound
    BY <1>1, <1>2, HierarchyRest DEF DispatchInv
  <2>2. \A kind \in OverrideKinds : {r \in relations' : r.kind = kind} = {r \in relations : r.kind = kind}
    BY <1>2
  <2>3. \A kind \in OverrideKinds : Pairs(kind)' = Pairs(kind)
    BY <2>2 DEF Pairs
  <2> QED BY <2>1, <2>3, HierarchyRest DEF DispatchesFound, OverrideKinds
<1>3. phase' \notin BeforeOverrides
  BY DEF BeforeOverrides, AfterOverrides
<1> QED BY <1>1, <1>2, <1>3 DEF DispatchInv

LEMMA LastSteps == ASSUME DispatchInv, ResolveConstRefs \/ InferImplements PROVE DispatchInv'
<1>1. /\ UNCHANGED <<project, parseOrder, table, parentMap>>
      /\ phase \in AfterOverrides /\ phase' \in AfterOverrides
  BY DEF ResolveConstRefs, InferImplements, tableVars, hierarchyVars, AfterOverrides
<1>2. CASE ResolveConstRefs
  <2>1. relations \subseteq relations' /\ \A r \in relations' : r \in relations \/ r.kind = "USES"
    BY <1>2 DEF ResolveConstRefs, Relation
  <2> QED BY <1>1, <2>1, AfterStep DEF OverrideKinds
<1>3. CASE InferImplements
  <2>1. project.lang # "go" => relations' = relations
    BY <1>3 DEF InferImplements
  <2> QED BY <1>1, <2>1, AfterStep
<1> QED BY <1>2, <1>3

LEMMA DispatchRest == ASSUME DispatchInv, UNCHANGED vars PROVE DispatchInv'
<1>1. UNCHANGED <<project, parseOrder, table, parentMap, relations, phase>>
  BY DEF vars, tableVars, hierarchyVars
<1>2. CASE phase \in BeforeOverrides
  BY <1>1, <1>2, BeforeStep DEF Added, Asked
<1>3. CASE phase \in AfterOverrides
  BY <1>1, <1>3, AfterStep
<1>4. CASE phase \notin BeforeOverrides \union AfterOverrides
  BY <1>1, <1>4, Grown DEF DispatchInv, Added, Asked
<1> QED BY <1>2, <1>3, <1>4

LEMMA DispatchStep == DispatchInv /\ [Next]_vars => DispatchInv'
<1> SUFFICES ASSUME DispatchInv, [Next]_vars PROVE DispatchInv'
  OBVIOUS
<1>1. CASE \/ PropagateExports /\ UNCHANGED <<typeVars, hierarchyVars, relations, callVars>>
           \/ InferTypes /\ UNCHANGED <<hierarchyVars, relations, callVars>>
  BY <1>1, EarlyStep
<1>2. CASE ResolveCalls
  BY <1>2, DispatchCalls
<1>3. CASE Relate \/ ResolveConstRefs
  BY <1>3, HeritageStep, OverridesStep, LastSteps DEF Relate
<1>4. CASE UNCHANGED vars
  BY <1>4, DispatchRest
<1> QED BY <1>1, <1>2, <1>3, <1>4 DEF Next, Done

\* For every project whose clauses say which classes they mean, in whatever
\* order its files were parsed and whatever was looked up before: in the end
\* the methods that are related by overrides and dispatches are those of the
\* project that override, as long as no call has added a method to the
\* hierarchy that has the signature of another.  Each walk up the hierarchy
\* ends with all that can be reached, cycles included.
THEOREM OverridesAreComplete ==
  Spec => [](ClausesAreClear /\ LibrariesApart => DispatchesComplete)
<1>1. DispatchInv => (ClausesAreClear /\ LibrariesApart => DispatchesComplete)
  BY DEF DispatchInv, DispatchesComplete, AfterOverrides
<1> QED BY <1>1, DispatchInit, DispatchStep, PTL DEF Spec
=============================================================================
