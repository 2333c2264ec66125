--------------------------- MODULE CallResolution ---------------------------
(***************************************************************************)
(* Calls: which functions a call may go to.  One strategy is tried after  *)
(* the other, each an action, until one answers: what precedes types,     *)
(* types and the hierarchy, packages, and then less and less.  A call     *)
(* that leaves the project adds the function it goes to to the table.     *)
(***************************************************************************)
EXTENDS Hierarchy

VARIABLES
  stage,        \* the strategy that is tried next
  hints,        \* calls that are ambiguous: UnresolvedHint
  receiverType, \* of the call: as it was looked up, then as a qualified name
  chainCache,   \* chainedReceiverCache: <<chain, scope, file>> |-> type
  typeCache     \* qualifiedTypeCache: <<type, file>> |-> qualified type

lookupVars == <<receiverType, chainCache, typeCache>>
callVars == <<stage, hints, lookupVars>>

InitCalls ==
  /\ stage = "start"
  /\ hints = {}
  /\ receiverType = Nothing /\ chainCache = Empty /\ typeCache = Empty

Calls == Collect(parseOrder, "calls")
Call == Calls[next]
Imports == project.files[Call.file].imports

Candidates ==
  SelectSeq(FindByName(Call.called), LAMBDA s : s.kind \in {"Function", "Class"})

HasReceiver == Call.receiver # <<>>

\* The receiver is a plain name, and not the result of a call.
Simple == Len(Call.receiver) = 1 /\ ~Call.receiver[1].call
ReceiverName == IF Simple THEN Call.receiver[1].name ELSE Nothing

LambdaOf(variable) ==
  LET b == Binding(Call.file, Call.scope, variable)
  IN IF b = Nothing THEN Nothing ELSE b.lambda

\* findCallerID
Caller ==
  LET inside(symbols) == SelectSeq(symbols, LAMBDA s :
        /\ s.file = Call.file /\ s.kind = "Function"
        /\ s.first <= Call.line /\ Call.line <= s.last)
      same == FindByQualifiedName(Call.caller)
      named == IF Call.caller = <<>> THEN <<>>
               ELSE SelectSeq(FindByName(Last(Call.caller)), LAMBDA s :
                      s.file = Call.file /\ s.kind = "Function")
      options == inside(same) \o same \o inside(named) \o named
  IN CASE Len(same) = 1 -> same[1]
       [] Len(same) # 1 /\ options # <<>> -> options[1]
       [] OTHER -> [caller |-> Call.caller, file |-> Call.file]

----------------------------------------------------------------------------
(* Filters                                                                 *)

\* filterByOwnerClass
OfClass(symbols, class) ==
  SelectSeq(symbols, LAMBDA s :
    \E i \in 1..(Len(s.qn) - Len(class)) : SubSeq(s.qn, i, i + Len(class) - 1) = class)

\* The qualified names below another.
Below(symbols, qn) ==
  SelectSeq(symbols, LAMBDA s : IsStrictPrefix(qn, s.qn))

OfFile(symbols, file) == SelectSeq(symbols, LAMBDA s : s.file = file)

\* filterByArgCount
Accepting(symbols) ==
  SelectSeq(symbols, LAMBDA s :
    IF s.varargs THEN Call.args >= s.arity - 1
    ELSE s.required <= Call.args /\ Call.args <= s.arity)

\* filterByArgTypes, of arguments whose types are not known: those with as
\* many parameters, and of these the ones with a fixed number.
Fitting(symbols) ==
  LET exact == SelectSeq(symbols, LAMBDA s : s.varargs \/ s.arity = Call.args)
      kept == IF exact = <<>> THEN symbols ELSE exact
      fixed == SelectSeq(kept, LAMBDA s : ~s.varargs)
  IN CASE Call.args = 0 -> symbols
       [] Call.args > 0 /\ fixed # <<>> -> fixed
       [] OTHER -> kept

\* The first choice that leaves a single symbol, or else all of the rest.
Narrowed(choices, rest) ==
  LET single == SelectSeq(choices, LAMBDA c : Len(c) = 1)
  IN IF single = <<>> THEN rest ELSE Head(single)

ByCount(symbols) == Narrowed(<<symbols, Accepting(symbols)>>, symbols)

\* extractPackage
PackageOf(file) ==
  LET class == FirstClass(FindByFile(file))
  IN IF class = Nothing THEN <<>> ELSE Front(class.qn)

Directory(file) == Front(file)

\* NarrowByScope: what is near the caller, or else what it imports, or all.
InScope(symbols) ==
  LET lang == project.lang
      package == PackageOf(Call.file)
      near(s) ==
        CASE lang = "java" -> package # <<>> /\ Len(s.qn) > 2
                              /\ Front(Front(s.qn)) = package
          [] lang = "go"   -> Directory(s.file) = Directory(Call.file)
          [] OTHER         -> s.file = Call.file
      imports(s, i) ==
        CASE lang = "java" -> IsStrictPrefix(i.module, s.qn)
                              /\ Len(s.qn) <= Len(i.module) + 2
          [] lang = "go"   -> \E k \in 1..Len(s.qn) :
                                IsPrefix(i.module, SubSeq(s.qn, k, Len(s.qn)))
          [] lang = "typescript" -> Under(s.file, i.module)
          [] OTHER         -> IsStrictPrefix(i.module, s.qn)
      close == SelectSeq(symbols, near)
      imported == SelectSeq(symbols, LAMBDA s : \E i \in ToSet(Imports) : imports(s, i))
      either == SelectSeq(symbols, LAMBDA s :
                  near(s) \/ \E i \in ToSet(Imports) : imports(s, i))
  IN CASE Len(symbols) <= 1                           -> symbols
       [] lang = "java" /\ either # <<>>              -> either
       [] lang # "java" /\ close # <<>>               -> close
       [] lang # "java" /\ close = <<>> /\ imported # <<>> -> imported
       [] OTHER                                       -> symbols

----------------------------------------------------------------------------
(* The type of a receiver.                                                 *)

\* The receiver without self or this in front of it.
Stripped ==
  IF Len(Call.receiver) > 1 /\ ~Call.receiver[1].call
     /\ Call.receiver[1].name \in {"self", "this"}
  THEN Tail(Call.receiver) ELSE Call.receiver

\* lookupReceiverType, of a name.
TypeOfName(r) ==
  LET b == IF r.call THEN Nothing ELSE Binding(Call.file, Call.scope, r.name) IN
  CASE b # Nothing -> IF b.type = <<>> THEN Nothing ELSE b.type
    [] b = Nothing /\ ~r.call -> FieldType(Call.caller, r.name)
    [] OTHER -> Nothing

FieldOf(type, field) ==
  LET here == bindings[Call.file]
      classes == IF Len(type) > 1 THEN <<>>
                 ELSE SelectSeq(FindByName(type[1]), IsClassLike)
      bound == SelectSeq(<<type>> \o [i \in 1..Len(classes) |-> classes[i].qn],
                         LAMBDA c : <<c, field>> \in DOMAIN here)
      declared == SelectSeq(classes, LAMBDA c : FindFieldByOwner(c.qn, field) # Nothing)
  IN CASE bound # <<>> -> here[<<Head(bound), field>>].type
       [] bound = <<>> /\ declared # <<>> -> FindFieldByOwner(Head(declared).qn, field)
       [] OTHER -> Nothing

\* What a method of the project returns, or else one of a library: nothing
\* after a terminal operation, the same type for SELF.
ReturnedBy(type, method) ==
  LET own == MethodReturn(type, method)
      x == ExternalMethod(type, method)
  IN CASE own # Nothing -> IF own = <<>> THEN Nothing ELSE own
       [] own = Nothing /\ x # Nothing /\ x.returns # <<>> ->
            IF x.returns = <<"SELF">> THEN type ELSE x.returns
       [] OTHER -> Nothing

\* resolveChainedReceiver: from left to right, the type of a.b().c.
ChainType(receiver) ==
  LET type[n \in 2..Len(receiver)] ==
        LET key == <<SubSeq(receiver, 1, n), Call.scope, Call.file>>
            last == receiver[n]
            typed == IF n = 2 THEN TypeOfName(receiver[1]) ELSE type[n - 1]
            constant == /\ n > 2 /\ \A i \in 1..(n - 1) : ~receiver[i].call
                        /\ \E s \in ToSet(FindByName(receiver[1].name)) : s.kind = "Class"
            base == IF typed = Nothing /\ constant THEN <<receiver[1].name>> ELSE typed
        IN CASE key \in DOMAIN chainCache -> chainCache[key]
             [] key \notin DOMAIN chainCache /\ base = Nothing -> Nothing
             [] OTHER -> IF last.call THEN ReturnedBy(base, last.name)
                                      ELSE FieldOf(base, last.name)
  IN type[Len(receiver)]

ReceiverType ==
  IF Len(Stripped) = 1 THEN TypeOfName(Stripped[1]) ELSE ChainType(Stripped)

\* The chain and those it starts with are remembered.
RememberChain ==
  chainCache' = chainCache @@
    [k \in {<<SubSeq(Stripped, 1, i), Call.scope, Call.file>> : i \in 2..Len(Stripped)}
       |-> ChainType(k[1])]

\* resolveFullQualifiedType: the first import that is decisive, a class of the
\* caller's package, any class.
FullTypeUncached(name, file) ==
  LET classes == SelectSeq(FindByName(name), IsClassLike)
      wild(i) == i.isWildcard /\ \E c \in ToSet(classes) : c.qn = Append(i.module, name)
      i == First(SelectSeq(project.files[file].imports,
                           LAMBDA e : e.name = name \/ wild(e)))
      key == <<file, name>>
      exported == IF i # Nothing /\ i.name = name /\ key \in DOMAIN importFileMap
                     /\ NameIn(importFileMap[key], name) \in DOMAIN reExports
                  THEN reExports[NameIn(importFileMap[key], name)] ELSE Nothing
      imported == IF i = Nothing THEN Nothing
                  ELSE First(SelectSeq(classes, LAMBDA c : IsPrefix(i.module, c.qn)))
      packaged == First(Below(classes, DerivePackage(file)))
  IN CASE i # Nothing /\ i.name # name -> Append(i.module, name)
       [] i # Nothing /\ i.name = name /\ exported # Nothing -> exported.qn
       [] i # Nothing /\ i.name = name /\ exported = Nothing /\ imported # Nothing ->
            imported.qn
       [] i # Nothing /\ i.name = name /\ exported = Nothing /\ classes = <<>> ->
            i.module
       [] OTHER -> IF packaged # Nothing THEN packaged.qn
                   ELSE IF classes # <<>> THEN Head(classes).qn ELSE <<name>>

FullType(type, file) ==
  CASE Len(type) # 1 -> type
    [] Len(type) = 1 /\ <<type, file>> \in DOMAIN typeCache -> typeCache[<<type, file>>]
    [] OTHER -> FullTypeUncached(type[1], file)


----------------------------------------------------------------------------
(* Strategies.  Each answers the call, which may be that it goes nowhere,  *)
(* or leaves it to another.                                                *)

At(s) ==
  /\ phase = "calls" /\ next <= Len(Calls) /\ stage = s
  /\ UNCHANGED <<project, parseOrder, reExports, exportVars, typeVars, phase>>

Answer(symbols, how) ==
  /\ relations' = relations \cup
       {Relation("CALLS", Caller, s, how, next) : s \in ToSet(symbols)}
  /\ stage' = "callbacks"
  /\ UNCHANGED <<next, hints>>

Pass(s) == stage' = s /\ UNCHANGED <<next, hints, relations>>

AnswerOr(symbols, how, s) ==
  IF symbols # <<>> THEN Answer(symbols, how) ELSE Pass(s)

\* A function of a library.
External(qn, returns) ==
  [qn |-> qn, kind |-> "Function", file |-> Nothing, exported |-> FALSE,
   isDefault |-> FALSE, arity |-> 0, required |-> 0, varargs |-> FALSE,
   returns |-> returns, first |-> 0, last |-> 0, constant |-> FALSE,
   synthetic |-> FALSE]

\* Mutant of AnswerExternal: the function is not added.
AnswerUnadded(symbol) == UNCHANGED table /\ Answer(<<symbol>>, "external")

AnswerExternal(symbol) ==
  table' = Append(table, symbol) /\ Answer(<<symbol>>, "external")

PreResolvedCall ==
  /\ At("start") /\ Call.pre # Nothing
  /\ LET known == FindByQualifiedName(Call.pre) IN
     Answer(IF Len(known) = 1 THEN known ELSE <<>>, "pre_resolved")
  /\ UNCHANGED <<table, hierarchyVars, lookupVars>>

LambdaCall ==
  /\ At("start") /\ Call.pre = Nothing /\ ~HasReceiver
  /\ LambdaOf(Call.called) # Nothing
  /\ Answer(<<LambdaOf(Call.called)>>, "lambda")
  /\ UNCHANGED <<table, hierarchyVars, lookupVars>>

Begin ==
  /\ At("start") /\ Call.pre = Nothing
  /\ HasReceiver \/ LambdaOf(Call.called) = Nothing
  /\ Pass(CASE HasReceiver /\ Candidates # <<>>  -> "super"
            [] HasReceiver /\ Candidates = <<>>  -> "lambda"
            [] ~HasReceiver /\ Candidates # <<>> -> "fallback"
            [] OTHER                             -> "callbacks")
  /\ UNCHANGED <<table, hierarchyVars, lookupVars>>

\* IsExternalPackage: there are none for Java and TypeScript.
SkipPackage ==
  /\ At("super") /\ ReceiverName \in project.packages
  /\ Answer(<<>>, "external")
  /\ UNCHANGED <<table, hierarchyVars, lookupVars>>

\* The parent that the caller's class extends, in its file.
SuperClause ==
  First(SelectSeq(Heritage, LAMBDA h :
    /\ Len(Call.caller) > 1 /\ Last(h.child) = Last(Front(Call.caller))
    /\ h.kind = "extends" /\ h.file = Call.file))

\* For Java the parent's class: of the same package, or imported.
SuperClass(parent) ==
  First(SelectSeq(FindByName(parent), LAMBDA s :
    /\ s.kind = "Class"
    /\ \/ PackageOf(Call.file) # <<>> /\ Front(s.qn) = PackageOf(Call.file)
       \/ \E i \in ToSet(Imports) :
            i.name = parent \/ IsStrictPrefix(i.module, s.qn)))

SuperTargets ==
  LET h == SuperClause
      class == SuperClass(h.parent)
      named == OfClass(Candidates, <<h.parent>>)
      owned == SelectSeq(Candidates, LAMBDA s : OwnedBy(s, <<h.parent>>))
      own == IF class = Nothing THEN named ELSE Below(Candidates, class.qn)
      above == Walk(IF class = Nothing THEN ClassNamed(<<h.parent>>) ELSE class.qn,
                    Call.called)
  IN CASE project.lang = "go" \/ ReceiverName # "super" \/ h = Nothing -> <<>>
       [] project.lang = "python"     -> IF Len(named) = 1 THEN named ELSE <<>>
       [] project.lang = "typescript" -> ByCount(IF owned = <<>> THEN named ELSE owned)
       [] OTHER -> IF own # <<>> THEN ByCount(own)
                   ELSE IF above = Nothing THEN <<>> ELSE <<above>>

SuperCall ==
  /\ At("super") /\ ReceiverName \notin project.packages
  /\ AnswerOr(SuperTargets, "super", "lambda")
  /\ UNCHANGED <<table, hierarchyVars, lookupVars>>

LambdaRedirect ==
  /\ At("lambda")
  /\ LET lambda == LambdaOf(ReceiverName) IN
     AnswerOr(IF lambda = Nothing THEN <<>> ELSE <<lambda>>, "lambda", "imported")
  /\ UNCHANGED <<table, hierarchyVars, lookupVars>>

----------------------------------------------------------------------------
(* Calls of what is imported.                                              *)

\* The hierarchy is asked only if there is one.
Inherited(class) ==
  IF Heritage = <<>> THEN Nothing ELSE FindMethodInHierarchy(class, Call.called)

Ask(class) ==
  IF Heritage = <<>> THEN UNCHANGED hierarchyVars ELSE Remember(class, Call.called)

Import ==
  IF Simple THEN First(SelectSeq(Imports, LAMBDA e : e.name = ReceiverName))
  ELSE Nothing

NotImported ==
  /\ At("imported") /\ Import = Nothing
  /\ Pass("typed")
  /\ UNCHANGED <<table, hierarchyVars, lookupVars>>

\* resolveViaReExportIndex: the class that the name stands for, and those of
\* that short name.
ReExported ==
  LET key == <<Call.file, ReceiverName>> IN
  IF key \notin DOMAIN importFileMap THEN Nothing
  ELSE First(FindByQualifiedNameWithReExport(NameIn(importFileMap[key], ReceiverName)))

CallReExported ==
  /\ At("imported") /\ Import # Nothing
  /\ LET class == ReExported
         own == IF class = Nothing THEN <<>>
                ELSE OfClass(FindByName(Call.called), <<Last(class.qn)>>)
         above == IF class = Nothing \/ own # <<>> THEN Nothing
                  ELSE Inherited(class.qn)
     IN /\ AnswerOr(IF above = Nothing THEN ByCount(own) ELSE <<above>>,
                    "import_reexport", "legacy")
        /\ IF class = Nothing \/ own # <<>> THEN UNCHANGED hierarchyVars
           ELSE Ask(class.qn)
  /\ UNCHANGED <<table, lookupVars>>

\* Of the functions called that, those whose qualified name ends in the
\* module and that name.  No path with slashes is a qualified name.
Composed ==
  LET qn == Append(Import.module, Call.called)
      ends(s) == LET n == Len(s.qn) - Len(qn) IN
        /\ n >= 0
        /\ \A i \in 2..Len(qn) : s.qn[n + i] = qn[i]
        /\ s.qn[n + 1] = qn[1] \/ <<s.qn[n + 1], qn[1]>> \in project.endings
  IN IF project.lang = "typescript" /\ Len(Import.module) > 1 THEN <<>>
     ELSE SelectSeq(FindByName(Call.called), ends)

ByTypes(symbols, rest) ==
  Narrowed(<<symbols, Accepting(symbols), Fitting(Accepting(symbols))>>, rest)

CallComposed ==
  /\ At("legacy") /\ Composed # <<>>
  /\ Answer(ByTypes(Composed, Composed), "import_exact")
  /\ UNCHANGED <<table, hierarchyVars, lookupVars>>

CallInheritedImport ==
  /\ At("legacy") /\ Composed = <<>> /\ Inherited(Import.module) # Nothing
  /\ Answer(<<Inherited(Import.module)>>, "import_hierarchy")
  /\ Ask(Import.module)
  /\ UNCHANGED <<table, lookupVars>>

CallExternalImport ==
  /\ At("legacy") /\ Composed = <<>> /\ Inherited(Import.module) = Nothing
  /\ AnswerExternal(External(Append(Import.module, Call.called), <<>>))
  /\ Ask(Import.module)
  /\ UNCHANGED lookupVars

----------------------------------------------------------------------------
(* Calls on a receiver of known type.                                      *)

OfPackage(type) == Len(type) > 1 /\ type[1] \in project.packages

ReceiverNames == [i \in 1..Len(Call.receiver) |-> Call.receiver[i].name]

LookupType ==
  /\ At("typed")
  /\ receiverType' = ReceiverType
  /\ RememberChain
  /\ Pass(IF Candidates = <<>> THEN "unknown" ELSE "qualify")
  /\ UNCHANGED <<table, hierarchyVars, typeCache>>

Untyped ==
  /\ At("qualify") /\ receiverType = Nothing
  /\ Pass("prefix")
  /\ UNCHANGED <<table, hierarchyVars, lookupVars>>

SkipPackageType ==
  /\ At("qualify") /\ receiverType # Nothing /\ OfPackage(receiverType)
  /\ Answer(<<>>, "external")
  /\ UNCHANGED <<table, hierarchyVars, lookupVars>>

\* resolveFullQualifiedType
QualifyType ==
  /\ At("qualify") /\ receiverType # Nothing /\ ~OfPackage(receiverType)
  /\ receiverType' = FullType(receiverType, Call.file)
  /\ typeCache' = IF Len(receiverType) # 1 THEN typeCache
                  ELSE (<<receiverType, Call.file>> :> receiverType') @@ typeCache
  /\ Pass("of type")
  /\ UNCHANGED <<table, hierarchyVars, chainCache>>

\* The methods of the class itself, or else those whose qualified name has
\* the name of the class in it.
OfType ==
  LET own == SelectSeq(FindMethodsByQualifiedName(receiverType),
                       LAMBDA s : Last(s.qn) = Call.called)
  IN IF Len(receiverType) > 1 /\ own # <<>> THEN own
     ELSE OfClass(Candidates, receiverType)

OrAccepting(symbols) ==
  IF Accepting(symbols) = <<>> THEN symbols ELSE Accepting(symbols)

\* disambiguateMultipleMatches, of those in scope.
Disambiguated(near) ==
  Narrowed(<<near, OfFile(near, Call.file)>>, ByTypes(near, OrAccepting(near)))

CallOfType ==
  /\ At("of type") /\ OfType # <<>>
  /\ Answer(Disambiguated(InScope(OfType)), "type_exact")
  /\ UNCHANGED <<table, hierarchyVars, lookupVars>>

\* What a class of the project inherits.
OverType ==
  IF ClassSymbol(receiverType) = Nothing THEN Nothing ELSE Inherited(receiverType)

AskType ==
  IF ClassSymbol(receiverType) = Nothing THEN UNCHANGED hierarchyVars
  ELSE Ask(receiverType)

CallInherited ==
  /\ At("of type") /\ OfType = <<>> /\ OverType # Nothing
  /\ Answer(<<OverType>>, "type_hierarchy")
  /\ AskType
  /\ UNCHANGED <<table, lookupVars>>

\* resolveAsExternalDependency
ExternalOfType ==
  LET i == First(SelectSeq(Imports, LAMBDA e : <<e.name>> = receiverType))
      x == ExternalMethod(receiverType, Call.called)
  IN CASE Len(receiverType) > 1 -> External(Append(receiverType, Call.called), <<>>)
       [] Len(receiverType) = 1 /\ i # Nothing ->
            External(Append(i.module, Call.called), <<>>)
       [] Len(receiverType) = 1 /\ i = Nothing /\ x # Nothing ->
            External(Append(receiverType, Call.called), <<x.returns>>)
       [] OTHER -> Nothing

AnswerExternalOr(symbol) ==
  IF symbol = Nothing THEN Answer(<<>>, "external") /\ UNCHANGED table
  ELSE AnswerExternal(symbol)

CallExternalType ==
  /\ At("of type") /\ OfType = <<>> /\ OverType = Nothing
  /\ AnswerExternalOr(ExternalOfType)
  /\ AskType
  /\ UNCHANGED lookupVars

\* resolveCallNoCandidate: no function has that name.  The type is not made a
\* qualified name.
Unusable == receiverType \in {Nothing, ReceiverNames}

InternalOfType ==
  IF Unusable THEN <<>> ELSE OfClass(FindByName(Call.called), receiverType)

ExternalCall ==
  LET type == receiverType
      x == ExternalMethod(type, Call.called)
      i == First(SelectSeq(Imports, LAMBDA e :
             <<e.name>> = type \/ (Len(type) > 1 /\ IsPrefix(e.module, type))))
      owner == IF Len(type) > 1 THEN type ELSE i.module
  IN CASE Unusable -> Nothing
       [] ~Unusable /\ x # Nothing ->
            External(Append(type, Call.called), <<x.returns>>)
       [] ~Unusable /\ x = Nothing /\ i # Nothing ->
            External(Append(owner, Call.called), <<>>)
       [] OTHER -> Nothing

CallUnknown ==
  /\ At("unknown")
  /\ IF InternalOfType # <<>>
     THEN Answer(<<Head(InternalOfType)>>, "receiver_type_internal") /\ UNCHANGED table
     ELSE AnswerExternalOr(ExternalCall)
  /\ UNCHANGED <<hierarchyVars, lookupVars>>

----------------------------------------------------------------------------
(* Calls whose receiver has no known type, or that have none.              *)

\* The receiver is a package or a class that appears in qualified names.
CallOfPrefix ==
  /\ At("prefix")
  /\ LET plain == \A i \in DOMAIN Call.receiver : ~Call.receiver[i].call
         matched == IF plain THEN OfClass(Candidates, ReceiverNames) ELSE <<>>
     IN AnswerOr(IF Len(matched) = 1 THEN matched ELSE <<>>,
                 "package_prefix", "language")
  /\ UNCHANGED <<table, hierarchyVars, lookupVars>>

\* ResolveReceiverFallback: for Java a class of the same package or nothing;
\* a global object of TypeScript has no functions of the project.
StaticTargets ==
  LET class == First(SelectSeq(FindByName(ReceiverName), LAMBDA s :
                 /\ IsClassLike(s) /\ PackageOf(Call.file) # <<>>
                 /\ Front(s.qn) = PackageOf(Call.file)))
      own == IF class = Nothing THEN <<>> ELSE Below(Candidates, class.qn)
  IN IF project.lang = "java" THEN ByTypes(own, OrAccepting(own)) ELSE <<>>

FallsThrough ==
  project.lang # "java" /\ ~(project.lang = "typescript" /\ ReceiverName \in project.globals)

CallByLanguage ==
  /\ At("language")
  /\ IF FallsThrough THEN Pass("fallback") ELSE Answer(StaticTargets, "type_exact")
  /\ UNCHANGED <<table, hierarchyVars, lookupVars>>

\* FilterGenerated, and the scope of a call without receiver.
Real == SelectSeq(Candidates, LAMBDA s : project.lang = "java" => ~s.synthetic)

Scoped == ~HasReceiver /\ Len(Real) > 1

Near == IF Scoped THEN InScope(Real) ELSE Real

FallbackCall ==
  /\ At("fallback")
  /\ LET counted == IF Call.args = 0 THEN <<>> ELSE Accepting(Near) IN
     AnswerOr(Narrowed(<<OfFile(Real, Call.file), IF Scoped THEN Near ELSE <<>>,
                         counted, Fitting(counted)>>, <<>>),
              "same_file", "inherited")
  /\ UNCHANGED <<table, hierarchyVars, lookupVars>>

\* What the caller's class inherits, or else the only function of that name.
OwnerOfCaller == IF Len(Call.caller) > 1 THEN Front(Call.caller) ELSE Call.caller

CallOwnInherited ==
  /\ At("inherited") /\ ~HasReceiver /\ Inherited(OwnerOfCaller) # Nothing
  /\ Answer(<<Inherited(OwnerOfCaller)>>, "type_hierarchy")
  /\ Ask(OwnerOfCaller)
  /\ UNCHANGED <<table, lookupVars>>

CallUnique ==
  /\ At("inherited")
  /\ HasReceiver \/ Inherited(OwnerOfCaller) = Nothing
  /\ relations' = relations \cup
       (IF Len(Near) = 1 THEN {Relation("CALLS", Caller, Near[1], "name_unique", next)}
                         ELSE {})
  /\ hints' = IF Len(Near) > 1 THEN hints \cup {next} ELSE hints
  /\ stage' = "callbacks"
  /\ IF HasReceiver THEN UNCHANGED hierarchyVars ELSE Ask(OwnerOfCaller)
  /\ UNCHANGED <<next, table, lookupVars>>

----------------------------------------------------------------------------

\* resolveCallbackTarget: a lambda, or a method of the type of a variable.
CallbackTarget(ref) ==
  LET type == TypeOfVariable(Call.file, Call.scope, ref[1]) IN
  CASE Len(ref) = 1 -> LambdaOf(ref[1])
    [] Len(ref) > 1 /\ type # Nothing ->
         First(SelectSeq(FindByName(ref[2]), LAMBDA s :
           s.kind = "Function" /\ OwnedBy(s, type)))
    [] OTHER -> Nothing

\* detectCallbackReferences, and then the next call.
CallBack ==
  /\ At("callbacks")
  /\ relations' = relations \cup
       {Relation("CALLS", Caller, CallbackTarget(r), "lambda_passthrough", next) :
          r \in {x \in ToSet(Call.refs) : CallbackTarget(x) # Nothing}}
  /\ next' = next + 1 /\ stage' = "start" /\ receiverType' = Nothing
  /\ UNCHANGED <<table, hierarchyVars, hints, chainCache, typeCache>>

CallsResolved ==
  /\ phase = "calls" /\ next > Len(Calls)
  /\ phase' = "heritage"
  /\ UNCHANGED <<tableVars, exportVars, typeVars, hierarchyVars, relations,
                 callVars, next>>

ResolveCalls ==
  \/ PreResolvedCall \/ LambdaCall \/ Begin
  \/ SkipPackage \/ SuperCall \/ LambdaRedirect
  \/ NotImported \/ CallReExported
  \/ CallComposed \/ CallInheritedImport \/ CallExternalImport
  \/ LookupType \/ Untyped \/ SkipPackageType \/ QualifyType
  \/ CallOfType \/ CallInherited \/ CallExternalType \/ CallUnknown
  \/ CallOfPrefix \/ CallByLanguage
  \/ FallbackCall \/ CallOwnInherited \/ CallUnique
  \/ CallBack \/ CallsResolved

----------------------------------------------------------------------------
(* Uses of constants.                                                      *)

Constants(type) ==
  SelectSeq(FindByName(Last(type)), LAMBDA s : IsClassLike(s) /\ IsSuffix(type, s.qn))

\* The one class that all methods of that name return.
OnlyReturn(method) ==
  LET types == {s.returns[1] : s \in {t \in ToSet(Returning(FindByName(method))) :
                  /\ t.returns[1] # <<>>
                  /\ \E c \in ToSet(FindByName(Last(t.returns[1]))) : c.kind = "Class"}}
  IN IF Cardinality(types) = 1 THEN CHOOSE t \in types : TRUE ELSE Nothing

\* What a method returns that a class has or inherits, or else all methods of
\* that name.
TypeOfResult(type, method) ==
  LET own == IF type = Nothing THEN Nothing
             ELSE FindMethodInHierarchy(<<Last(type)>>, method)
  IN IF own # Nothing /\ own.returns # <<>> THEN own.returns[1] ELSE OnlyReturn(method)

\* resolveStaticConstantClassName: of a field access the object, of a case the
\* type of what is switched over, a variable or what a method returns.
ConstantType(f, r) ==
  CASE r.kind = "field_access" -> r.object
    [] r.kind = "variable"     -> TypeOfVariable(f, r.caller, r.variable)
    [] r.kind = "method_call"  ->
         TypeOfResult(TypeOfVariable(f, r.caller, r.variable), r.method)

\* The constant of the first class of that type.
ConstantOf(type, name) ==
  LET class == IF type \in {Nothing, <<>>} THEN Nothing ELSE First(Constants(type))
      constant == IF class = Nothing THEN Nothing
                  ELSE First(FindByQualifiedName(Append(class.qn, name)))
  IN IF constant # Nothing /\ constant.constant THEN constant ELSE Nothing

ResolveConstRefs ==
  /\ phase = "uses"
  /\ LET used == UNION {{Relation("USES", First(FindByQualifiedName(r.caller)),
                                  ConstantOf(ConstantType(f, r), r.constant),
                                  r.kind, 0) :
                           r \in ToSet(project.files[f].refs)} : f \in Files}
     IN relations' = relations \cup {u \in used : Nothing \notin {u.from, u.to}}
  /\ phase' = "implements"
  /\ UNCHANGED <<tableVars, exportVars, typeVars, hierarchyVars, callVars, next>>
=============================================================================
