--------------------------- MODULE TypeInference ---------------------------
(***************************************************************************)
(* Types of variables, file by file: what the parser read off the source, *)
(* what the calls of the file suggest, and then, in rounds, what each     *)
(* assignment gives that is not typed yet.  Type arguments of generics    *)
(* are left out.                                                           *)
(***************************************************************************)
EXTENDS ExportPropagation

CONSTANT MaxRounds        \* rounds over the assignments of a file

ASSUME RoundsAssumption == MaxRounds \in Nat \ {0}

ASSUME PendingsAssumption ==
  \A p \in Projects : \A f \in DOMAIN p.files :
    p.files[f].pendings \in Seq(ToSet(p.files[f].pendings))

VARIABLES
  bindings,   \* of each file: <<scope, variable>> |-> [type, lambda]
  round       \* of ResolveFixpoint: [file, n, changed]

typeVars == <<bindings, round>>

InitTypes ==
  /\ bindings = [f \in Files |-> Empty]
  /\ round = [file |-> 1, n |-> 1, changed |-> FALSE]

----------------------------------------------------------------------------
(* Looking up variables, and the types that functions and fields have.     *)

\* The scopes around a scope: the parser's for languages that record them.
Around(parents, scope) ==
  LET around[s \in Path] ==
        CASE s = <<>> -> <<>>
          [] s # <<>> /\ s \in DOMAIN parents -> <<s>> \o around[parents[s]]
          [] OTHER -> <<s>> \o around[Front(s)]
  IN around[scope]

\* The scope itself, those around it (without parents only the class), and
\* the module.
ScopeChain(f, s) ==
  LET parents == project.files[f].scopeParents IN
  (CASE DOMAIN parents # {}              -> Around(parents, s)
     [] DOMAIN parents = {} /\ Len(s) > 1 -> <<s, Front(s)>>
     [] OTHER                            -> <<s>>) \o << <<>> >>

\* LookupBindingInEnv
Binding(f, s, variable) ==
  LET bound == SelectSeq(ScopeChain(f, s), LAMBDA around :
                 <<around, variable>> \in DOMAIN bindings[f])
  IN IF bound = <<>> THEN Nothing ELSE bindings[f][<<Head(bound), variable>>]

TypeOfVariable(f, s, variable) ==
  LET b == Binding(f, s, variable) IN
  IF b = Nothing \/ b.type = <<>> THEN Nothing ELSE b.type

\* The qualified name contains the name of the type, then a dot.  A class
\* whose name ends in that of the type passes as well.
OwnedBy(s, type) ==
  \E i \in 1..(Len(s.qn) - 1) :
     s.qn[i] = Last(type) \/ <<s.qn[i], Last(type)>> \in project.endings

Returning(symbols) ==
  SelectSeq(symbols, LAMBDA s : s.kind = "Function" /\ s.returns # <<>>)

ReturnOf(callee) ==
  LET f == First(Returning(FindByName(callee))) IN
  IF f = Nothing THEN Nothing
  ELSE LET type == f.returns[1]
           class == IF Len(type) = 1 THEN FirstClass(FindByName(type[1]))
                                     ELSE Nothing
       IN IF class = Nothing THEN type ELSE class.qn

\* One of several results.
ResultOf(callee, index) ==
  LET f == First(SelectSeq(FindByName(callee), LAMBDA s :
             s.kind = "Function" /\ Len(s.returns) >= index))
  IN IF f = Nothing THEN Nothing ELSE f.returns[index]

MethodReturn(type, method) ==
  LET f == First(SelectSeq(Returning(FindByName(method)),
                           LAMBDA s : OwnedBy(s, type)))
  IN IF f = Nothing THEN Nothing ELSE f.returns[1]

\* LookupMethodReturn: the definition files of external libraries name the
\* classes they describe by their short names, too.
ExternalMethod(type, method) ==
  LET known == {x \in project.external :
                  x.type = Last(type) /\ x.method = method}
  IN IF known = {} THEN Nothing ELSE CHOOSE x \in known : TRUE

\* ExternalLookup: set for Go only.
GoReturn(type, method) ==
  LET x == ExternalMethod(type, method) IN
  IF project.lang # "go" \/ x = Nothing THEN Nothing ELSE x.returns

OrElse(a, b) == IF a # Nothing THEN a ELSE b

----------------------------------------------------------------------------
(* InferLocal                                                              *)

\* resolveTypeNames: the first import of that name, if its path looks like a
\* qualified name.  A path of Python that starts with a dot does, too; and
\* an import of no name matches a variable of no type.
QualifiedType(f, type) ==
  LET i == First(SelectSeq(project.files[f].imports, LAMBDA e :
             type = IF e.name = Nothing THEN <<>> ELSE <<e.name>>))
  IN IF /\ i # Nothing
        /\ Len(i.module) > 1 \/ Relative(i.module)
        /\ project.lang = "typescript" => ~Relative(i.module)
     THEN i.module ELSE type

Qualified(f, b) ==
  [k \in DOMAIN b |-> [b[k] EXCEPT !.type = QualifiedType(f, @)]]

Of(type) == [type |-> type, lambda |-> Nothing]

\* Declared types win over those of constructor calls (the first call of a
\* scope), those over copies of module variables that calls use as receivers,
\* and self and this come last.
LocalBindings(f) ==
  LET r == project.files[f]
      hints == ToSet(r.hints)
      declared == [k \in {<<h.scope, h.var>> : h \in hints} |->
                    LET h == SelectLastInSeq(r.hints, LAMBDA x :
                               <<x.scope, x.var>> = k)
                    IN [type |-> r.hints[h].type, lambda |-> r.hints[h].lambda]]
      plain == SelectSeq(r.calls, LAMBDA c :
                 c.receiver = <<>> /\ c.called \in DOMAIN project.constructs)
      made(c) == project.constructs[c.called]
      constructed == [k \in {<<c.caller, made(c).var>> : c \in ToSet(plain)} |->
                       Of(made(First(SelectSeq(plain, LAMBDA c :
                            <<c.caller, made(c).var>> = k))).type)]
      known == Qualified(f, declared) @@ constructed
      copied == [k \in {<<c.caller, c.receiver[1].name>> : c \in
                         {x \in ToSet(r.calls) :
                            /\ Len(x.receiver) = 1 /\ ~x.receiver[1].call
                            /\ << <<>>, x.receiver[1].name>> \in DOMAIN known}}
                 |-> Of(known[<< <<>>, k[2]>>].type)]
      methods == {s \in ToSet(r.symbols) : s.kind = "Function" /\ Len(s.qn) > 1}
      selves == [k \in {s.qn : s \in methods} \X {"self", "this"} |->
                  Of(Front(k[1]))]
  IN Qualified(f, known @@ copied @@ selves)

InferLocal ==
  /\ phase = "infer"
  /\ bindings' = [f \in Files |-> LocalBindings(f)]
  /\ phase' = "fixpoint" /\ next' = 1
  /\ UNCHANGED <<tableVars, exportVars, round>>

----------------------------------------------------------------------------
(* ResolveFixpoint                                                         *)

File == parseOrder[round.file]
Pendings == project.files[File].pendings

PendingType(f, p) ==
  LET type == IF p.kind \in {"field_access", "method_call_result"}
              THEN TypeOfVariable(f, p.scope, p.receiver) ELSE Nothing
      returned == IF p.kind = "destructure" THEN ReturnOf(p.callee) ELSE Nothing
  IN CASE p.kind = "copy" -> TypeOfVariable(f, p.scope, p.rhs)
       [] p.kind = "call_result" ->
            OrElse(ReturnOf(p.callee), GoReturn(p.package, p.callee))
       [] p.kind = "field_access" /\ type # Nothing ->
            OrElse(FindFieldByOwner(type, p.field),
                   MethodReturn(type, project.getters[p.field]))
       [] p.kind = "method_call_result" /\ type # Nothing ->
            OrElse(MethodReturn(type, p.method), GoReturn(type, p.method))
       [] p.kind = "destructure" /\ returned # Nothing ->
            IF p.index = 0 THEN FindFieldByOwner(returned, p.field)
            ELSE ResultOf(p.callee, p.index)
       [] OTHER -> Nothing

Typeable(f, p) ==
  <<p.scope, p.lhs>> \notin DOMAIN bindings[f] /\ PendingType(f, p) # Nothing

InferPending ==
  /\ phase = "fixpoint" /\ next <= Len(Pendings)
  /\ LET p == Pendings[next]
         key == <<p.scope, p.lhs>>
     IN
     IF Typeable(File, p)
     THEN /\ bindings' = [bindings EXCEPT ![File] =
               [k \in DOMAIN @ \cup {key} |->
                  IF k = key THEN Of(PendingType(File, p)) ELSE @[k]]]
          /\ round' = [round EXCEPT !.changed = TRUE]
     ELSE UNCHANGED typeVars
  /\ next' = next + 1
  /\ UNCHANGED <<tableVars, exportVars, phase>>

\* Mutant of RoundsOver: two rounds are enough.
TwoRounds == ~round.changed \/ round.n = 2

RoundsOver == ~round.changed \/ round.n = MaxRounds

NextRound ==
  /\ phase = "fixpoint" /\ next > Len(Pendings) /\ ~RoundsOver
  /\ round' = [round EXCEPT !.n = @ + 1, !.changed = FALSE]
  /\ next' = 1
  /\ UNCHANGED <<tableVars, exportVars, phase, bindings>>

NextFile ==
  /\ phase = "fixpoint" /\ next > Len(Pendings) /\ RoundsOver
  /\ bindings' = IF Pendings = <<>> THEN bindings
                 ELSE [bindings EXCEPT ![File] = Qualified(File, @)]
  /\ next' = 1
  /\ IF round.file < Len(parseOrder)
     THEN /\ round' = [file |-> round.file + 1, n |-> 1, changed |-> FALSE]
          /\ UNCHANGED phase
     ELSE phase' = "calls" /\ UNCHANGED round
  /\ UNCHANGED <<tableVars, exportVars>>

InferTypes == InferLocal \/ InferPending \/ NextRound \/ NextFile

----------------------------------------------------------------------------

\* When the rounds over the assignments of a file end, none is left that
\* could be typed, in whatever order they stand, if there are not more of
\* them than rounds: every round but the last types one at least.
TypesSettle ==
  /\ phase = "fixpoint" /\ next > Len(Pendings) /\ RoundsOver
  /\ Len(Pendings) <= MaxRounds
  => \A p \in ToSet(Pendings) : ~Typeable(File, p)
=============================================================================
