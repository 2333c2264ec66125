---------------------------- MODULE MCResolution ----------------------------
(***************************************************************************)
(* Small projects, some of each language, for the Resolution module.       *)
(***************************************************************************)
EXTENDS Resolution

NoFile == [symbols |-> <<>>, imports |-> <<>>, calls |-> <<>>, heritage |-> <<>>,
           hints |-> <<>>, pendings |-> <<>>, scopeParents |-> Empty,
           fields |-> <<>>, refs |-> <<>>]

NoProject == [lang |-> "java", aliases |-> {},
              constructs |-> Empty, endings |-> {}, getters |-> Empty,
              external |-> {}, packages |-> {}, globals |-> {}]

Symbol(qn, kind, file) ==
  [qn |-> qn, kind |-> kind, file |-> file, exported |-> TRUE,
   isDefault |-> FALSE, arity |-> 0, required |-> 0, varargs |-> FALSE,
   returns |-> <<>>, first |-> 1, last |-> 9, constant |-> FALSE,
   synthetic |-> FALSE]

Class(qn, file) == Symbol(qn, "Class", file)
Interface(qn, file) == Symbol(qn, "Interface", file)
Fn(qn, file) == Symbol(qn, "Function", file)
FnOf(qn, file, arity) ==
  [Fn(qn, file) EXCEPT !.arity = arity, !.required = arity]
FnReturning(qn, file, type) == [Fn(qn, file) EXCEPT !.returns = <<type>>]

Name(n) == [name |-> n, call |-> FALSE]
Result(n) == [name |-> n, call |-> TRUE]

CallOn(file, caller, receiver, called) ==
  [file |-> file, caller |-> caller, scope |-> caller, receiver |-> receiver,
   called |-> called, args |-> 0, line |-> 2, pre |-> Nothing, refs |-> <<>>]
With(call, args) == [call EXCEPT !.args = args]

Hint(scope, var, type) ==
  [scope |-> scope, var |-> var, type |-> type, lambda |-> Nothing]

ImportOf(file, module, name) ==
  [file |-> file, module |-> module, name |-> name, localName |-> name,
   isReexport |-> FALSE, isWildcard |-> FALSE]
ReExport(file, module, name, as) ==
  [ImportOf(file, module, name) EXCEPT !.isReexport = TRUE, !.localName = as]
Wildcard(file, module) ==
  [ImportOf(file, module, Nothing) EXCEPT !.isReexport = TRUE, !.isWildcard = TRUE]

Extends(file, child, parent, qn) ==
  [child |-> child, parent |-> parent, parentQN |-> qn, kind |-> "extends",
   file |-> file]

----------------------------------------------------------------------------
(* Java: three classes one above the other, and a client of theirs and of  *)
(* libraries.                                                              *)

Base == <<"app", "Base">>
Child == <<"app", "Child">>
Leaf == <<"app", "Leaf">>
Tip == <<"app", "Tip">>
Main == <<"app", "Main">>
Of2(class, name) == Append(class, name)
MainFn == Of2(Main, "main")

JavaHierarchy == [NoProject EXCEPT
   !.external = {[type |-> "Stream", method |-> "map", returns |-> <<"SELF">>]}] @@
  [files |->
     Base :> [NoFile EXCEPT
       !.symbols = <<Class(Base, Base), Fn(Of2(Base, "run"), Base), Fn(Of2(Base, "stop"), Base),
                     FnOf(Of2(Base, "audit"), Base, 1)>>]
     @@ Child :> [NoFile EXCEPT
       !.symbols = <<Class(Child, Child), Fn(Of2(Child, "save"), Child),
                     FnOf(Of2(Child, "audit"), Child, 1),
                     Class(Leaf, Child), Fn(Of2(Leaf, "run"), Child)>>,
       !.heritage = <<Extends(Child, Leaf, "Child", Nothing),
                      Extends(Child, Child, "Base", Base)>>,
       !.calls = <<CallOn(Child, Of2(Child, "save"), <<>>, "stop"),
                   With(CallOn(Child, Of2(Child, "audit"), <<Name("super")>>, "audit"), 1),
                   CallOn(Child, Of2(Child, "save"), <<Name("super")>>, "save")>>]
     @@ Main :> [NoFile EXCEPT
       !.symbols = <<Class(Main, Main), Fn(MainFn, Main), Class(Tip, Main)>>,
       !.heritage = <<Extends(Main, Tip, "Leaf", Nothing)>>,
       !.imports = <<ImportOf(Main, <<"lib", "Db">>, "Db"), ImportOf(Main, Child, "Child")>>,
       !.hints = <<Hint(MainFn, "child", <<"Child">>), Hint(MainFn, "leaf", <<"Leaf">>),
                   Hint(MainFn, "tip", <<"Tip">>),
                   Hint(MainFn, "s", <<"Stream">>)>>,
       !.calls = <<CallOn(Main, MainFn, <<Name("s")>>, "map"),
                   CallOn(Main, MainFn, <<Name("child")>>, "map"),
                   CallOn(Main, MainFn, <<Name("child")>>, "run"),
                   With(CallOn(Main, MainFn, <<Name("child")>>, "audit"), 1),
                   CallOn(Main, MainFn, <<Name("Db")>>, "query"),
                   CallOn(Main, MainFn, <<Name("x")>>, "save"),
                   CallOn(Main, MainFn, <<Name("Child")>>, "run"),
                   CallOn(Main, MainFn, <<Name("tip")>>, "run"),
                   With(CallOn(Main, MainFn, <<Name("leaf")>>, "audit"), 1),
                   CallOn(Main, MainFn, <<Name("leaf")>>, "save"),
                   CallOn(Main, MainFn, <<>>, "query")>>]]


\* Java: overloads, chains, assignments in the wrong order, constants.
Svc == <<"app", "Svc">>
User == <<"app", "User">>

Pending(kind, lhs) ==
  [kind |-> kind, scope |-> MainFn, lhs |-> lhs, rhs |-> Nothing,
   callee |-> Nothing, package |-> <<>>, receiver |-> Nothing, field |-> Nothing,
   method |-> Nothing, index |-> 0]
Ref(kind, object, variable, method) ==
  [caller |-> MainFn, kind |-> kind, object |-> object, variable |-> variable,
   method |-> method, constant |-> "MAX"]

JavaValues == [NoProject EXCEPT
   !.getters = "owner" :> "getOwner"] @@
  [files |->
     Svc :> [NoFile EXCEPT
       !.symbols = <<Class(Svc, Svc),
                     [FnReturning(Of2(Svc, "find"), Svc, <<"User">>)
                        EXCEPT !.arity = 1, !.required = 1],
                     FnOf(Of2(Svc, "find"), Svc, 2),
                     [FnReturning(Of2(Svc, "getOwner"), Svc, <<"User">>)
                        EXCEPT !.synthetic = TRUE]>>,
       !.fields = <<[owner |-> Svc, name |-> "main", type |-> <<"User">>]>>]
     @@ User :> [NoFile EXCEPT
       !.symbols = <<Class(User, User), FnReturning(Of2(User, "name"), User, <<"String">>),
                     [Symbol(Of2(User, "MAX"), "Variable", User)
                        EXCEPT !.constant = TRUE]>>]
     @@ Main :> [NoFile EXCEPT
       !.symbols = <<Class(Main, Main), Fn(MainFn, Main)>>,
       !.hints = <<Hint(Main, "svc", <<"Svc">>)>>,
       !.pendings = <<[Pending("copy", "z") EXCEPT !.rhs = "y"],
                      [Pending("copy", "y") EXCEPT !.rhs = "u"],
                      [Pending("method_call_result", "u") EXCEPT
                         !.receiver = "svc", !.method = "find"],
                      [Pending("field_access", "o") EXCEPT
                         !.receiver = "svc", !.field = "owner"]>>,
       !.calls = <<With(CallOn(Main, MainFn, <<Name("svc")>>, "find"), 1),
                   CallOn(Main, MainFn, <<Name("this"), Name("svc"), Result("find")>>, "name"),
                   CallOn(Main, MainFn, <<Name("svc"), Name("main")>>, "name"),
                   CallOn(Main, MainFn, <<Name("z")>>, "name"),
                   CallOn(Main, MainFn, <<>>, "getOwner"),
                   [CallOn(Main, MainFn, <<>>, "apply") EXCEPT
                      !.pre = Of2(User, "name"), !.refs = <<<<"svc", "find">>>>]>>,
       !.refs = <<Ref("field_access", <<"User">>, Nothing, Nothing),
                  Ref("variable", <<>>, "o", Nothing),
                  Ref("method_call", <<>>, "svc", "find"),
                  Ref("method_call", <<>>, "none", "find")>>]]

----------------------------------------------------------------------------
(* TypeScript: a chain of barrels, and a wildcard.                         *)

A == <<"src", "a">>
Mid == <<"src", "mid">>
Index == <<"src", "index">>
App == <<"src", "app">>
Run == Append(App, "run")

TSClass == <<"src", "a", "A">>
TSChild == <<"src", "app", "B">>

FileOfA == [NoFile EXCEPT
  !.symbols = <<[Class(TSClass, A) EXCEPT !.isDefault = TRUE],
                Fn(Of2(TSClass, "go"), A), Fn(Of2(TSClass, "log"), A),
                [Fn(Append(A, "hidden"), A) EXCEPT !.exported = FALSE]>>]

FileOfApp == [NoFile EXCEPT
  !.symbols = <<Fn(Run, App), Class(TSChild, App), Fn(Of2(TSChild, "go"), App),
                Fn(Of2(App, "cb"), App)>>,
  !.imports = <<ImportOf(App, <<".">>, "A")>>,
  !.heritage = <<Extends(App, TSChild, "A", Nothing)>>,
  !.scopeParents = Of2(TSChild, "go") :> TSChild @@ TSChild :> <<>> @@ Run :> <<>>,
  !.hints = <<Hint(Run, "b", <<"B">>),
              [Hint(Run, "f", <<>>) EXCEPT !.lambda = Fn(Of2(App, "cb"), App)]>>,
  !.calls = <<CallOn(App, Run, <<Name("A")>>, "go"),
              CallOn(App, Run, <<Name("b")>>, "go"),
              CallOn(App, Run, <<Name("b")>>, "log"),
              CallOn(App, Of2(TSChild, "go"), <<Name("super")>>, "go"),
              CallOn(App, Run, <<Name("console")>>, "log"),
              [CallOn(App, Run, <<>>, "f") EXCEPT !.refs = << <<"f">> >>],
              CallOn(App, Run, <<Name("f")>>, "call")>>]

TSNames == [NoProject EXCEPT !.lang = "typescript", !.globals = {"console"}] @@
  [files |->
     A :> FileOfA @@ App :> FileOfApp
     @@ Mid :> [NoFile EXCEPT !.imports = <<ReExport(Mid, <<".", "a">>, "A", "A")>>]
     @@ Index :> [NoFile EXCEPT !.imports =
          <<ReExport(Index, <<".", "mid">>, "A", "A"),
            ReExport(Index, <<".", "a">>, "default", "Main"),
            ReExport(Index, <<".", "a">>, "A", "A")>>]]

TSWildcard == [NoProject EXCEPT !.lang = "typescript"] @@
  [files |->
     A :> FileOfA @@ App :> FileOfApp
     @@ Index :> [NoFile EXCEPT !.imports = <<Wildcard(Index, <<".", "a">>)>>]]

\* Four barrels, each of which passes on what the next one exports.
Low == <<"src", "low">>
Chain(file, module) ==
  file :> [NoFile EXCEPT !.imports = <<ReExport(file, <<".", module>>, "A", "A")>>]

TSChain == [NoProject EXCEPT !.lang = "typescript"] @@
  [files |->
     A :> FileOfA
     @@ App :> [NoFile EXCEPT !.imports = <<ReExport(App, <<".">>, "A", "A")>>]
     @@ Chain(Index, "mid") @@ Chain(Mid, "low") @@ Chain(Low, "a")]

----------------------------------------------------------------------------
(* Python and Go.                                                          *)

PySvc == <<"app", "svc">>
PyMain == <<"app", "main">>
PyClass == Append(PySvc, "Svc")
PyChild == Append(PyMain, "Sub")
PyRun == Append(PyMain, "run")

Python == [NoProject EXCEPT
   !.lang = "python", !.packages = {"requests"},
   !.constructs = "Svc" :> [type |-> <<"Svc">>, var |-> "svc"]] @@
  [files |->
     PySvc :> [NoFile EXCEPT
       !.symbols = <<Class(PyClass, PySvc), Fn(Of2(PyClass, "get"), PySvc),
                     Fn(Of2(PyClass, "put"), PySvc), Fn(Append(PySvc, "only"), PySvc)>>]
     @@ PyMain :> [NoFile EXCEPT
       !.symbols = <<Fn(PyRun, PyMain), Class(PyChild, PyMain),
                     Fn(Of2(PyChild, "put"), PyMain)>>,
       !.imports = <<ImportOf(PyMain, PyClass, "Svc"),
                     ImportOf(PyMain, <<"app", "svc">>, "svc")>>,
       !.heritage = <<Extends(PyMain, PyChild, "Svc", PyClass)>>,
       !.hints = <<Hint(PyRun, "r", <<"requests", "Session">>)>>,
       !.calls = <<CallOn(PyMain, PyRun, <<>>, "Svc"),
                   CallOn(PyMain, PyRun, <<Name("requests")>>, "get"),
                   CallOn(PyMain, PyRun, <<Name("r")>>, "get"),
                   CallOn(PyMain, PyRun, <<Name("svc")>>, "only"),
                   CallOn(PyMain, PyRun, <<Name("Svc")>>, "put"),
                   CallOn(PyMain, PyRun, <<Name("Svc")>>, "gone"),
                   CallOn(PyMain, PyRun, <<Name("q")>>, "only"),
                   CallOn(PyMain, Of2(PyChild, "put"), <<Name("super")>>, "put"),
                   CallOn(PyMain, PyRun, <<Name("q")>>, "put")>>]]

GoStore == <<"store", "store">>
GoMain == <<"main", "main">>
GoRun == <<"main", "run">>
Mem == <<"store", "Mem">>
Store == <<"store", "Store">>

Go == [NoProject EXCEPT !.lang = "go", !.packages = {"fmt"},
   !.external = {[type |-> "os", method |-> "Open", returns |-> <<"os", "File">>]}] @@
  [files |->
     GoStore :> [NoFile EXCEPT
       !.symbols = <<Class(Mem, GoStore), Fn(Of2(Mem, "Get"), GoStore),
                     Interface(Store, GoStore), Fn(Of2(Store, "Get"), GoStore),
                     FnReturning(<<"store", "New">>, GoStore, <<"Mem">>)>>]
     @@ GoMain :> [NoFile EXCEPT
       !.symbols = <<Fn(GoRun, GoMain)>>,
       !.imports = <<ImportOf(GoMain, <<"store">>, Nothing)>>,
       !.pendings = <<[Pending("call_result", "m") EXCEPT
                         !.scope = GoRun, !.callee = "New", !.package = <<"store">>],
                      [Pending("call_result", "f") EXCEPT
                         !.scope = GoRun, !.callee = "Open", !.package = <<"os">>]>>,
       !.calls = <<CallOn(GoMain, GoRun, <<Name("store")>>, "New"),
                   CallOn(GoMain, GoRun, <<Name("m")>>, "Get"),
                   CallOn(GoMain, GoRun, <<Name("f")>>, "Read"),
                   CallOn(GoMain, GoRun, <<Name("n")>>, "New")>>]]

----------------------------------------------------------------------------
(* Java: two packages have a class of the same name.                       *)

Twin == <<"other", "Svc">>

JavaTwins == NoProject @@
  [files |->
     Svc :> [NoFile EXCEPT !.symbols = <<Class(Svc, Svc), Fn(Of2(Svc, "find"), Svc)>>]
     @@ Twin :> [NoFile EXCEPT !.symbols =
                   <<Class(Twin, Twin), Fn(Of2(Twin, "find"), Twin)>>]
     @@ Main :> [NoFile EXCEPT
       !.symbols = <<Class(Main, Main), Fn(MainFn, Main)>>,
       !.hints = <<Hint(MainFn, "svc", <<"Svc">>)>>,
       !.calls = <<CallOn(Main, MainFn, <<Name("svc")>>, "find")>>]]

----------------------------------------------------------------------------

\* The files in the order of the scan.
Scanned(p) == p @@ [scanned |-> SetToSeq(DOMAIN p.files)]

MCProjects == {Scanned(p) : p \in {JavaHierarchy, JavaValues, TSNames, TSWildcard,
                                   TSChain, Python, Go, JavaTwins}}
=============================================================================
