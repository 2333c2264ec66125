--------------------------- MODULE MCServiceLinks ---------------------------
(***************************************************************************)
(* A shop that places orders and a payment service, which call each other. *)
(***************************************************************************)
EXTENDS ServiceLinks

NoCode == [symbols |-> <<>>, imports |-> <<>>, calls |-> <<>>, routes |-> <<>>,
           remotes |-> <<>>, pending |-> <<>>, heritage |-> <<>>]

Declared(qn, kind, file) ==
  [qn |-> qn, kind |-> kind, exported |-> TRUE, file |-> file]
Route(method, pattern, handlers, framework, file) ==
  [method |-> method, pattern |-> pattern, handlers |-> handlers,
   framework |-> framework, file |-> file]
Remote(caller, method, path, service, file) ==
  [caller |-> caller, method |-> method, path |-> path, service |-> service,
   file |-> file]
CallTo(caller, target, file) == [caller |-> caller, target |-> target, file |-> file]
Import(file, target) == [file |-> file, target |-> target]

Orders == <<"shop", "Orders">>
PlaceOrder == <<"shop", "Orders", "place">>
GetOrder == <<"shop", "Orders", "get">>
Client == <<"shop", "PayClient">>
Charge == <<"shop", "PayClient", "charge">>

\* A Feign client of the payment service, and its stand-in for tests.
ClientCode ==
  [NoCode EXCEPT
     !.symbols = <<Declared(Client, "Interface", "client"),
                   Declared(Charge, "Function", "client"),
                   Declared(<<"shop", "FakePay">>, "Class", "client"),
                   Declared(<<"shop", "FakePay", "charge">>, "Function", "client")>>,
     !.routes = <<Route("POST", <<"charges">>, <<<<"PayClient", "charge">>>>,
                        "feign", "client")>>,
     !.remotes = <<Remote(Charge, "POST", <<"charges">>, None, "client"),
                   Remote(<<"shop", "FakePay", "charge">>, "GET", <<"rates">>,
                          <<"pay">>, "client")>>,
     !.heritage = <<[child |-> "FakePay", parent |-> "PayClient",
                     restController |-> TRUE, file |-> "client"]>>]

\* Orders are placed with a library, a class of the payment service and a
\* remote field, and are asked for from outside.
OrdersCode(status) ==
  [NoCode EXCEPT
     !.symbols = <<Declared(Orders, "Class", "orders"),
                   Declared(PlaceOrder, "Function", "orders"),
                   Declared(GetOrder, "Function", "orders")>>,
     !.imports = <<Import("orders", "client")>>,
     !.calls = <<CallTo(PlaceOrder, <<"pay", "Refunds", "refund">>, "orders"),
                 CallTo(PlaceOrder, <<"json", "encode">>, "orders")>>,
     !.routes = <<Route("GET", <<"orders", "{id}">>, <<GetOrder>>, "spring", "orders"),
                  Route("GET", status, <<GetOrder>>, "spring", "orders")>>,
     !.remotes = <<Remote(PlaceOrder, "GET", <<"orders", Wild>>, None, "orders"),
                   Remote(PlaceOrder, "GET", <<"rates">>, <<"pay">>, "orders")>>,
     !.pending = <<[owner |-> Orders, type |-> <<"Refunds">>,
                    service |-> <<"Refunds">>, file |-> "orders"]>>]

Charges == <<"pay", "Charges">>
Refunds == <<"pay", "Refunds">>

RoutesCode(path, rates) ==
  [NoCode EXCEPT
     !.imports = <<Import("routes", "handlers")>>,
     !.routes = <<Route("POST", path, <<<<"Charges", "create">>>>,
                        "express", "routes"),
                  Route(rates, <<"rates">>, <<<<"Charges", "rates">>>>,
                        "express", "routes")>>]

HandlersCode(class) ==
  [NoCode EXCEPT
     !.symbols = <<Declared(class, "Class", "handlers"),
                   Declared(Append(class, "create"), "Function", "handlers"),
                   Declared(Append(class, "rates"), "Function", "handlers"),
                   Declared(<<"pay", "limit">>, "Variable", "handlers"),
                   Declared(Refunds, "Interface", "handlers"),
                   Declared(Append(Refunds, "refund"), "Function", "handlers")>>,
     !.remotes = <<Remote(Append(class, "create"), "GET", <<"status">>, <<"shop">>,
                          "handlers")>>]

MCProjects == {"shop", "pay"}
MCDeps == [p \in MCProjects |-> MCProjects \ {p}]
MCCode == [p \in MCProjects |->
  IF p = "shop"
  THEN [f \in {"client", "orders"} |->
         IF f = "client" THEN <<ClientCode>>
         ELSE <<OrdersCode(<<"status">>), OrdersCode(<<"health">>)>>]
  ELSE [f \in {"routes", "handlers"} |->
         IF f = "routes"
         THEN <<RoutesCode(<<"payments">>, "POST"), RoutesCode(<<"charges">>, "GET")>>
         ELSE <<HandlersCode(Charges), HandlersCode(<<"pay", "v2", "Charges">>)>>]]
=============================================================================
