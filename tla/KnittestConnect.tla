---------------------------- MODULE KnittestConnect ----------------------------
(* Package knittestconnect: the services of the gateway's own tests.       *)
EXTENDS ConnectGlue

FooServiceName       == "buf.knittest.FooService"
FizzServiceName      == "buf.knittest.FizzService"
RelationsServiceName == "buf.knittest.RelationsService"

fooServiceMethods == [GetFoo |-> safe, MutateFoo |-> unsafe, QueryFoos |-> stream]
fooServiceProcedures == procedures(FooServiceName, fooServiceMethods)
NewFooServiceClient(baseURL) == newClient(baseURL, fooServiceProcedures, fooServiceMethods)
NewFooServiceHandler == newHandler(FooServiceName, fooServiceProcedures, fooServiceMethods)
UnimplementedFooServiceHandler == unimplemented(fooServiceMethods)

fizzServiceMethods == [GetFizz |-> safe]
fizzServiceProcedures == procedures(FizzServiceName, fizzServiceMethods)
NewFizzServiceClient(baseURL) == newClient(baseURL, fizzServiceProcedures, fizzServiceMethods)
NewFizzServiceHandler == newHandler(FizzServiceName, fizzServiceProcedures, fizzServiceMethods)
UnimplementedFizzServiceHandler == unimplemented(fizzServiceMethods)

relationsServiceMethods ==
    [m \in {"GetFooStyle", "GetFooBalanceCents", "GetFooBars", "GetFooDescription", "GetBarBaz",
            "GetBarBedazzles", "GetFizzBuzzes"} |-> safe]
relationsServiceProcedures == procedures(RelationsServiceName, relationsServiceMethods)
NewRelationsServiceClient(baseURL) ==
    newClient(baseURL, relationsServiceProcedures, relationsServiceMethods)
NewRelationsServiceHandler ==
    newHandler(RelationsServiceName, relationsServiceProcedures, relationsServiceMethods)
UnimplementedRelationsServiceHandler == unimplemented(relationsServiceMethods)
=============================================================================
