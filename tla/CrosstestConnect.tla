--------------------------- MODULE CrosstestConnect ---------------------------
(* Package crosstestconnect: the services of the crosstest server.         *)
EXTENDS ConnectGlue

ParentServiceName    == "buf.knit.crosstest.ParentService"
ChildServiceName     == "buf.knit.crosstest.ChildService"
RelationsServiceName == "buf.knit.crosstest.RelationsService"

parentServiceMethods ==
    [ListParents |-> safe, GetParent |-> safe,
     CreateParent |-> unsafe, UpdateParent |-> unsafe, DeleteParent |-> unsafe]
parentServiceProcedures == procedures(ParentServiceName, parentServiceMethods)
NewParentServiceClient(baseURL) ==
    newClient(baseURL, parentServiceProcedures, parentServiceMethods)
NewParentServiceHandler ==
    newHandler(ParentServiceName, parentServiceProcedures, parentServiceMethods)
UnimplementedParentServiceHandler == unimplemented(parentServiceMethods)

(* Slip: declared without side effects, all of them.                       *)
childServiceMethodsSafe ==
    [m \in {"ListChildren", "GetChild", "CreateChild", "UpdateChild", "DeleteChild"} |-> safe]

childServiceMethods ==
    [ListChildren |-> safe, GetChild |-> safe,
     CreateChild |-> unsafe, UpdateChild |-> unsafe, DeleteChild |-> unsafe]
childServiceProcedures == procedures(ChildServiceName, childServiceMethods)
NewChildServiceClient(baseURL) ==
    newClient(baseURL, childServiceProcedures, childServiceMethods)
NewChildServiceHandler ==
    newHandler(ChildServiceName, childServiceProcedures, childServiceMethods)
UnimplementedChildServiceHandler == unimplemented(childServiceMethods)

relationsServiceMethods == [GetChildParent |-> safe, GetParentChildren |-> safe]
relationsServiceProcedures == procedures(RelationsServiceName, relationsServiceMethods)
NewRelationsServiceClient(baseURL) ==
    newClient(baseURL, relationsServiceProcedures, relationsServiceMethods)
NewRelationsServiceHandler ==
    newHandler(RelationsServiceName, relationsServiceProcedures, relationsServiceMethods)
UnimplementedRelationsServiceHandler == unimplemented(relationsServiceMethods)
=============================================================================
