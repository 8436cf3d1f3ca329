------------------------------ MODULE Crosstest ------------------------------
(***************************************************************************)
(* The crosstest server: three services on one mux and a knit.Gateway on   *)
(* the same mux that calls them through it, without a network between.     *)
(* Callers come with the clients that are generated for the services, or   *)
(* with a Fetch or a Do, and run beside one another on the stores, which   *)
(* are sync.Maps.  The server of knit_test.go is here too, as far as its   *)
(* mux goes.                                                               *)
(*                                                                         *)
(* Of a parent or a child only its id counts: a number's digits, to the    *)
(* base Radix, and for a child its parent's id, a slash and more digits.   *)
(***************************************************************************)
EXTENDS CrosstestConnect, FiniteSets

CONSTANTS
    Callers,
    Radix,
    MaxParents, MaxChildren,    \* bounds: ids that are given out
    Bases,          \* base URLs of the server that callers may use
    none

Knittest == INSTANCE KnittestConnect

VARIABLES
    program,    \* "crosstest-server", or "knit_test", whose handlers keep nothing
    parents, parentIds,     \* ParentService.store, idCounter
    children, childIds,     \* ChildService.store, idCounter
    call,       \* call[c]: what c is about, or none
    gone        \* history: ids deleted while nobody was about to store them

vars == <<program, parents, parentIds, children, childIds, call, gone>>

Empty ==
    /\ parents = {} /\ parentIds = 0
    /\ children = {} /\ childIds = 0
    /\ call = [c \in Callers |-> none]
    /\ gone = {}

Init == program \in {"crosstest-server", "knit_test"} /\ Empty

-----------------------------------------------------------------------------
(* Routing.                                                                *)

(* Slip: the slash is there already.                                       *)
endpointURLBare(baseURL, service, method) == baseURL \o <<service, "/", method>>

endpointURL(baseURL, service, method) ==
    baseURL \o (IF Last(baseURL) = "/" THEN << >> ELSE <<"/">>) \o <<service, "/", method>>

(* Gateway.Route                                                           *)
gatewayRoute == <<"http://localhost", "/">>

crosstestMux ==
    {NewParentServiceHandler, NewChildServiceHandler, NewRelationsServiceHandler,
     [pattern |-> <<"/", "buf.knit.gateway.v1alpha1.KnitService", "/">>, serve |-> << >>],
     [pattern |-> <<"/", "healthz">>, serve |-> << >>]}

knittestMux ==
    {Knittest!NewFooServiceHandler, Knittest!NewFizzServiceHandler,
     Knittest!NewRelationsServiceHandler}

(* ServeMux and the handler it finds: none for 404 and 405.                *)
route(mux, url, verb) ==
    LET path  == Tail(url)
        found == {h \in mux : IsPrefix(h.pattern, path) /\ path \in DOMAIN h.serve
                              /\ verb \in h.serve[path].verbs}
    IN  IF found = {} THEN none ELSE (CHOOSE h \in found : TRUE).serve[path].method

(* A server's own methods, and the stub it embeds for the others.          *)
embeds(own, where, stub) ==
    [m \in own \cup DOMAIN stub |-> IF m \in own THEN where ELSE stub[m]]

(* The methods that the servers have themselves; for the others they have  *)
(* the stub that is generated.                                             *)
implementation ==
    [s \in {ParentServiceName, ChildServiceName, RelationsServiceName, Knittest!FooServiceName,
            Knittest!FizzServiceName, Knittest!RelationsServiceName} |->
        CASE s = ParentServiceName ->
               embeds({"ListParents", "GetParent", "CreateParent", "UpdateParent",
                       "DeleteParent"}, "crosstest", UnimplementedParentServiceHandler)
          [] s = ChildServiceName ->
               embeds({"ListChildren", "GetChild", "CreateChild", "UpdateChild",
                       "DeleteChild"}, "crosstest", UnimplementedChildServiceHandler)
          [] s = RelationsServiceName ->
               [m \in {"GetChildParent", "GetParentChildren"} |-> "crosstest"]
          [] s = Knittest!RelationsServiceName ->
               embeds({"GetFooBars", "GetFooDescription", "GetBarBaz", "GetBarBedazzles",
                       "GetFizzBuzzes"}, "test", Knittest!UnimplementedRelationsServiceHandler)
          [] s = Knittest!FooServiceName ->
               [m \in {"GetFoo", "MutateFoo", "QueryFoos"} |-> "test"]
          [] OTHER -> [m \in {"GetFizz"} |-> "test"]]

(* service, its methods and its client                                     *)
services(baseURL) ==
    IF program = "crosstest-server"
    THEN {<<ParentServiceName, parentServiceMethods, NewParentServiceClient(baseURL)>>,
          <<ChildServiceName, childServiceMethods, NewChildServiceClient(baseURL)>>,
          <<RelationsServiceName, relationsServiceMethods, NewRelationsServiceClient(baseURL)>>}
    ELSE {<<Knittest!FooServiceName, Knittest!fooServiceMethods,
            Knittest!NewFooServiceClient(baseURL)>>,
          <<Knittest!FizzServiceName, Knittest!fizzServiceMethods,
            Knittest!NewFizzServiceClient(baseURL)>>,
          <<Knittest!RelationsServiceName, Knittest!relationsServiceMethods,
            Knittest!NewRelationsServiceClient(baseURL)>>}

-----------------------------------------------------------------------------
(* Ids.                                                                    *)

(* strconv.FormatInt                                                       *)
numeral == <<"0", "1", "2", "3", "4", "5", "6", "7", "8", "9">>

digits[n \in Nat] ==
    IF n < Radix THEN <<numeral[n + 1]>>
    ELSE Append(digits[n \div Radix], numeral[(n % Radix) + 1])

parentId(n)   == digits[n]
childId(p, n) == p \o <<"/">> \o digits[n]

(* strings.Split(id, "/")[0]                                               *)
parentOf(id) == SubSeq(id, 1, SelectInSeq(id, LAMBDA word : word = "/") - 1)

ParentIdArgs == {parentId(n) : n \in 1 .. MaxParents}
ChildIdArgs  == {childId(p, n) : p \in ParentIdArgs, n \in 1 .. MaxChildren}

args(method) ==
    CASE method \in {"GetParent", "UpdateParent", "DeleteParent", "ListChildren", "CreateChild"} ->
           {<<p>> : p \in ParentIdArgs}
      [] method \in {"GetChild", "UpdateChild", "DeleteChild"} -> {<<k>> : k \in ChildIdArgs}
      [] OTHER -> {<< >>}

-----------------------------------------------------------------------------
(* Calls.  bases are the ids a call is about; at is the one it has come    *)
(* to; left and seen are of a Range: keys it still has to meet, those it   *)
(* has met; values has the ids found for each base.                        *)

begin(via, asked, method, bases, origin) ==
    [via |-> via, asked |-> asked, method |-> method, bases |-> bases, origin |-> origin,
     pc |-> IF method = none THEN "404"
            ELSE IF implementation[method[1]][method[2]] = "crosstest" THEN "begin"
            ELSE implementation[method[1]][method[2]],
     key |-> none, at |-> 1, left |-> {}, seen |-> {}, values |-> << >>]

(* A client, or the gateway for one.  Fetch is for methods without side    *)
(* effects; only a generated client can use GET.                           *)
Call(c) ==
    /\ call[c] = none
    /\ \E baseURL \in Bases, via \in {"client", "Fetch", "Do"}, verb \in {"POST", "GET"} :
       \E s \in services(baseURL) : \E m \in DOMAIN s[2] : \E bases \in args(m) :
          /\ verb = "GET" => via = "client" /\ s[3][m].get
          /\ via = "Fetch" => s[2][m].safe /\ ~s[2][m].stream
          /\ via = "Do" => ~s[2][m].stream
          /\ LET url == IF via = "client" THEN s[3][m].url ELSE endpointURL(baseURL, s[1], m)
             IN  call' = [call EXCEPT ![c] =
                            begin(IF via = "Fetch" THEN via ELSE verb, <<s[1], m>>,
                                  route(IF program = "knit_test" THEN knittestMux ELSE crosstestMux,
                                        url, verb), bases, << >>)]
    /\ UNCHANGED <<program, parents, parentIds, children, childIds, gone>>

at(c, method, pc) == call[c] # none /\ call[c].method[2] = method /\ call[c].pc = pc

(* Answered; the request and what came of it are forgotten.                *)
end(c, pc) ==
    call' = [call EXCEPT ![c].pc = pc, ![c].via = none, ![c].bases = << >>, ![c].key = none]

Return(c) ==
    /\ call[c] # none
    /\ call[c].pc \in {"done", "failed", "404", "test", "unimplemented"}
    /\ call' = [call EXCEPT ![c] = none]
    /\ UNCHANGED <<program, parents, parentIds, children, childIds, gone>>

arg(c) == call[c].bases[1]

(* Load, and what comes after it.                                          *)
GetParent(c) ==
    /\ at(c, "GetParent", "begin")
    /\ end(c, IF arg(c) \in parents THEN "done" ELSE "failed")
    /\ UNCHANGED <<program, parents, parentIds, children, childIds, gone>>

GetChild(c) ==
    /\ at(c, "GetChild", "begin")
    /\ end(c, IF arg(c) \in children THEN "done" ELSE "failed")
    /\ UNCHANGED <<program, parents, parentIds, children, childIds, gone>>

(* c is going to store under key.                                          *)
willStore(c, key) == call' = [call EXCEPT ![c].pc = "store", ![c].key = key]

(* Slip: stored whether it is there or not.                                *)
UpdateParentAnyway(c) ==
    /\ at(c, "UpdateParent", "begin")
    /\ willStore(c, arg(c))
    /\ UNCHANGED <<program, parents, parentIds, children, childIds, gone>>

UpdateParent(c) ==
    /\ at(c, "UpdateParent", "begin")
    /\ IF arg(c) \in parents THEN willStore(c, arg(c)) ELSE end(c, "failed")
    /\ UNCHANGED <<program, parents, parentIds, children, childIds, gone>>

UpdateChild(c) ==
    /\ at(c, "UpdateChild", "begin")
    /\ IF arg(c) \in children THEN willStore(c, arg(c)) ELSE end(c, "failed")
    /\ UNCHANGED <<program, parents, parentIds, children, childIds, gone>>

(* idCounter.Add(1)                                                        *)
CreateParent(c) ==
    /\ at(c, "CreateParent", "begin")
    /\ parentIds < MaxParents
    /\ parentIds' = parentIds + 1
    /\ willStore(c, parentId(parentIds'))
    /\ UNCHANGED <<program, parents, children, childIds, gone>>

(* CreateChild asks the ParentService for the parent first.                *)
FindParent(c) ==
    /\ at(c, "CreateChild", "begin")
    /\ IF arg(c) \in parents THEN call' = [call EXCEPT ![c].pc = "found"] ELSE end(c, "failed")
    /\ UNCHANGED <<program, parents, parentIds, children, childIds, gone>>

CreateChild(c) ==
    /\ at(c, "CreateChild", "found")
    /\ childIds < MaxChildren
    /\ childIds' = childIds + 1
    /\ willStore(c, childId(arg(c), childIds'))
    /\ UNCHANGED <<program, parents, parentIds, children, gone>>

Store(c) ==
    /\ call[c] # none /\ call[c].pc = "store"
    /\ IF call[c].method[1] = ParentServiceName
       THEN parents' = parents \cup {call[c].key} /\ UNCHANGED children
       ELSE children' = children \cup {call[c].key} /\ UNCHANGED parents
    /\ end(c, "done")
    /\ UNCHANGED <<program, parentIds, childIds, gone>>

(* Ids are of one store or the other.  A Range that has still to meet the  *)
(* key may miss it from now on.                                            *)
remove(c) ==
    /\ parents' = parents \ {arg(c)}
    /\ children' = children \ {arg(c)}
    /\ call' = [d \in Callers |->
                  IF d = c THEN [call[c] EXCEPT !.pc = "done", !.via = none, !.bases = << >>]
                  ELSE IF call[d] = none THEN none
                  ELSE [call[d] EXCEPT !.left = @ \ {arg(c)}]]
    /\ gone' = IF \E d \in Callers : call[d] # none /\ call[d].key = arg(c) /\ call[d].pc = "store"
               THEN gone ELSE gone \cup ({arg(c)} \cap (parents \cup children))
    /\ UNCHANGED <<program, parentIds, childIds>>

DeleteParent(c) == at(c, "DeleteParent", "begin") /\ remove(c)

DeleteChild(c) == at(c, "DeleteChild", "begin") /\ remove(c)

-----------------------------------------------------------------------------
(* Lists and relations.                                                    *)

lists(c) ==
    call[c] # none /\ call[c].method[2] \in {"ListParents", "ListChildren", "GetParentChildren"}

store(c) == IF call[c].method[2] = "ListParents" THEN parents ELSE children

(* Slip: everything is listed.                                             *)
belongsAll(c, key) == TRUE

(* strings.HasPrefix(child.Id, req.Msg.Parent)                             *)
belongs(c, key) ==
    call[c].method[2] = "ListParents" \/ IsPrefix(call[c].bases[call[c].at], key)

(* sync.Map.Range: no snapshot.  It meets every key that stays, none       *)
(* twice, and those that come or go while it lasts or not.                 *)
BeginRange(c) ==
    /\ lists(c)
    /\ call[c].pc = "begin"
    /\ call' = [call EXCEPT ![c] =
                  IF @.method[2] = "GetParentChildren" /\ @.at > Len(@.bases)
                  THEN [@ EXCEPT !.pc = "done"]
                  ELSE [@ EXCEPT !.pc = "range", !.left = store(c), !.seen = {},
                                 !.values = Append(call[c].values, << >>)]]
    /\ UNCHANGED <<program, parents, parentIds, children, childIds, gone>>

Visit(c, key) ==
    /\ lists(c)
    /\ call[c].pc = "range"
    /\ key \in store(c) \ call[c].seen
    /\ call' = [call EXCEPT ![c].seen = @ \cup {key}, ![c].left = @ \ {key},
                            ![c].values = IF belongs(c, key)
                                          THEN Front(@) \o <<Append(Last(@), key)>> ELSE @]
    /\ UNCHANGED <<program, parents, parentIds, children, childIds, gone>>

EndRange(c) ==
    /\ lists(c)
    /\ call[c].pc = "range"
    /\ call[c].left = {}
    /\ call' = [call EXCEPT ![c].at = @ + 1,
                            ![c].pc = IF call[c].method[2] = "GetParentChildren"
                                      THEN "begin" ELSE "done"]
    /\ UNCHANGED <<program, parents, parentIds, children, childIds, gone>>

(* One parent that is not found fails all of them.                         *)
GetChildParent(c) ==
    /\ at(c, "GetChildParent", "begin")
    /\ LET n == call[c].at
           p == parentOf(call[c].bases[n])
       IN  IF n > Len(call[c].bases) THEN end(c, "done")
           ELSE IF p \notin parents
           THEN call' = [call EXCEPT ![c].pc = "failed", ![c].bases = << >>, ![c].values = << >>,
                                     ![c].origin = << >>, ![c].at = 1]
           ELSE call' = [call EXCEPT ![c].at = @ + 1, ![c].values = Append(@, <<p>>)]
    /\ UNCHANGED <<program, parents, parentIds, children, childIds, gone>>

(* A Fetch of the parents that asks for the children of each, and for the  *)
(* parents of those: the gateway calls a resolver with what it got.        *)
Stitch(c) ==
    /\ call[c] # none
    /\ call[c].via = "Fetch" /\ call[c].pc = "done"
    /\ call[c].method[2] \in {"ListParents", "GetParentChildren"}
    /\ LET next   == IF call[c].method[2] = "ListParents" THEN "GetParentChildren"
                     ELSE "GetChildParent"
           from   == call[c].values
           origin == IF next = "GetParentChildren" THEN << >>
                     ELSE FlattenSeq([i \in DOMAIN from |->
                                         [k \in DOMAIN from[i] |-> call[c].bases[i]]])
           asked  == <<RelationsServiceName, next>>
       IN  call' = [call EXCEPT ![c] =
               begin("Fetch", asked,
                     route(crosstestMux, endpointURL(gatewayRoute, asked[1], next), "POST"),
                     FlattenSeq(from), origin)]
    /\ UNCHANGED <<program, parents, parentIds, children, childIds, gone>>

-----------------------------------------------------------------------------
Next ==
    \E c \in Callers :
        \/ Call(c) \/ Return(c) \/ Stitch(c)
        \/ GetParent(c) \/ CreateParent(c) \/ UpdateParent(c)
        \/ GetChild(c) \/ FindParent(c) \/ CreateChild(c) \/ UpdateChild(c)
        \/ Store(c) \/ DeleteParent(c) \/ DeleteChild(c)
        \/ BeginRange(c) \/ EndRange(c) \/ GetChildParent(c)
        \/ \E key \in parents \cup children : Visit(c, key)

Spec == Init /\ [][Next]_vars

-----------------------------------------------------------------------------
(* A call arrives at the method that was meant, whichever base URL and     *)
(* whoever put the URL together, a generated client or the gateway, and    *)
(* the crosstest server has no method but what it implements itself.       *)
RoutedToItsMethod ==
    \A c \in Callers : call[c] # none =>
        /\ call[c].method = call[c].asked
        /\ call[c].pc = "unimplemented" => call[c].method[1] = Knittest!RelationsServiceName

(* What was deleted while nobody was about to store it does not come back: *)
(* no later update revives it, and no new parent or child gets its id.     *)
GoneStaysGone == gone \cap (parents \cup children) = {}

(* What runs for a Fetch, or came by GET, changes no store, also when it   *)
(* is a relation.                                                          *)
FetchChangesNothing ==
    [][\A c \in Callers :
          call[c] # none /\ call[c].via \in {"Fetch", "GET"} /\ call'[c] # none
          /\ call'[c].pc # call[c].pc
          => UNCHANGED <<parents, parentIds, children, childIds>>]_vars

(* From a parent to its children and back: in the answer to a Fetch that   *)
(* asks for both the child's parent is the parent it was found under, or   *)
(* one whose id begins with that one's, which ListChildren takes for its   *)
(* own.                                                                    *)
ParentOfItsChild ==
    \A c \in Callers : at(c, "GetChildParent", "done") =>
        /\ Len(call[c].values) = Len(call[c].origin)
        /\ \A i \in DOMAIN call[c].origin :
              /\ IsPrefix(call[c].origin[i], call[c].values[i][1])
              /\ Len(call[c].origin[i]) = Len(call[c].values[i][1]) =>
                    call[c].origin[i] = call[c].values[i][1]
=============================================================================
