------------------------------- MODULE MCServer -------------------------------
(* The repository's server programs, the gateway, the crosstest server and *)
(* the server of knit_test.go: a behaviour is of one of them.              *)
EXTENDS Server

CONSTANTS
    Callers, Radix, MaxParents, MaxChildren, Bases, none

VARIABLES program, parents, parentIds, children, childIds, call, gone

(* Base URLs of the server are its origin, with or without a slash.        *)
ASSUME CrosstestAssumption ==
    /\ Radix \in 2 .. 10 /\ MaxParents \in Nat /\ MaxChildren \in Nat
    /\ \A base \in Bases : base[1] # "/" /\ base \in {<<base[1]>>, <<base[1], "/">>}
    /\ none \notin {"Fetch", "GET"}

crosstestVars == <<program, parents, parentIds, children, childIds, call, gone>>

X == INSTANCE Crosstest

(* All listeners that can be configured: the gateway's TCP address and     *)
(* unix socket share a server, the admin endpoints have one of their own.  *)
MCListeners == {"tcp", "unix", "admin"}
MCServers   == {"svr", "adminSvr"}
MCServerOf  == [l \in MCListeners |-> IF l = "admin" THEN "adminSvr" ELSE "svr"]

MCBases == {<<"http://localhost", "/">>, <<"http://localhost">>}

allVars == <<vars, crosstestVars>>

MCInit == Init /\ (X!Init \/ (program = "knitgateway" /\ X!Empty))

Gateway == program = "knitgateway" /\ Next /\ UNCHANGED crosstestVars

CrosstestServer == program # "knitgateway" /\ X!Next /\ UNCHANGED vars

MCSpec ==
    /\ MCInit /\ [][Gateway \/ CrosstestServer]_allVars
    /\ program = "knitgateway" => Fairness

(* Every call reaches the method that was meant (Crosstest).               *)
RoutedToItsMethod == X!RoutedToItsMethod

(* No update revives what was deleted before it began (services.go).       *)
GoneStaysGone == X!GoneStaysGone

(* A child's parent is the one it was found under, but for ListChildren's  *)
(* prefix (resolvers.go).                                                  *)
ParentOfItsChild == X!ParentOfItsChild

(* A Fetch, or a GET, changes no store, in its relations neither.          *)
FetchChangesNothing == X!FetchChangesNothing
=============================================================================
