------------------------------ MODULE MCRequests ------------------------------
(* Three views of one request to the gateway: the goroutines of a Fetch    *)
(* (the request of MCUnary), the messages of a Listen, and the paths and   *)
(* headers in the patches of a Fetch.  A behaviour is of one of them.      *)
EXTENDS MCUnary, Listen, PatchPaths

VARIABLE view

-----------------------------------------------------------------------------
MCContents == {"first", "second"}

(* A user's account has a plan and a profile; the profile an address, an   *)
(* id and a team; the address a location, with latitude and longitude, and *)
(* each of those a unit.  A team has a lead, who has a boss and a desk.    *)
(* There is room behind the paths of profile, geo, lat, lon and lead.      *)
MCMask == <<"account", "plan", "profile", "address", "geo", "lat", "latUnit", "lon", "lonUnit", "id",
            "team", "lead", "boss", "desk">>

MCWithin ==
    [n \in ToSet(MCMask) |->
        CASE n = "account" -> "GetUser"
          [] n \in {"plan", "profile"} -> "account"
          [] n \in {"address", "id", "team"} -> "profile"
          [] n = "geo" -> "address"
          [] n \in {"lat", "lon"} -> "geo"
          [] n = "latUnit" -> "lat"
          [] n = "lonUnit" -> "lon"
          [] n = "lead" -> "team"
          [] OTHER -> "lead"]

MCPath[n \in ToSet(MCMask) \cup {"GetUser"}] ==
    IF n = "GetUser" THEN <<n>> ELSE Append(MCPath[MCWithin[n]], n)

MCRelations == {"plan", "latUnit", "lonUnit", "team", "boss", "desk"}

MCInbound ==
    [h \in {"Authorization", "Host", "Knit-Operations", "Knit-Client-Subject", "User-Agent",
           "Grpc-Timeout"} |-> <<"client's">>]

-----------------------------------------------------------------------------
allVars == <<view, vars, streamVars, pathVars>>

MCInit ==
    /\ view \in {"fetch", "listen", "patches"}
    /\ Init /\ StreamInit /\ PathsInit
    /\ view # "listen" => errField = "none"

FetchStep  == view = "fetch" /\ Next /\ UNCHANGED <<view, streamVars, pathVars>>
ListenStep == view = "listen" /\ StreamNext /\ UNCHANGED <<view, vars, pathVars>>
PatchStep  == view = "patches" /\ PathsNext /\ UNCHANGED <<view, vars, streamVars>>

MCSpec ==
    /\ MCInit /\ [][FetchStep \/ ListenStep \/ PatchStep]_allVars
    /\ WF_allVars(\/ view = "fetch" /\ System /\ UNCHANGED <<view, streamVars, pathVars>>
                  \/ view = "listen" /\ Handler /\ UNCHANGED <<view, vars, pathVars>>)

(* A Fetch returns (UnaryHandler).                                         *)
FetchTerminates == view = "fetch" => Terminates
=============================================================================
