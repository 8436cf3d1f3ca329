------------------------------ MODULE MCUpdates ------------------------------
(* Two sources.  Two services share one of them, so that CreateHandler can *)
(* see two versions of it; the third cannot be registered from version 2.  *)
EXTENDS GatewayUpdates

MCServices == {"films", "people", "music"}
MCPollers  == {"bsr", "grpc"}
MCPollerOf == [s \in MCServices |-> IF s = "music" THEN "grpc" ELSE "bsr"]
MCBad      == {<<"music", 2>>}

(* The liveness properties need one service for each source only.          *)
OnePerSource == {"films", "music"}
OnePollerOf  == [s \in OnePerSource |-> MCPollerOf[s]]
=============================================================================
