----------------------------- MODULE MCReflection -----------------------------
(* Three services; two share an import, and one import has its own.        *)
EXTENDS GrpcReflection

MCFiles   == {"films", "people", "music", "common", "types", "money"}
MCDeps    ==
    [f \in MCFiles |->
        CASE f \in {"films", "people"} -> {"common"}
          [] f = "music"  -> {"money", "people"}
          [] f = "common" -> {"types"}
          [] OTHER        -> {}]
MCSymbols == {"Films", "People", "Music"}
MCFileOf  ==
    [s \in MCSymbols |->
        CASE s = "Films" -> "films" [] s = "People" -> "people" [] OTHER -> "music"]
=============================================================================
