------------------------------ MODULE KnitQuery ------------------------------
(***************************************************************************)
(* The static shape of one unary Knit request (Fetch or Do).               *)
(*                                                                         *)
(* A request holds entry points (Reqs), each answered by one RPC.  Where a *)
(* mask names a relation, the formatted response has a slot: one field of  *)
(* one formatted struct that a resolver must fill, the pair                *)
(* (formatTarget, mask.Name) of the code's patch.  Slots are the slots the *)
(* request can give rise to; which of them really appear depends on the    *)
(* data the backends return (list lengths, map entries, field presence).   *)
(*                                                                         *)
(*   Up[s]       the entry point, or the slot whose resolved value, that   *)
(*               contains the struct s is a field of                       *)
(*   OnError[x]  the on_error clause of the mask field or entry point      *)
(*   Key[s]      the pair (params pointer, relation config) of the group   *)
(*               key: what the mask contributes to batching.  The pointer  *)
(*               is nil for every mask without params, so two masks that   *)
(*               name the same relation without params have equal keys     *)
(***************************************************************************)
EXTENDS FiniteSets

CONSTANTS Reqs, Slots, Up, OnError, Key, ForFetch, Nil

ASSUME QueryAssumption ==
    /\ IsFiniteSet(Slots) /\ IsFiniteSet(Reqs)
    /\ Slots \cap Reqs = {}
    /\ Nil \notin Slots \cup Reqs
    /\ {"absent", "value"} \cap (Slots \cup Reqs) = {}
    /\ Up \in [Slots -> Slots \cup Reqs]
    /\ OnError \in [Slots \cup Reqs -> {"catch", "throw", "unset"}]
    /\ ForFetch \in BOOLEAN

Places == Slots \cup Reqs

fallbackCatch == ~ForFetch

(* Does the clause at x stop errors?  The same rule is written twice in    *)
(* the code, once for mask fields and once for entry points.               *)
shouldCatch(x) ==
    OnError[x] = "catch" \/ (fallbackCatch /\ OnError[x] # "throw")

Children(x) == {s \in Slots : Up[s] = x}

(* Slots whose masks share a group key also agree on whether they catch.   *)
(* It holds when every mask that shares its relation with another carries  *)
(* params of its own, and not for every valid request.                     *)
UniformMasks ==
    \A s, t \in Slots : Key[s] = Key[t] => (shouldCatch(s) <=> shouldCatch(t))

-----------------------------------------------------------------------------
(* Reading the query: used to state properties, not by the code.           *)

(* The places on the way up from x, x included, that leads on from the     *)
(* slots in S only: the least set that has x and, with a slot in S, what   *)
(* that slot hangs below.                                                  *)
upward(x, S) ==
    {y \in Places : \A C \in SUBSET Places :
        x \in C /\ (\A s \in C \cap S : Up[s] \in C) => y \in C}

(* x and all it hangs below, up to its entry point.                        *)
Line == [x \in Places |-> upward(x, Slots)]

(* The nearest place at or above x whose clause stops errors, Nil if none: *)
(* an error goes up from a slot whose clause does not.                     *)
Boundary ==
    [x \in Places |->
        LET stops == {y \in upward(x, {s \in Slots : ~shouldCatch(s)}) : shouldCatch(y)}
        IN  IF stops = {} THEN Nil ELSE CHOOSE y \in stops : TRUE]

(* The slots that come from the same mask of the same entry point as s and *)
(* differ only in the list elements or map entries they belong to, or from *)
(* masks that the keys do not tell apart: going up from both one meets     *)
(* equal keys, and in the end one entry point.                             *)
SameMask ==
    [s \in Slots |-> {t \in Slots :
        \E R \in SUBSET (Line[s] \X Line[t]) :
            /\ <<s, t>> \in R
            /\ \A r \in R :
                  \/ r[1] \in Reqs /\ r[1] = r[2]
                  \/ /\ r[1] \in Slots /\ r[2] \in Slots /\ Key[r[1]] = Key[r[2]]
                     /\ <<Up[r[1]], Up[r[2]]>> \in R}]
=============================================================================
