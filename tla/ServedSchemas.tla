---------------------------- MODULE ServedSchemas ----------------------------
(***************************************************************************)
(* What the hot-swappable gateway promises to those who call it, without   *)
(* watchers' callbacks, signals, debounce or builders: a register that is  *)
(* set, at one stroke, to descriptors that are at hand, that can be        *)
(* registered, and that are not older than what was served before.         *)
(***************************************************************************)
EXTENDS Naturals

CONSTANTS Services, Bad, MaxVersion, Nil

VARIABLES
    held,       \* held[s]: the version of service s that is at hand, or 0
    served      \* Nil, or the version of each service that is served

vars == <<held, served>>

Vector == [Services -> 0 .. MaxVersion]

(* v is at least as new as w for every service.                            *)
notOlder(v, w) == \A s \in Services : w[s] <= v[s]

servable(v) == \A s \in Services : v[s] # 0 /\ <<s, v[s]>> \notin Bad

Init ==
    /\ held = [s \in Services |-> 0]
    /\ served = Nil

(* Newer descriptors come to hand.                                         *)
Observe ==
    /\ held' \in Vector
    /\ notOlder(held', held)
    /\ UNCHANGED served

Serve ==
    /\ served' \in Vector
    /\ servable(served')
    /\ notOlder(held, served')
    /\ served # Nil => notOlder(served', served)
    /\ UNCHANGED held

Next == Observe \/ Serve

Spec == Init /\ [][Next]_vars
=============================================================================
