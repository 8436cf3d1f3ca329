----------------------------- MODULE UnaryAnswer -----------------------------
(***************************************************************************)
(* What a caller of Fetch or Do is promised, without goroutines, batches,  *)
(* rounds or permits: calls fail, and then the request returns once, with  *)
(* an answer that shows every failure at its clause and no other error, or *)
(* with an error for which there is a reason.                              *)
(***************************************************************************)
EXTENDS KnitQuery

VARIABLES
    status,     \* "running", "ok" or "error"
    failures,   \* places whose method or resolver call failed
    excused,    \* the caller gave up, or some input or reply was unusable
    answer      \* what each place shows to the caller, Nil before that

vars == <<status, failures, excused, answer>>

Init ==
    /\ status = "running"
    /\ failures = {}
    /\ excused = FALSE
    /\ answer = Nil

CallsFail ==
    /\ status = "running"
    /\ \E more \in SUBSET Places : failures' = failures \cup more
    /\ UNCHANGED <<status, excused, answer>>

Disturb ==
    /\ status = "running"
    /\ excused' = TRUE
    /\ UNCHANGED <<status, failures, answer>>

(* The errors in the answer are one for each clause that some failure has  *)
(* as its nearest: an error of a failed call that belongs there.           *)
Succeed ==
    /\ status = "running"
    /\ status' = "ok"
    /\ {q \in Places : answer'[q] \in Places} = {Boundary[p] : p \in failures}
    /\ \A q \in Places : answer'[q] \in Places =>
           answer'[q] \in failures /\ Boundary[answer'[q]] = q
    /\ UNCHANGED <<failures, excused>>

Fail ==
    /\ status = "running"
    /\ status' = "error"
    /\ excused => excused'
    /\ excused' \/ \E p \in failures : Boundary[p] = Nil
    /\ UNCHANGED <<failures, answer>>

Next == CallsFail \/ Disturb \/ Succeed \/ Fail

Spec == Init /\ [][Next]_vars
=============================================================================
