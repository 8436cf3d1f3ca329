----------------------------- MODULE UnaryHandler -----------------------------
(***************************************************************************)
(* handler.do, the body of Fetch and Do: validate everything, call every   *)
(* entry point's method concurrently, stitch in the relations, and let     *)
(* errors that reached an entry point's catch clause replace its body.     *)
(***************************************************************************)
EXTENDS Stitcher

VARIABLE body       \* body[r]: responses[i].Body

vars == <<phase, g, sema, groupErr, cancelled, st, lead, errp, field, broken,
          failed, skipped, calls, body>>

Init == StitcherInit /\ body = [r \in Reqs |-> "absent"]

-----------------------------------------------------------------------------
(* The schema of some entry point cannot be computed from its mask, or a   *)
(* request body does not parse.                                            *)
Reject ==
    /\ phase = "validate"
    /\ phase' = "error"
    /\ broken' = TRUE
    /\ UNCHANGED <<g, sema, groupErr, cancelled, st, lead, errp, field, failed,
                   skipped, calls, body>>

Accept ==
    /\ phase = "validate"
    /\ phase' = "entry"
    /\ g' = [x \in Places |-> IF x \in Reqs THEN "acquire" ELSE g[x]]
    /\ UNCHANGED <<sema, groupErr, cancelled, st, lead, errp, field, broken,
                   failed, skipped, calls, body>>

calling(r) == phase = "entry" /\ g[r] = "call"

MethodFails(r) ==
    /\ calling(r)
    /\ failed' = failed \cup {r}
    /\ IF shouldCatch(r)
       THEN g' = [g EXCEPT ![r] = "done"] /\ body' = [body EXCEPT ![r] = r]
       ELSE g' = [g EXCEPT ![r] = "err"] /\ UNCHANGED body
    /\ Release
    /\ UNCHANGED <<phase, groupErr, cancelled, st, lead, errp, field, broken,
                   skipped, calls>>

(* The response is formatted; it contains the slots kids.                  *)
MethodReturns(r) ==
    /\ calling(r)
    /\ LET up == errPatchFor(r, Nil)
       IN  \E kids \in SUBSET Children(r) :
             /\ st' = [s \in Slots |-> IF s \in kids THEN "queued" ELSE st[s]]
             /\ errp' = withPatches(kids, [errp EXCEPT ![r] = up], up)
    /\ body' = [body EXCEPT ![r] = "value"]
    /\ g' = [g EXCEPT ![r] = "done"]
    /\ Release
    /\ UNCHANGED <<phase, groupErr, cancelled, lead, field, broken, failed,
                   skipped, calls>>

(* The response cannot be unmarshalled or formatted; no clause catches it. *)
ResponseUnusable(r) ==
    /\ calling(r)
    /\ g' = [g EXCEPT ![r] = "err"]
    /\ Release
    /\ broken' = TRUE
    /\ UNCHANGED <<phase, groupErr, cancelled, st, lead, errp, field, failed,
                   skipped, calls, body>>

(* group.Wait() over the entry points, then stitch.                        *)
WaitEntries ==
    /\ phase = "entry"
    /\ allDone
    /\ phase' = IF groupErr THEN "error" ELSE "stitch"
    /\ UNCHANGED <<g, sema, groupErr, cancelled, st, lead, errp, field, broken,
                   failed, skipped, calls, body>>

(* stitch has run out of patches and returned nil.                         *)
Finish ==
    /\ phase = "stitch"
    /\ queued = {}
    /\ phase' = "ok"
    /\ body' = [r \in Reqs |-> IF errp[r] = r /\ IsError(field[r])
                               THEN field[r] ELSE body[r]]
    /\ UNCHANGED <<g, sema, groupErr, cancelled, st, lead, errp, field, broken,
                   failed, skipped, calls>>

-----------------------------------------------------------------------------
EntryPoint(r) == MethodFails(r) \/ MethodReturns(r) \/ ResponseUnusable(r)

Stitching ==
    \/ StartRound \/ BadParams \/ WaitRound
    \/ \E x \in Places : Goroutine(x)
    \/ \E b \in Slots : ResolverGoroutine(b)
    \/ \E p \in Slots : AtPatch(p)

(* Everything the gateway and the backends do; the caller's Cancel aside.  *)
System ==
    \/ Reject \/ Accept \/ WaitEntries \/ Finish
    \/ \E r \in Reqs : EntryPoint(r)
    \/ Stitching /\ UNCHANGED body

Next == System \/ (Cancel /\ UNCHANGED body)

(* Goroutines are scheduled and backends answer, if only with a timeout.   *)
Spec == Init /\ [][Next]_vars /\ WF_vars(System)

-----------------------------------------------------------------------------
(* The state space: every field of a response is absent, a value, or the   *)
(* error of some call; Release never takes the semaphore below zero.       *)
TypeOK ==
    /\ phase \in Phases
    /\ g \in [Places -> Goroutines]
    /\ sema \in Nat
    /\ groupErr \in BOOLEAN
    /\ cancelled \in BOOLEAN
    /\ st \in [Slots -> Patches]
    /\ lead \in [Slots -> Slots \cup {Nil}]
    /\ errp \in [Places -> Places \cup {Nil}]
    /\ field \in [Places -> {"absent", "value"} \cup Places]
    /\ broken \in BOOLEAN
    /\ failed \in SUBSET Places
    /\ skipped \in SUBSET Slots
    /\ calls \in [Slots -> Nat]
    /\ body \in [Reqs -> {"absent", "value"} \cup Places]

(* What the caller finds at x in a response.                               *)
shown(x) == IF x \in Reqs THEN body[x] ELSE field[x]

(* x is reached by the response: no error has replaced something above it. *)
reached(s) == \A a \in Line[s] \ {s} : ~IsError(shown(a))

(* A successful response is complete: every relation slot it reaches was   *)
(* resolved and holds a value or an error, unless the resolver itself      *)
(* declared the relation absent.                                           *)
NoSilentGap ==
    phase = "ok" =>
        /\ \A r \in Reqs : body[r] # "absent"
        /\ \A s \in Slots : st[s] # "none" /\ reached(s) =>
               st[s] = "done" /\ (field[s] # "absent" \/ s \in skipped)

(* The goroutines between Acquire and their deferred Release.              *)
holders == {x \in Places : g[x] \in {"call", "fail", "ok"}}

(* The semaphore counts exactly the goroutines that hold a permit, entry   *)
(* points and resolvers alike, and never more than the limit.              *)
SemaphoreExact ==
    MaxParallelism > 0 => sema = Cardinality(holders) /\ sema <= MaxParallelism

(* Between rounds, and when the handler has returned without a panic, no   *)
(* goroutine is left behind and no permit is taken, whatever failed.       *)
NothingLeftRunning ==
    phase \in {"stitch", "ok", "error"} =>
        sema = 0 /\ \A x \in Places : g[x] \in {"none", "done"}

(* Every patch goes to a resolver at most once, whatever fails around it.  *)
ResolvedOnce == \A s \in Slots : calls[s] <= 1

(* Batching: slots that differ only in the list elements they belong to    *)
(* are resolved by one call, at every depth, and a batch never mixes       *)
(* relations, params or entry points.  Masks that name one relation, both  *)
(* without params, count as one: their patches do share a call.            *)
OneBatchPerMask ==
    \A s, t \in Slots : lead[s] # Nil /\ lead[t] # Nil =>
        (t \in SameMask[s] <=> lead[s] = lead[t])

(* An error once written is never replaced by a value.                     *)
ErrorsStick ==
    [][\A q \in Places : IsError(field[q]) => IsError(field'[q])]_vars

(* No error write dereferences a nil errPatch.                             *)
NoPanic == phase # "panic"

(* What the caller sees: nothing, until the handler returns.               *)
Answer == INSTANCE UnaryAnswer WITH
              status   <- IF Returned THEN phase ELSE "running",
              failures <- failed,
              excused  <- cancelled \/ broken,
              answer   <- IF phase = "ok" THEN [x \in Places |-> shown(x)] ELSE Nil

(* To its caller the request is a single step, however its goroutines and  *)
(* rounds went: it returns once, either with an answer whose errors are    *)
(* those of the failed calls, each at the nearest clause, one and no more  *)
(* per clause, or with an error that has a reason.                         *)
AnswersAtOnce == Answer!Spec

(* Every request returns: no goroutine waits for a permit that is never    *)
(* given back, and the rounds come to an end.                              *)
Terminates == <>Returned
=============================================================================
