------------------------------- MODULE Stitcher -------------------------------
(***************************************************************************)
(* stitcher.stitch: the breadth-first resolution of relations.             *)
(*                                                                         *)
(* One round takes every queued patch, groups them by (params, relation,   *)
(* meta), and runs one goroutine per group under an errgroup and the       *)
(* request's semaphore.  A goroutine is named by its first patch           *)
(* (batch[0]); the goroutines of the entry points, which the handler       *)
(* starts, are named by the entry point and share the semaphore.           *)
(***************************************************************************)
EXTENDS KnitQuery, Naturals

CONSTANT MaxParallelism         \* MaxParallelismPerRequest; 0 is unlimited

ASSUME ParallelismAssumption == MaxParallelism \in Nat

VARIABLES
    phase,      \* where the handler's own goroutine is, or how it returned
    g,          \* g[x]: the goroutine named x
    sema,       \* permits taken from the bounded semaphore
    groupErr,   \* the current errgroup has recorded an error
    cancelled,  \* the inbound request's context is done
    st,         \* st[s]: has slot s a patch, and has it been worked off
    lead,       \* lead[s]: batch[0] of the batch s was resolved in
    errp,       \* errp[x]: errPatch of the patch, or of the entry point
    field,      \* field[s]: formatTarget.Fields[name]; for an entry point the
                \* field of its errPatch.  An error is named by where it arose
    broken,     \* history: a request, params or reply could not be used
    failed,     \* history: places whose method or resolver call failed
    skipped,    \* history: slots the resolver left without a value
    calls       \* history: calls[s] counts resolver calls that include s

svars == <<phase, g, sema, groupErr, cancelled, st, lead, errp, field,
           broken, failed, skipped, calls>>

Phases     == {"validate", "entry", "stitch", "round", "ok", "error", "panic"}
Goroutines == {"none", "acquire", "call", "fail", "ok", "err", "done"}
Patches    == {"none", "queued", "batched", "done"}

Returned == phase \in {"ok", "error", "panic"}

(* Errors are told from ordinary contents by their [@error] field.         *)
IsError(v) == v \in Places

StitcherInit ==
    /\ phase = "validate"
    /\ g = [x \in Places |-> "none"]
    /\ sema = 0
    /\ groupErr = FALSE
    /\ cancelled = FALSE
    /\ st = [s \in Slots |-> "none"]
    /\ lead = [s \in Slots |-> Nil]
    /\ errp = [x \in Places |-> Nil]
    /\ field = [x \in Places |-> "absent"]
    /\ broken = FALSE
    /\ failed = {}
    /\ skipped = {}
    /\ calls = [s \in Slots |-> 0]

-----------------------------------------------------------------------------
(* The semaphore, and the errgroup's context.                              *)

(* A goroutine's context ends with the inbound one or when the errgroup    *)
(* records its first error.                                                *)
CtxDone == cancelled \/ groupErr

(* Semaphore acquisition: the bounded one waits for a permit and refuses a *)
(* context that is done, the unbounded one does neither.                   *)
Acquire(x) ==
    /\ ~Returned
    /\ g[x] = "acquire"
    /\ IF MaxParallelism > 0
       THEN ~CtxDone /\ sema < MaxParallelism /\ sema' = sema + 1
       ELSE UNCHANGED sema
    /\ g' = [g EXCEPT ![x] = "call"]
    /\ UNCHANGED <<phase, groupErr, cancelled, st, lead, errp, field, broken,
                   failed, skipped, calls>>

AcquireFails(x) ==
    /\ ~Returned
    /\ g[x] = "acquire"
    /\ MaxParallelism > 0 /\ CtxDone
    /\ g' = [g EXCEPT ![x] = "err"]
    /\ UNCHANGED <<phase, sema, groupErr, cancelled, st, lead, errp, field,
                   broken, failed, skipped, calls>>

(* Slips: no Release on the way out; an explicit Release and the deferred. *)
ReleaseForgotten == UNCHANGED sema

(* defer sema.Release()                                                    *)
Release == sema' = IF MaxParallelism > 0 THEN sema - 1 ELSE sema

(* The errgroup learns of a goroutine's error after its deferred Release,  *)
(* and cancels the context of the others.                                  *)
RecordError(x) ==
    /\ ~Returned
    /\ g[x] = "err"
    /\ g' = [g EXCEPT ![x] = "done"]
    /\ groupErr' = TRUE
    /\ UNCHANGED <<phase, sema, cancelled, st, lead, errp, field, broken,
                   failed, skipped, calls>>

(* The caller goes away, or its deadline passes.                           *)
Cancel ==
    /\ ~Returned
    /\ ~cancelled
    /\ cancelled' = TRUE
    /\ UNCHANGED <<phase, g, sema, groupErr, st, lead, errp, field, broken,
                   failed, skipped, calls>>

-----------------------------------------------------------------------------
(* Patches that formatting the contents of x produces.                     *)

(* Slips: the outermost clause wins; the clause above is forgotten.        *)
errPatchForOutermost(s, up) ==
    IF up # Nil THEN up ELSE IF shouldCatch(s) THEN s ELSE Nil

(* The errPatch of a relation field s found below a value whose own errors *)
(* go to up.                                                               *)
errPatchFor(s, up) == IF shouldCatch(s) THEN s ELSE up

(* errp after the patches for kids were made below a place with errp up.   *)
withPatches(kids, ep, up) ==
    [x \in Places |-> IF x \in kids THEN errPatchFor(x, up) ELSE ep[x]]

-----------------------------------------------------------------------------
(* One round.                                                              *)

(* Slip: patches is not reset before the next round.                       *)
queuedNotReset == {s \in Slots : st[s] \in {"queued", "done"}}

queued == {s \in Slots : st[s] = "queued"}

(* Slip: a new resolveMeta for every value instead of every batch.         *)
MetaPerValue(s) == Up[s]

(* The resolveMeta pointer of a patch: made once per entry point, and once *)
(* per batch for the patches below the values the batch resolved.          *)
Meta(s) == IF Up[s] \in Reqs THEN Up[s] ELSE lead[Up[s]]

(* Slip: the group key leaves out the mask.                                *)
sameGroupByMeta(s, t) == Meta(s) = Meta(t)

sameGroup(s, t) == Key[s] = Key[t] /\ Meta(s) = Meta(t)

(* Which patch of a group comes first depends on mask order, map iteration *)
(* and the order in which the last round's goroutines appended.            *)
StartRound ==
    /\ phase = "stitch"
    /\ queued # {}
    /\ \E first \in [queued -> queued] :
         /\ \A s \in queued : sameGroup(s, first[s])
         /\ \A s, t \in queued : sameGroup(s, t) => first[s] = first[t]
         /\ lead' = [s \in Slots |-> IF s \in queued THEN first[s] ELSE lead[s]]
         /\ g' = [x \in Places |-> IF \E s \in queued : first[s] = x
                                   THEN "acquire" ELSE g[x]]
    /\ st' = [s \in Slots |-> IF s \in queued THEN "batched" ELSE st[s]]
    /\ groupErr' = FALSE
    /\ phase' = "round"
    /\ UNCHANGED <<sema, cancelled, errp, field, broken, failed, skipped, calls>>

(* The params of some group do not parse, or set the bases field.          *)
BadParams ==
    /\ phase = "stitch"
    /\ queued # {}
    /\ phase' = "error"
    /\ broken' = TRUE
    /\ UNCHANGED <<g, sema, groupErr, cancelled, st, lead, errp, field, failed,
                   skipped, calls>>

batch(b)   == {s \in Slots : lead[s] = b}

(* Slip: the loop over the batch ends after batch[0].                      *)
pendingFirst(b) == {s \in batch(b) : s = b /\ st[s] = "batched"}
pending(b) == {s \in batch(b) : st[s] = "batched"}

called(b) == [s \in Slots |-> IF s \in batch(b) THEN calls[s] + 1 ELSE calls[s]]

(* The resolver fails, or returns the wrong number of values.  Whether the *)
(* error is thrown is decided by batch[0] alone.                           *)
ResolverFails(b) ==
    /\ ~Returned
    /\ g[b] = "call"
    /\ failed' = failed \cup batch(b)
    /\ calls' = called(b)
    /\ IF errp[b] = Nil
       THEN g' = [g EXCEPT ![b] = "err"] /\ Release
       ELSE g' = [g EXCEPT ![b] = "fail"] /\ UNCHANGED sema
    /\ UNCHANGED <<phase, groupErr, cancelled, st, lead, errp, field, broken,
                   skipped>>

ResolverReturns(b) ==
    /\ ~Returned
    /\ g[b] = "call"
    /\ calls' = called(b)
    /\ g' = [g EXCEPT ![b] = "ok"]
    /\ UNCHANGED <<phase, sema, groupErr, cancelled, st, lead, errp, field,
                   broken, failed, skipped>>

(* The loop over the batch has reached patch p, its goroutine in state gs. *)
atPatch(p, gs) ==
    /\ ~Returned
    /\ st[p] = "batched"
    /\ g[lead[p]] = gs
    /\ p = lead[p] \/ st[lead[p]] = "done"

(* The error goes to the patch's errPatch; a nil errPatch is dereferenced. *)
WriteError(p) ==
    /\ atPatch(p, "fail")
    /\ IF errp[p] = Nil
       THEN phase' = "panic" /\ UNCHANGED <<st, field>>
       ELSE /\ field' = [field EXCEPT ![errp[p]] = p]
            /\ st' = [st EXCEPT ![p] = "done"]
            /\ UNCHANGED phase
    /\ UNCHANGED <<g, sema, groupErr, cancelled, lead, errp, broken, failed,
                   skipped, calls>>

(* The resolved value is formatted into the target; it contains the slots  *)
(* kids, whose patches are queued for the next round.                      *)
WriteValue(p) ==
    /\ atPatch(p, "ok")
    /\ \E kids \in SUBSET Children(p) :
         /\ st' = [s \in Slots |-> IF s = p THEN "done"
                                   ELSE IF s \in kids THEN "queued" ELSE st[s]]
         /\ errp' = withPatches(kids, errp, errp[p])
    /\ field' = [field EXCEPT ![p] = "value"]
    /\ UNCHANGED <<phase, g, sema, groupErr, cancelled, lead, broken, failed,
                   skipped, calls>>

(* An invalid reflection value stands for an absent relation.              *)
SkipValue(p) ==
    /\ atPatch(p, "ok")
    /\ st' = [st EXCEPT ![p] = "done"]
    /\ skipped' = skipped \cup {p}
    /\ UNCHANGED <<phase, g, sema, groupErr, cancelled, lead, errp, field,
                   broken, failed, calls>>

(* A resolved value that cannot be formatted ends the goroutine, whatever  *)
(* the catch clauses say.                                                  *)
FormatFails(p) ==
    /\ atPatch(p, "ok")
    /\ g' = [g EXCEPT ![lead[p]] = "err"]
    /\ Release
    /\ broken' = TRUE
    /\ UNCHANGED <<phase, groupErr, cancelled, st, lead, errp, field, failed,
                   skipped, calls>>

BatchReturns(b) ==
    /\ ~Returned
    /\ g[b] \in {"fail", "ok"}
    /\ pending(b) = {}
    /\ g' = [g EXCEPT ![b] = "done"]
    /\ Release
    /\ UNCHANGED <<phase, groupErr, cancelled, st, lead, errp, field, broken,
                   failed, skipped, calls>>

allDoneOrFailed ==
    groupErr \/ \A x \in Places : g[x] \in {"none", "done"}

(* group.Wait()                                                            *)
allDone == \A x \in Places : g[x] \in {"none", "done"}

WaitRound ==
    /\ phase = "round"
    /\ allDone
    /\ phase' = IF groupErr THEN "error" ELSE "stitch"
    /\ UNCHANGED <<g, sema, groupErr, cancelled, st, lead, errp, field, broken,
                   failed, skipped, calls>>

Goroutine(x) == Acquire(x) \/ AcquireFails(x) \/ RecordError(x)

ResolverGoroutine(b) ==
    ResolverFails(b) \/ ResolverReturns(b) \/ BatchReturns(b)

AtPatch(p) ==
    WriteError(p) \/ WriteValue(p) \/ SkipValue(p) \/ FormatFails(p)
=============================================================================
