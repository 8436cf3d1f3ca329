-------------------------- MODULE UnaryHandlerProofs --------------------------
(***************************************************************************)
(* Fetch and Do for every query: any entry points and slots, any shape,    *)
(* any clauses, any limit on parallelism.                                  *)
(***************************************************************************)
EXTENDS UnaryHandler, FiniteSetTheorems, TLAPS

-----------------------------------------------------------------------------
(* The parts of the inductive invariant.                                   *)

Idle == \A x \in Places : g[x] \in {"none", "done"}

(* Goroutines run only while the handler waits for them.                   *)
Quiet ==
    /\ phase \in {"validate", "stitch", "ok", "error"} => Idle
    /\ phase = "validate" => \A s \in Slots : st[s] = "none"

(* The semaphore, limited or not.                                          *)
Counted ==
    /\ MaxParallelism = 0 => sema = 0
    /\ SemaphoreExact

inBatch(s) == st[s] \in {"batched", "done"}

(* Every batch has its first patch as its name; a goroutine is there only  *)
(* for the sake of a batch.                                                *)
Batches ==
    \A s \in Slots :
        /\ inBatch(s) => lead[s] \in Slots /\ lead[lead[s]] = lead[s] /\ inBatch(lead[s])
        /\ ~inBatch(s) => lead[s] = Nil /\ g[s] = "none"

(* A patch is made when what it hangs below has been worked off, ...       *)
Tree ==
    \A s \in Slots : st[s] # "none" =>
        IF Up[s] \in Slots THEN st[Up[s]] = "done" ELSE g[Up[s]] = "done"

(* ... and takes its errPatch from there.                                  *)
Chain ==
    \A s \in Slots : st[s] # "none" => errp[s] = errPatchFor(s, errp[Up[s]])

(* An errPatch belongs to the patch itself or to one worked off before.    *)
Above ==
    /\ \A s \in Slots : st[s] # "none" /\ errp[s] \in Slots =>
           errp[s] = s \/ st[errp[s]] = "done"
    /\ \A r \in Reqs : errp[r] \in {r, Nil}
    /\ \A s \in Slots : IsError(field[s]) => st[s] = "done"

(* A batch whose goroutine has not called the resolver was never sent.     *)
Once ==
    \A s \in Slots :
        /\ calls[s] <= 1
        /\ lead[s] = Nil \/ g[lead[s]] \in {"none", "acquire", "call"} => calls[s] = 0

(* Patches of a batch agree on whether their errors are thrown, and a      *)
(* goroutine that writes errors has a first patch that catches.            *)
Agreed ==
    /\ \A s \in Slots : inBatch(s) => (errp[s] = Nil <=> errp[lead[s]] = Nil)
    /\ \A b \in Slots : g[b] = "fail" => errp[b] # Nil
    /\ NoPanic

-----------------------------------------------------------------------------
(* The semaphore.                                                          *)

(* Entry points and slots are finitely many.                               *)
LEMMA PlacesFinite == IsFiniteSet(Places)
  BY QueryAssumption, FS_Union DEF Places

(* So are the goroutines that hold a permit.                              *)
LEMMA HoldersFinite == IsFiniteSet(holders) /\ Cardinality(holders) \in Nat
  BY PlacesFinite, FS_Subset, FS_CardinalityType DEF holders

(* Acquire: one more goroutine holds a permit, and one more permit is out. *)
LEMMA Taken ==
  ASSUME TypeOK, Counted, NEW x \in Places, g[x] = "acquire",
         g' = [g EXCEPT ![x] = "call"],
         IF MaxParallelism > 0 THEN sema < MaxParallelism /\ sema' = sema + 1
                               ELSE sema' = sema
  PROVE  Counted' /\ sema' \in Nat
<1>1. holders' = holders \cup {x} /\ x \notin holders
  BY DEF TypeOK, holders
<1>2. Cardinality(holders') = Cardinality(holders) + 1
  BY <1>1, HoldersFinite, FS_AddElement
<1> QED
  BY <1>2, ParallelismAssumption DEF TypeOK, Counted, SemaphoreExact

(* Release: one goroutine less holds a permit, and one permit comes back.  *)
LEMMA Released ==
  ASSUME TypeOK, Counted, NEW x \in Places, g[x] \in {"call", "fail", "ok"},
         NEW v \in {"err", "done"}, g' = [g EXCEPT ![x] = v], Release
  PROVE  Counted' /\ sema' \in Nat
<1>1. holders' = holders \ {x} /\ x \in holders
  BY DEF TypeOK, holders
<1>2. Cardinality(holders') = Cardinality(holders) - 1
  BY <1>1, HoldersFinite, FS_RemoveElement
<1>3. Cardinality(holders') \in Nat
  BY <1>1, HoldersFinite, FS_RemoveElement, FS_CardinalityType
<1> QED
  BY <1>2, <1>3, HoldersFinite, ParallelismAssumption
  DEF TypeOK, Counted, SemaphoreExact, Release

(* Everything else leaves both alone.                                      *)
LEMMA Kept ==
  ASSUME Counted, sema' = sema, holders' = holders
  PROVE  Counted'
  BY DEF Counted, SemaphoreExact

-----------------------------------------------------------------------------
(* Types, waiting, batches and the semaphore hold one another up.          *)
Core == TypeOK /\ Quiet /\ Batches /\ Tree /\ Counted

(* Before the request is looked at nothing runs and no permit is taken.    *)
LEMMA CoreInit == Init => Core
<1> SUFFICES ASSUME Init PROVE Core
  OBVIOUS
<1> USE QueryAssumption DEF Init, StitcherInit
<1>1. TypeOK
  <2>1. groupErr \in BOOLEAN /\ cancelled \in BOOLEAN /\ broken \in BOOLEAN
    OBVIOUS
  <2> QED
    BY <2>1 DEF TypeOK, Phases, Goroutines, Patches
<1>2. Quiet /\ Batches /\ Tree
  BY DEF Quiet, Idle, Batches, Tree, inBatch, Places
<1>3. holders = {}
  BY DEF holders
<1>4. Counted
  BY <1>3, FS_EmptySet, ParallelismAssumption DEF Counted, SemaphoreExact
<1> QED
  BY <1>1, <1>2, <1>4 DEF Core

(* The steps of any goroutine.                                             *)
LEMMA CoreGoroutine ==
  ASSUME Core, NEW x \in Places, Goroutine(x), UNCHANGED body
  PROVE  Core'
<1> USE QueryAssumption DEF Core
<1>1. CASE Acquire(x)
  <2>1. Counted' /\ sema' \in Nat
    BY <1>1, Taken DEF Acquire
  <2>2. TypeOK'
    BY <1>1, <2>1 DEF Acquire, TypeOK, Goroutines
  <2>3. Quiet' /\ Batches' /\ Tree'
    BY <1>1 DEF Acquire, TypeOK, Quiet, Idle, Batches, Tree, inBatch, Returned,
       Places
  <2> QED
    BY <2>1, <2>2, <2>3
<1>2. CASE AcquireFails(x)
  <2>1. holders' = holders
    BY <1>2 DEF AcquireFails, TypeOK, holders
  <2>2. Counted'
    BY <1>2, <2>1, Kept DEF AcquireFails
  <2>3. TypeOK'
    BY <1>2 DEF AcquireFails, TypeOK, Goroutines
  <2>4. Quiet' /\ Batches' /\ Tree'
    BY <1>2 DEF AcquireFails, TypeOK, Quiet, Idle, Batches, Tree, inBatch, Returned,
       Places
  <2> QED
    BY <2>2, <2>3, <2>4
<1>3. CASE RecordError(x)
  <2>1. holders' = holders
    BY <1>3 DEF RecordError, TypeOK, holders
  <2>2. Counted'
    BY <1>3, <2>1, Kept DEF RecordError
  <2>3. TypeOK'
    BY <1>3 DEF RecordError, TypeOK, Goroutines
  <2>4. Quiet' /\ Batches' /\ Tree'
    BY <1>3 DEF RecordError, TypeOK, Quiet, Idle, Batches, Tree, inBatch, Returned,
       Places
  <2> QED
    BY <2>2, <2>3, <2>4
<1> QED
  BY <1>1, <1>2, <1>3 DEF Goroutine

(* The call of a resolver, and a batch's end.                              *)
LEMMA CoreResolver ==
  ASSUME Core, NEW b \in Slots, ResolverGoroutine(b), UNCHANGED body
  PROVE  Core'
<1> USE QueryAssumption DEF Core
<1>a. b \in Places
  BY DEF Places
<1>1. CASE ResolverFails(b)
  <2>1. calls' \in [Slots -> Nat] /\ failed' \in SUBSET Places
    BY <1>1 DEF ResolverFails, TypeOK, called, batch, Places
  <2>2. Counted' /\ sema' \in Nat
    <3>1. CASE errp[b] = Nil
      BY <1>a, <1>1, <3>1, Released DEF ResolverFails
    <3>2. CASE errp[b] # Nil
      <4>1. holders' = holders
        BY <1>a, <1>1, <3>2 DEF ResolverFails, TypeOK, holders
      <4> QED
        BY <1>1, <3>2, <4>1, Kept DEF ResolverFails, TypeOK
    <3> QED
      BY <3>1, <3>2
  <2>3. TypeOK'
    BY <1>1, <2>1, <2>2 DEF ResolverFails, TypeOK, Goroutines
  <2>4. Quiet' /\ Batches' /\ Tree'
    <3>1. PICK v \in {"err", "fail"} : g' = [g EXCEPT ![b] = v]
      BY <1>1 DEF ResolverFails
    <3>2. UNCHANGED <<phase, st, lead>> /\ ~Returned /\ g[b] = "call"
      BY <1>1 DEF ResolverFails
    <3> QED
      BY <1>a, <3>1, <3>2 DEF TypeOK, Quiet, Idle, Batches, Tree, inBatch,
       Returned
  <2> QED
    BY <2>2, <2>3, <2>4
<1>2. CASE ResolverReturns(b)
  <2>1. calls' \in [Slots -> Nat]
    BY <1>2 DEF ResolverReturns, TypeOK, called
  <2>2. holders' = holders
    BY <1>a, <1>2 DEF ResolverReturns, TypeOK, holders
  <2>3. Counted'
    BY <1>2, <2>2, Kept DEF ResolverReturns
  <2>4. TypeOK'
    BY <1>2, <2>1 DEF ResolverReturns, TypeOK, Goroutines
  <2>5. Quiet' /\ Batches' /\ Tree'
    BY <1>a, <1>2 DEF ResolverReturns, TypeOK, Quiet, Idle, Batches, Tree, inBatch,
       Returned
  <2> QED
    BY <2>3, <2>4, <2>5
<1>3. CASE BatchReturns(b)
  <2>1. Counted' /\ sema' \in Nat
    BY <1>a, <1>3, Released DEF BatchReturns
  <2>2. TypeOK'
    BY <1>3, <2>1 DEF BatchReturns, TypeOK, Goroutines
  <2>3. Quiet' /\ Batches' /\ Tree'
    BY <1>a, <1>3 DEF BatchReturns, TypeOK, Quiet, Idle, Batches, Tree, inBatch,
       Returned
  <2> QED
    BY <2>1, <2>2, <2>3
<1> QED
  BY <1>1, <1>2, <1>3 DEF ResolverGoroutine

(* The writes of a batch.                                                  *)
LEMMA CoreWrites ==
  ASSUME Core, NEW p \in Slots, AtPatch(p), UNCHANGED body
  PROVE  Core'
<1> USE QueryAssumption DEF Core
<1>a. p \in Places /\ st[p] = "batched" /\ ~Returned
  BY DEF AtPatch, WriteError, WriteValue, SkipValue, FormatFails, atPatch, Places
<1>b. lead[p] \in Slots /\ lead[p] \in Places
  BY <1>a DEF Batches, inBatch, Places
<1>1. CASE WriteError(p)
  <2>1. holders' = holders /\ Counted'
    BY <1>1, Kept DEF WriteError, holders
  <2>2. TypeOK'
    BY <1>a, <1>1 DEF WriteError, TypeOK, Phases, Patches
  <2>3. Quiet' /\ Batches' /\ Tree'
    BY <1>a, <1>1 DEF WriteError, TypeOK, Quiet, Idle, Batches, Tree, inBatch,
       Returned
  <2> QED
    BY <2>1, <2>2, <2>3
<1>2. CASE WriteValue(p)
  <2>1. holders' = holders /\ Counted'
    BY <1>2, Kept DEF WriteValue, holders
  <2>2. PICK kids \in SUBSET Children(p) :
          /\ st' = [s \in Slots |-> IF s = p THEN "done"
                                    ELSE IF s \in kids THEN "queued" ELSE st[s]]
          /\ errp' = withPatches(kids, errp, errp[p])
    BY <1>2 DEF WriteValue
  <2>3. errp' \in [Places -> Places \cup {Nil}]
    BY <1>a, <2>2 DEF withPatches, errPatchFor, TypeOK
  <2>4. TypeOK'
    BY <1>a, <1>2, <2>2, <2>3 DEF WriteValue, TypeOK, Patches
  <2>5. Quiet'
    BY <1>a, <1>2 DEF WriteValue, Quiet, Idle, Returned
  <2>6. \A s \in kids : st[s] = "none" /\ Up[s] = p
    BY <1>a, <2>2 DEF Tree, Children
  <2>7. Batches'
    BY <1>a, <1>2, <2>2, <2>6 DEF WriteValue, TypeOK, Batches, inBatch
  <2>8. Tree'
    BY <1>a, <1>2, <2>2, <2>6 DEF WriteValue, TypeOK, Tree
  <2> QED
    BY <2>1, <2>4, <2>5, <2>7, <2>8
<1>3. CASE SkipValue(p)
  <2>1. holders' = holders /\ Counted'
    BY <1>3, Kept DEF SkipValue, holders
  <2>2. TypeOK'
    BY <1>a, <1>3 DEF SkipValue, TypeOK, Patches
  <2>3. Quiet' /\ Batches' /\ Tree'
    BY <1>a, <1>3 DEF SkipValue, TypeOK, Quiet, Idle, Batches, Tree, inBatch,
       Returned
  <2> QED
    BY <2>1, <2>2, <2>3
<1>4. CASE FormatFails(p)
  <2>1. Counted' /\ sema' \in Nat
    BY <1>b, <1>4, Released DEF FormatFails, atPatch
  <2>2. TypeOK'
    BY <1>b, <1>4, <2>1 DEF FormatFails, TypeOK, Goroutines
  <2>3. Quiet' /\ Batches' /\ Tree'
    BY <1>a, <1>b, <1>4
    DEF FormatFails, atPatch, TypeOK, Quiet, Idle, Batches, Tree, inBatch,
       Returned
  <2> QED
    BY <2>1, <2>2, <2>3
<1> QED
  BY <1>1, <1>2, <1>3, <1>4 DEF AtPatch

(* The handler's own goroutine in stitch.                                  *)
LEMMA CoreRound ==
  ASSUME Core, StartRound \/ BadParams \/ WaitRound, UNCHANGED body
  PROVE  Core'
<1> USE QueryAssumption DEF Core
<1>1. CASE StartRound
  <2>1. PICK first \in [queued -> queued] :
          /\ lead' = [s \in Slots |-> IF s \in queued THEN first[s] ELSE lead[s]]
          /\ g' = [x \in Places |-> IF \E s \in queued : first[s] = x
                                    THEN "acquire" ELSE g[x]]
          /\ \A s, t \in queued : sameGroup(s, t) => first[s] = first[t]
          /\ \A s \in queued : sameGroup(s, first[s])
    BY <1>1 DEF StartRound
  <2>2. /\ st' = [s \in Slots |-> IF s \in queued THEN "batched" ELSE st[s]]
        /\ phase = "stitch" /\ phase' = "round"
        /\ UNCHANGED <<sema, cancelled, errp, field, broken, failed, skipped, calls>>
        /\ groupErr' = FALSE
    BY <1>1 DEF StartRound
  <2>3. queued \subseteq Slots /\ \A s \in queued : first[s] \in queued
    BY DEF queued
  <2>4. Idle
    BY <2>2 DEF Quiet
  <2>5. holders' = holders
    BY <2>1, <2>4 DEF holders, Idle
  <2>6. Counted'
    BY <2>2, <2>5, Kept
  <2>7. TypeOK'
    BY <2>1, <2>2, <2>3 DEF TypeOK, Phases, Goroutines, Patches
  <2>8. Quiet'
    BY <2>2 DEF Quiet
  <2>9. Tree'
    BY <2>1, <2>2, <2>3 DEF TypeOK, Tree, Places, queued
  <2>10. ASSUME NEW s \in Slots
         PROVE  /\ inBatch(s)' => /\ lead'[s] \in Slots
                                  /\ lead'[lead'[s]] = lead'[s]
                                  /\ inBatch(lead[s])'
                /\ ~inBatch(s)' => lead'[s] = Nil /\ g'[s] = "none"
    <3>1. CASE s \in queued
      <4>1. sameGroup(s, first[s]) /\ first[s] \in queued /\ s \in queued
        BY <2>1, <2>3, <3>1
      <4>2. first[first[s]] = first[s]
        BY <2>1, <4>1
      <4> QED
        BY <2>1, <2>2, <2>3, <3>1, <4>2 DEF inBatch
    <3>2. CASE s \notin queued
      <4>1. lead'[s] = lead[s] /\ st'[s] = st[s]
        BY <2>1, <2>2, <3>2
      <4>2. CASE inBatch(s)
        <5>1. lead[s] \in Slots \ queued
          BY <4>2 DEF Batches, inBatch, queued
        <5> QED
          BY <2>1, <2>2, <4>1, <4>2, <5>1 DEF Batches, inBatch
      <4>3. CASE ~inBatch(s)
        BY <2>1, <2>3, <3>2, <4>1, <4>3 DEF Batches, inBatch, Places
      <4> QED
        BY <4>2, <4>3
    <3> QED
      BY <3>1, <3>2
  <2>11. Batches'
    BY <2>10 DEF Batches, inBatch
  <2> QED
    BY <2>6, <2>7, <2>8, <2>9, <2>11
<1>2. CASE BadParams
  <2>1. holders' = holders /\ Counted'
    BY <1>2, Kept DEF BadParams, holders
  <2> QED
    BY <1>2, <2>1
    DEF BadParams, TypeOK, Phases, Quiet, Idle, Batches, Tree, inBatch
<1>3. CASE WaitRound
  <2>1. holders' = holders /\ Counted'
    BY <1>3, Kept DEF WaitRound, holders
  <2> QED
    BY <1>3, <2>1
    DEF WaitRound, allDone, TypeOK, Phases, Quiet, Idle, Batches, Tree, inBatch
<1> QED
  BY <1>1, <1>2, <1>3

(* The entry points, and the beginning and end of the request.             *)
LEMMA CoreEntry ==
  ASSUME Core, NEW r \in Reqs, EntryPoint(r)
  PROVE  Core'
<1> USE QueryAssumption DEF Core
<1>a. r \in Places /\ r \notin Slots /\ phase = "entry" /\ g[r] = "call"
  BY DEF Places, EntryPoint, MethodFails, MethodReturns, ResponseUnusable, calling
<1>b. PICK v \in {"err", "done"} : g' = [g EXCEPT ![r] = v]
  BY DEF EntryPoint, MethodFails, MethodReturns, ResponseUnusable
<1>c. Release /\ UNCHANGED <<phase, lead, calls>>
  BY DEF EntryPoint, MethodFails, MethodReturns, ResponseUnusable
<1>d. Counted' /\ sema' \in Nat
  BY <1>a, <1>b, <1>c, Released
<1>1. CASE MethodReturns(r)
  <2>1. PICK kids \in SUBSET Children(r) :
          /\ st' = [s \in Slots |-> IF s \in kids THEN "queued" ELSE st[s]]
          /\ errp' = withPatches(kids, [errp EXCEPT ![r] = errPatchFor(r, Nil)],
                                 errPatchFor(r, Nil))
    BY <1>1 DEF MethodReturns
  <2>2. errp' \in [Places -> Places \cup {Nil}]
    BY <1>a, <2>1 DEF withPatches, errPatchFor, TypeOK
  <2>3. \A s \in kids : s \in Slots /\ st[s] = "none" /\ Up[s] = r
    BY <1>a, <2>1 DEF Tree, Children
  <2>4. g' = [g EXCEPT ![r] = "done"]
    BY <1>1 DEF MethodReturns
  <2>5. TypeOK'
    BY <1>a, <1>1, <1>d, <2>1, <2>2, <2>4
    DEF MethodReturns, TypeOK, Goroutines, Patches
  <2>6. Quiet'
    BY <1>a, <1>c DEF Quiet
  <2>7. Batches'
    BY <1>a, <1>c, <2>1, <2>3, <2>4 DEF TypeOK, Batches, inBatch, Places
  <2>8. Tree'
    BY <1>a, <2>1, <2>3, <2>4 DEF TypeOK, Tree, Places
  <2> QED
    BY <1>d, <2>5, <2>6, <2>7, <2>8
<1>2. CASE MethodFails(r) \/ ResponseUnusable(r)
  <2>1. UNCHANGED st
    BY <1>2 DEF MethodFails, ResponseUnusable
  <2>a. g' \in [Places -> Goroutines]
    BY <1>a, <1>b DEF TypeOK, Goroutines
  <2>b. ASSUME MethodFails(r) PROVE TypeOK'
    <3>1. /\ body' \in [Reqs -> {"absent", "value"} \cup Places]
          /\ failed' \in SUBSET Places
      BY <1>a, <2>b DEF MethodFails, TypeOK
    <3> QED
      BY <1>d, <2>a, <2>b, <3>1 DEF MethodFails, TypeOK
  <2>c. ASSUME ResponseUnusable(r) PROVE TypeOK'
    BY <1>d, <2>a, <2>c DEF ResponseUnusable, TypeOK
  <2>2. TypeOK'
    BY <1>2, <2>b, <2>c
  <2>3. Quiet' /\ Batches' /\ Tree'
    BY <1>a, <1>b, <1>c, <2>1 DEF TypeOK, Quiet, Batches, Tree, inBatch, Places
  <2> QED
    BY <1>d, <2>2, <2>3
<1> QED
  BY <1>1, <1>2 DEF EntryPoint

(* The handler's own steps, and the caller's going away.                   *)
LEMMA CoreHandler ==
  ASSUME Core, Reject \/ Accept \/ WaitEntries \/ Finish \/ (Cancel /\ UNCHANGED body)
  PROVE  Core'
<1> USE QueryAssumption DEF Core
<1>1. CASE Accept
  <2>1. holders' = holders
    BY <1>1 DEF Accept, holders, Quiet, Idle, Places
  <2>2. Counted'
    BY <1>1, <2>1, Kept DEF Accept
  <2>3. TypeOK'
    BY <1>1 DEF Accept, TypeOK, Phases, Goroutines
  <2>4. Quiet' /\ Batches' /\ Tree'
    BY <1>1 DEF Accept, TypeOK, Quiet, Batches, Tree, inBatch, Places
  <2> QED
    BY <2>2, <2>3, <2>4
<1>2. CASE Reject \/ WaitEntries \/ Finish \/ (Cancel /\ UNCHANGED body)
  <2>1. UNCHANGED <<g, sema, st, lead, errp, field, failed, skipped, calls, groupErr>>
    BY <1>2 DEF Reject, WaitEntries, Finish, Cancel
  <2>2. holders' = holders /\ Counted'
    BY <2>1, Kept DEF holders
  <2>3. body' \in [Reqs -> {"absent", "value"} \cup Places]
    BY <1>2 DEF Reject, WaitEntries, Finish, Cancel, TypeOK, IsError
  <2>4. cancelled' \in BOOLEAN /\ broken' \in BOOLEAN /\ groupErr' \in BOOLEAN
    BY <1>2 DEF Reject, WaitEntries, Finish, Cancel, TypeOK
  <2>5. phase' \in Phases
    BY <1>2 DEF Reject, WaitEntries, Finish, Cancel, TypeOK, Phases
  <2>6. TypeOK'
    BY <2>1, <2>3, <2>4, <2>5 DEF TypeOK
  <2>7. Idle \/ UNCHANGED phase
    BY <1>2 DEF Reject, WaitEntries, Finish, Cancel, Quiet, Idle, allDone
  <2>8. Quiet'
    BY <1>2, <2>1, <2>7 DEF Reject, WaitEntries, Finish, Cancel, Quiet, Idle
  <2>9. Batches' /\ Tree'
    BY <2>1 DEF Batches, Tree, inBatch
  <2> QED
    BY <2>2, <2>6, <2>8, <2>9
<1> QED
  BY <1>1, <1>2

(* Types, waiting, batches, tree and semaphore hold at every step.         *)
LEMMA CoreInvariant == Spec => []Core
<1>1. Core /\ [Next]_vars => Core'
  <2>1. Core /\ UNCHANGED vars => Core'
    BY DEF Core, TypeOK, Quiet, Idle, Batches, Tree, Counted, SemaphoreExact,
       holders, inBatch, vars
  <2> QED
    BY <2>1, CoreGoroutine, CoreResolver, CoreWrites, CoreRound, CoreEntry, CoreHandler
    DEF Next, System, Stitching
<1> QED
  BY <1>1, CoreInit, PTL DEF Spec

(* Every variable keeps its type: no permit is given back twice, every     *)
(* error is written to a place of the query.                               *)
THEOREM Typing == Spec => []TypeOK
  BY CoreInvariant, PTL DEF Core

(* The number of permits out is the number of goroutines between Acquire   *)
(* and their deferred Release, and never exceeds the limit, on every path  *)
(* through entry points, resolvers, failures and cancellation.             *)
THEOREM ParallelismBounded == Spec => []SemaphoreExact
<1>1. Core => SemaphoreExact
  BY DEF Core, Counted
<1> QED
  BY <1>1, CoreInvariant, PTL

(* When the handler returns, other than by a panic, no goroutine it        *)
(* started is left and every permit has been given back.                   *)
THEOREM NothingLeaks == Spec => []NothingLeftRunning
<1>1. Core => NothingLeftRunning
  <2> SUFFICES ASSUME Core, phase \in {"stitch", "ok", "error"}
               PROVE  sema = 0 /\ \A x \in Places : g[x] \in {"none", "done"}
    BY DEF NothingLeftRunning
  <2>1. Idle
    BY DEF Core, Quiet
  <2>2. holders = {}
    BY <2>1 DEF Idle, holders
  <2> QED
    BY <2>1, <2>2, FS_EmptySet, ParallelismAssumption
    DEF Core, TypeOK, Counted, SemaphoreExact, Idle
<1> QED
  BY <1>1, CoreInvariant, PTL

-----------------------------------------------------------------------------
(* Where patches come from.                                                *)

(* The steps that make patches, and what they make.  Every other step      *)
(* leaves errp alone and makes no patch.                                   *)
makes(kids, x) ==
    /\ kids \subseteq Children(x)
    /\ \A s \in kids : st[s] = "none" /\ st'[s] = "queued"
    /\ \A s \in kids : errp'[s] = errPatchFor(s, errp'[x])
    /\ \A s \in Slots \ kids : (st'[s] = "none" <=> st[s] = "none") /\ errp'[s] = errp[s]
    /\ x \in Slots => st[x] = "batched" /\ st'[x] = "done" /\ errp'[x] = errp[x]
    /\ x \in Reqs => g[x] = "call" /\ errp'[x] = errPatchFor(x, Nil)
    /\ \A r \in Reqs \ {x} : errp'[r] = errp[r]

makesNone ==
    /\ errp' = errp
    /\ \A s \in Slots : st'[s] = "none" <=> st[s] = "none"

(* Every step makes patches below one place, or none.                      *)
LEMMA Making ==
  ASSUME Core, Next
  PROVE  makesNone \/ \E x \in Places : \E kids \in SUBSET Slots : makes(kids, x)
<1> USE QueryAssumption DEF Core
<1>1. ASSUME NEW p \in Slots, WriteValue(p)
      PROVE  \E kids \in SUBSET Slots : makes(kids, p)
  <2>1. PICK kids \in SUBSET Children(p) :
          /\ st' = [s \in Slots |-> IF s = p THEN "done"
                                    ELSE IF s \in kids THEN "queued" ELSE st[s]]
          /\ errp' = withPatches(kids, errp, errp[p])
    BY <1>1 DEF WriteValue
  <2>2. st[p] = "batched" /\ p \in Places
    BY <1>1 DEF WriteValue, atPatch, Places
  <2>3. \A s \in kids : s \in Slots /\ st[s] = "none" /\ Up[s] = p /\ s # p
    BY <2>1, <2>2 DEF Tree, Children
  <2>4. \A x \in Places : errp'[x] = IF x \in kids THEN errPatchFor(x, errp[p]) ELSE errp[x]
    BY <2>1 DEF withPatches
  <2>5. makes(kids, p)
    BY <2>1, <2>2, <2>3, <2>4 DEF makes, Children, Places, TypeOK
  <2> QED
    BY <2>3, <2>5
<1>2. ASSUME NEW r \in Reqs, MethodReturns(r)
      PROVE  \E kids \in SUBSET Slots : makes(kids, r)
  <2>1. PICK kids \in SUBSET Children(r) :
          /\ st' = [s \in Slots |-> IF s \in kids THEN "queued" ELSE st[s]]
          /\ errp' = withPatches(kids, [errp EXCEPT ![r] = errPatchFor(r, Nil)],
                                 errPatchFor(r, Nil))
    BY <1>2 DEF MethodReturns
  <2>2. g[r] = "call" /\ r \in Places /\ r \notin Slots
    BY <1>2 DEF MethodReturns, calling, Places
  <2>3. \A s \in kids : s \in Slots /\ st[s] = "none" /\ Up[s] = r
    BY <2>1, <2>2 DEF Tree, Children
  <2>4. \A x \in Places : errp'[x] = IF x \in kids THEN errPatchFor(x, errPatchFor(r, Nil))
                                     ELSE IF x = r THEN errPatchFor(r, Nil) ELSE errp[x]
    BY <2>1, <2>2 DEF withPatches, TypeOK
  <2>5. makes(kids, r)
    BY <2>1, <2>2, <2>3, <2>4 DEF makes, Children, Places, TypeOK
  <2> QED
    BY <2>3, <2>5
<1>3. ASSUME NEW r \in Reqs, MethodFails(r) \/ ResponseUnusable(r) PROVE makesNone
  BY <1>3 DEF MethodFails, ResponseUnusable, makesNone
<1>4. CASE StartRound
  BY <1>4 DEF StartRound, makesNone, queued, TypeOK
<1>5. CASE BadParams \/ WaitRound
  BY <1>5 DEF BadParams, WaitRound, makesNone
<1>6. ASSUME NEW x \in Places, Goroutine(x) PROVE makesNone
  BY <1>6 DEF Goroutine, Acquire, AcquireFails, RecordError, makesNone
<1>7. ASSUME NEW b \in Slots, ResolverGoroutine(b) PROVE makesNone
  BY <1>7 DEF ResolverGoroutine, ResolverFails, ResolverReturns, BatchReturns, makesNone
<1>8. ASSUME NEW p \in Slots, WriteError(p) \/ SkipValue(p) \/ FormatFails(p)
      PROVE  makesNone
  BY <1>8 DEF WriteError, SkipValue, FormatFails, atPatch, makesNone, TypeOK
<1>9. CASE Reject \/ Accept \/ WaitEntries \/ Finish \/ Cancel
  BY <1>9 DEF Reject, Accept, WaitEntries, Finish, Cancel, makesNone
<1> QED
  BY <1>1, <1>2, <1>3, <1>4, <1>5, <1>6, <1>7, <1>8, <1>9
  DEF Next, System, Stitching, EntryPoint, AtPatch, Places

(* A patch's errPatch is its own clause or that of what it hangs below.    *)
LEMMA ChainInvariant == Spec => []Chain
<1>1. Init => Chain
  BY DEF Init, StitcherInit, Chain
<1>2. Core /\ Chain /\ [Next]_vars => Chain'
  <2> SUFFICES ASSUME Core, Chain, [Next]_vars PROVE Chain'
    OBVIOUS
  <2> USE QueryAssumption DEF Core, Chain
  <2>1. ASSUME NEW x \in Places, NEW kids \in SUBSET Slots, makes(kids, x) PROVE Chain'
    <3> SUFFICES ASSUME NEW s \in Slots, st'[s] # "none"
                 PROVE  errp'[s] = errPatchFor(s, errp'[Up[s]])
      OBVIOUS
    <3>1. CASE s \in kids
      BY <2>1, <3>1 DEF makes, Children
    <3>2. CASE s \notin kids
      <4>1. st[s] # "none" /\ errp'[s] = errp[s]
        BY <2>1, <3>2 DEF makes
      <4>2. errp'[Up[s]] = errp[Up[s]]
        <5>1. CASE Up[s] \in Slots
          <6>1. Up[s] \notin kids
            BY <2>1, <4>1, <5>1 DEF makes, Tree
          <6> QED
            BY <2>1, <5>1, <6>1 DEF makes
        <5>2. CASE Up[s] \in Reqs
          <6>1. Up[s] # x
            BY <2>1, <4>1, <5>2 DEF makes, Tree
          <6> QED
            BY <2>1, <5>2, <6>1 DEF makes
        <5> QED
          BY <5>1, <5>2
      <4> QED
        BY <4>1, <4>2
    <3> QED
      BY <3>1, <3>2
  <2>2. CASE makesNone
    BY <2>2 DEF makesNone
  <2>3. CASE UNCHANGED vars
    BY <2>3 DEF vars
  <2> QED
    BY <2>1, <2>2, <2>3, Making
<1> QED
  BY <1>1, <1>2, CoreInvariant, PTL DEF Spec

-----------------------------------------------------------------------------
(* Patches of one group, made under masks that agree on catching, agree on *)
(* whether they have an errPatch.                                          *)
LEMMA GroupsAgree ==
  ASSUME Core, Chain, Agreed, UniformMasks, NEW s \in queued, NEW t \in queued,
         sameGroup(s, t)
  PROVE  errp[s] = Nil <=> errp[t] = Nil
<1> USE QueryAssumption DEF Core
<1>1. /\ s \in Slots /\ t \in Slots /\ st[s] # "none" /\ st[t] # "none"
      /\ Up[s] \in Slots \cup Reqs /\ Up[t] \in Slots \cup Reqs
  BY DEF queued
<1>2. shouldCatch(s) <=> shouldCatch(t)
  BY <1>1 DEF sameGroup, UniformMasks
<1>3. /\ errp[s] = IF shouldCatch(s) THEN s ELSE errp[Up[s]]
      /\ errp[t] = IF shouldCatch(t) THEN t ELSE errp[Up[t]]
  BY <1>1 DEF Chain, errPatchFor
<1>4. errp[Up[s]] = Nil <=> errp[Up[t]] = Nil
  <2>1. Up[s] \in Slots => inBatch(Up[s]) /\ lead[Up[s]] \in Slots
    BY <1>1 DEF Tree, Batches, inBatch
  <2>2. Up[t] \in Slots => inBatch(Up[t]) /\ lead[Up[t]] \in Slots
    BY <1>1 DEF Tree, Batches, inBatch
  <2>3. CASE Up[s] \in Reqs
    BY <1>1, <2>2, <2>3 DEF sameGroup, Meta
  <2>4. CASE Up[s] \in Slots
    <3>1. Up[t] \in Slots /\ lead[Up[s]] = lead[Up[t]]
      BY <1>1, <2>1, <2>4 DEF sameGroup, Meta
    <3>2. errp[Up[s]] = Nil <=> errp[lead[Up[s]]] = Nil
      BY <2>1, <2>4 DEF Agreed
    <3>3. errp[Up[t]] = Nil <=> errp[lead[Up[t]]] = Nil
      BY <2>2, <3>1 DEF Agreed
    <3> QED
      BY <3>1, <3>2, <3>3
  <2> QED
    BY <1>1, <2>3, <2>4
<1>5. s # Nil /\ t # Nil
  BY <1>1
<1> QED
  BY <1>2, <1>3, <1>4, <1>5

(* A step that starts no batch and no error writing leaves that so.        *)
LEMMA AgreedKept ==
  ASSUME Core, Agreed, phase' # "panic", lead' = lead,
         \A b \in Slots : g'[b] = "fail" => g[b] = "fail",
         \A s \in Slots : inBatch(s)' => inBatch(s),
         \A s \in Slots : inBatch(s) => errp'[s] = errp[s]
  PROVE  Agreed'
<1>1. \A b \in Slots : g[b] = "fail" => inBatch(b)
  BY DEF Core, Batches
<1>2. \A s \in Slots : inBatch(s) => lead[s] \in Slots /\ inBatch(lead[s])
  BY DEF Core, Batches
<1> QED
  BY <1>1, <1>2 DEF Agreed, NoPanic

(* If masks that share a relation and a params pointer also agree on       *)
(* whether they catch, no error write meets a nil errPatch: the decision   *)
(* the stitcher takes by batch[0] is right for the whole batch.            *)
THEOREM UniformMasksNeverPanic == ASSUME UniformMasks PROVE Spec => []NoPanic
<1>1. Init => Agreed
  BY QueryAssumption DEF Init, StitcherInit, Agreed, NoPanic, inBatch, Places
<1>2. Core /\ Chain /\ Agreed /\ [Next]_vars => Agreed'
  <2> SUFFICES ASSUME Core, Chain, Agreed, [Next]_vars PROVE Agreed'
    OBVIOUS
  <2> USE QueryAssumption DEF Core, Agreed, NoPanic
  <2>1. CASE StartRound
    <3>1. PICK first \in [queued -> queued] :
            /\ lead' = [s \in Slots |-> IF s \in queued THEN first[s] ELSE lead[s]]
            /\ g' = [x \in Places |-> IF \E s \in queued : first[s] = x
                                      THEN "acquire" ELSE g[x]]
            /\ \A s \in queued : sameGroup(s, first[s])
      BY <2>1 DEF StartRound
    <3>2. /\ st' = [s \in Slots |-> IF s \in queued THEN "batched" ELSE st[s]]
          /\ phase' = "round" /\ errp' = errp
      BY <2>1 DEF StartRound
    <3>3. ASSUME NEW s \in Slots, inBatch(s)'
          PROVE  errp'[s] = Nil <=> errp'[lead'[s]] = Nil
      <4>1. CASE s \in queued
        BY <3>1, <3>2, <4>1, GroupsAgree
      <4>2. CASE s \notin queued
        BY <3>1, <3>2, <3>3, <4>2 DEF inBatch
      <4> QED
        BY <4>1, <4>2
    <3>4. ASSUME NEW b \in Slots, g'[b] = "fail" PROVE errp'[b] # Nil
      BY <3>1, <3>2, <3>4 DEF Places
    <3> QED
      BY <3>2, <3>3, <3>4
  <2>2. ASSUME NEW p \in Slots, WriteError(p) PROVE Agreed'
    <3>1. inBatch(p) /\ lead[p] \in Slots /\ g[lead[p]] = "fail"
      BY <2>2 DEF WriteError, atPatch, inBatch, Batches
    <3>2. errp[p] # Nil
      BY <3>1
    <3> QED
      BY <2>2, <3>1, <3>2 DEF WriteError, TypeOK, inBatch
  <2>3. ASSUME NEW b \in Slots, ResolverFails(b) PROVE Agreed'
    <3>1. UNCHANGED <<phase, st, lead, errp>>
      BY <2>3 DEF ResolverFails
    <3>2. \A c \in Slots : g'[c] = "fail" => g[c] = "fail" \/ errp[c] # Nil
      BY <2>3 DEF ResolverFails, TypeOK, Places
    <3> QED
      BY <3>1, <3>2 DEF inBatch
  <2>4. ASSUME NEW p \in Slots, WriteValue(p) PROVE Agreed'
    <3>1. PICK kids \in SUBSET Children(p) :
            /\ st' = [s \in Slots |-> IF s = p THEN "done"
                                      ELSE IF s \in kids THEN "queued" ELSE st[s]]
            /\ errp' = withPatches(kids, errp, errp[p])
      BY <2>4 DEF WriteValue
    <3>2. UNCHANGED <<phase, g, lead>> /\ st[p] = "batched"
      BY <2>4 DEF WriteValue, atPatch
    <3>3. \A s \in kids : st[s] = "none" /\ s \in Slots
      BY <3>1, <3>2 DEF Tree, Children
    <3>4. \A s \in Slots : inBatch(s) => errp'[s] = errp[s]
      BY <3>1, <3>3 DEF withPatches, inBatch, Places
    <3>5. \A s \in Slots : inBatch(s)' => inBatch(s)
      BY <3>1, <3>2 DEF inBatch, TypeOK
    <3> QED
      BY <3>2, <3>4, <3>5, AgreedKept
  <2>5. ASSUME NEW r \in Reqs, MethodReturns(r) PROVE Agreed'
    <3>1. PICK kids \in SUBSET Children(r) :
            /\ st' = [s \in Slots |-> IF s \in kids THEN "queued" ELSE st[s]]
            /\ errp' = withPatches(kids, [errp EXCEPT ![r] = errPatchFor(r, Nil)],
                                   errPatchFor(r, Nil))
      BY <2>5 DEF MethodReturns
    <3>2. UNCHANGED <<phase, lead>> /\ g[r] = "call" /\ g' = [g EXCEPT ![r] = "done"]
      BY <2>5 DEF MethodReturns, calling
    <3>3. \A s \in kids : st[s] = "none" /\ s \in Slots
      BY <3>1, <3>2 DEF Tree, Children
    <3>4. \A s \in Slots : inBatch(s) => errp'[s] = errp[s]
      BY <3>1, <3>3 DEF withPatches, inBatch, Places, TypeOK
    <3>5. \A s \in Slots : inBatch(s)' => inBatch(s)
      BY <3>1 DEF inBatch, TypeOK
    <3> QED
      BY <3>2, <3>4, <3>5, AgreedKept DEF TypeOK
  <2>6. ASSUME NEW x \in Places, Goroutine(x) PROVE Agreed'
    <3>1. UNCHANGED <<phase, lead, errp>> /\ ~Returned
      BY <2>6 DEF Goroutine, Acquire, AcquireFails, RecordError
    <3>2. \A c \in Slots : g'[c] = "fail" => g[c] = "fail"
      BY <2>6 DEF Goroutine, Acquire, AcquireFails, RecordError, TypeOK, Places
    <3>3. \A s \in Slots : inBatch(s)' => inBatch(s)
      BY <2>6 DEF Goroutine, Acquire, AcquireFails, RecordError, TypeOK, inBatch
    <3> QED
      BY <3>1, <3>2, <3>3, AgreedKept DEF Returned
  <2>7. ASSUME NEW b \in Slots, ResolverReturns(b) \/ BatchReturns(b) PROVE Agreed'
    <3>1. UNCHANGED <<phase, lead, errp>> /\ ~Returned
      BY <2>7 DEF ResolverReturns, BatchReturns
    <3>2. \A c \in Slots : g'[c] = "fail" => g[c] = "fail"
      BY <2>7 DEF ResolverReturns, BatchReturns, TypeOK, Places
    <3>3. \A s \in Slots : inBatch(s)' => inBatch(s)
      BY <2>7 DEF ResolverReturns, BatchReturns, TypeOK, inBatch
    <3> QED
      BY <3>1, <3>2, <3>3, AgreedKept DEF Returned
  <2>8. ASSUME NEW p \in Slots, SkipValue(p) \/ FormatFails(p) PROVE Agreed'
    <3>1. UNCHANGED <<phase, lead, errp>> /\ ~Returned
      BY <2>8 DEF SkipValue, FormatFails, atPatch
    <3>2. \A c \in Slots : g'[c] = "fail" => g[c] = "fail"
      BY <2>8 DEF SkipValue, FormatFails, atPatch, TypeOK, Places
    <3>3. \A s \in Slots : inBatch(s)' => inBatch(s)
      BY <2>8 DEF SkipValue, FormatFails, atPatch, TypeOK, inBatch
    <3> QED
      BY <3>1, <3>2, <3>3, AgreedKept DEF Returned
  <2>9. ASSUME NEW r \in Reqs, MethodFails(r) \/ ResponseUnusable(r) PROVE Agreed'
    <3>1. UNCHANGED <<phase, lead, errp>> /\ ~Returned
      BY <2>9 DEF MethodFails, ResponseUnusable, calling, Returned
    <3>2. \A c \in Slots : g'[c] = "fail" => g[c] = "fail"
      BY <2>9 DEF MethodFails, ResponseUnusable, calling, TypeOK, Places
    <3>3. \A s \in Slots : inBatch(s)' => inBatch(s)
      BY <2>9 DEF MethodFails, ResponseUnusable, calling, TypeOK, inBatch
    <3> QED
      BY <3>1, <3>2, <3>3, AgreedKept DEF Returned
  <2>10. CASE BadParams \/ WaitRound
    BY <2>10, AgreedKept DEF BadParams, WaitRound, inBatch
  <2>11. CASE Reject \/ Accept \/ WaitEntries \/ Finish \/ Cancel
    BY <2>11, AgreedKept
    DEF Reject, Accept, WaitEntries, Finish, Cancel, Places, TypeOK, inBatch
  <2>12. CASE UNCHANGED vars
    BY <2>12, AgreedKept DEF vars, inBatch
  <2> QED
    BY <2>1, <2>2, <2>3, <2>4, <2>5, <2>6, <2>7, <2>8, <2>9, <2>10, <2>11, <2>12
    DEF Next, System, Stitching, EntryPoint, ResolverGoroutine, AtPatch
<1>3. Agreed => NoPanic
  BY DEF Agreed
<1> QED
  BY <1>1, <1>2, <1>3, CoreInvariant, ChainInvariant, PTL DEF Spec

-----------------------------------------------------------------------------
(* A step that neither starts a batch nor calls a resolver sends nothing,  *)
(* as long as no goroutine goes back to before its call.                   *)
LEMMA OnceKept ==
  ASSUME Core, Once, lead' = lead, calls' = calls,
         \A b \in Slots : g'[b] \in {"none", "acquire", "call"} =>
                           g[b] \in {"none", "acquire", "call"}
  PROVE  Once'
  BY DEF Core, TypeOK, Once

(* Every slot is sent to a resolver at most once, whatever fails, in every *)
(* query and under every schedule: errors are not retried and patches do   *)
(* not leak into the next round.                                           *)
THEOREM EachSlotResolvedOnce == Spec => []ResolvedOnce
<1>1. Init => Once
  BY DEF Init, StitcherInit, Once
<1>2. Core /\ Once /\ [Next]_vars => Once'
  <2> SUFFICES ASSUME Core, Once, [Next]_vars PROVE Once'
    OBVIOUS
  <2> USE QueryAssumption DEF Core
  <2>1. CASE StartRound
    <3>1. PICK first \in [queued -> queued] :
            /\ lead' = [s \in Slots |-> IF s \in queued THEN first[s] ELSE lead[s]]
            /\ g' = [x \in Places |-> IF \E s \in queued : first[s] = x
                                      THEN "acquire" ELSE g[x]]
      BY <2>1 DEF StartRound
    <3>2. calls' = calls
      BY <2>1 DEF StartRound
    <3> SUFFICES ASSUME NEW s \in Slots
                 PROVE  /\ calls[s] <= 1
                        /\ lead'[s] = Nil \/ g'[lead'[s]] \in {"none", "acquire", "call"}
                               => calls[s] = 0
      BY <3>2 DEF Once
    <3>3. CASE ~inBatch(s)
      BY <3>3 DEF Batches, Once
    <3>4. CASE inBatch(s)
      <4>1. lead'[s] = lead[s] /\ lead[s] \in Slots /\ lead[s] \notin queued
        BY <3>1, <3>4 DEF Batches, inBatch, queued
      <4>2. g'[lead[s]] = g[lead[s]]
        BY <3>1, <4>1 DEF Places
      <4> QED
        BY <4>1, <4>2 DEF Once
    <3> QED
      BY <3>3, <3>4
  <2>2. ASSUME NEW b \in Slots, ResolverFails(b) \/ ResolverReturns(b) PROVE Once'
    <3>1. calls' = called(b) /\ lead' = lead /\ g[b] = "call"
      BY <2>2 DEF ResolverFails, ResolverReturns
    <3>2. PICK v \in {"err", "fail", "ok"} : g' = [g EXCEPT ![b] = v]
      BY <2>2 DEF ResolverFails, ResolverReturns
    <3> SUFFICES ASSUME NEW s \in Slots
                 PROVE  /\ calls'[s] <= 1
                        /\ lead[s] = Nil \/ g'[lead[s]] \in {"none", "acquire", "call"}
                               => calls'[s] = 0
      BY <3>1 DEF Once
    <3>3. CASE lead[s] = b
      BY <3>1, <3>2, <3>3 DEF Once, called, batch, TypeOK, Places
    <3>4. CASE lead[s] # b
      BY <3>1, <3>2, <3>4 DEF Once, called, batch, TypeOK, Places
    <3> QED
      BY <3>3, <3>4
  <2>3. ASSUME NEW b \in Slots, BatchReturns(b) PROVE Once'
    BY <2>3, OnceKept DEF BatchReturns, TypeOK
  <2>4. ASSUME NEW x \in Places, Goroutine(x) PROVE Once'
    <3>1. UNCHANGED <<lead, calls>>
      BY <2>4 DEF Goroutine, Acquire, AcquireFails, RecordError
    <3>2. \A b \in Slots : g'[b] \in {"none", "acquire", "call"} =>
                             g[b] \in {"none", "acquire", "call"}
      BY <2>4 DEF Goroutine, Acquire, AcquireFails, RecordError, TypeOK, Places
    <3> QED
      BY <3>1, <3>2, OnceKept
  <2>5. ASSUME NEW p \in Slots, AtPatch(p) PROVE Once'
    <3>1. UNCHANGED <<lead, calls>>
      BY <2>5 DEF AtPatch, WriteError, WriteValue, SkipValue, FormatFails
    <3>2. g' = g \/ g' = [g EXCEPT ![lead[p]] = "err"]
      BY <2>5 DEF AtPatch, WriteError, WriteValue, SkipValue, FormatFails
    <3> QED
      BY <3>1, <3>2, OnceKept DEF TypeOK, Places
  <2>6. ASSUME NEW r \in Reqs, EntryPoint(r) PROVE Once'
    <3>1. UNCHANGED <<lead, calls>>
      BY <2>6 DEF EntryPoint, MethodFails, MethodReturns, ResponseUnusable
    <3>2. PICK v \in {"err", "done"} : g' = [g EXCEPT ![r] = v]
      BY <2>6 DEF EntryPoint, MethodFails, MethodReturns, ResponseUnusable
    <3> QED
      BY <3>1, <3>2, OnceKept DEF TypeOK, Places
  <2>7. CASE Accept
    BY <2>7, OnceKept DEF Accept, TypeOK, Places
  <2>8. CASE BadParams \/ WaitRound \/ Reject \/ WaitEntries \/ Finish \/ Cancel
    BY <2>8, OnceKept DEF BadParams, WaitRound, Reject, WaitEntries, Finish, Cancel
  <2>9. CASE UNCHANGED vars
    BY <2>9, OnceKept DEF vars
  <2> QED
    BY <2>1, <2>2, <2>3, <2>4, <2>5, <2>6, <2>7, <2>8, <2>9
    DEF Next, System, Stitching, ResolverGoroutine
<1>3. Once => ResolvedOnce
  BY DEF Once, ResolvedOnce
<1> QED
  BY <1>1, <1>2, <1>3, CoreInvariant, PTL DEF Spec

(* An error has been written only where the patch is worked off.           *)
LEMMA AboveInvariant == Spec => []Above
<1>1. Init => Above
  BY QueryAssumption DEF Init, StitcherInit, Above, IsError, Places
<1>2. Core /\ Chain /\ Above /\ [Next]_vars => Above'
  <2> SUFFICES ASSUME Core, Chain, Above, [Next]_vars PROVE Above'
    OBVIOUS
  <2> USE QueryAssumption DEF Core
  <2>a. \A s \in Slots : st[s] = "done" => st'[s] = "done"
    <3>1. ASSUME Next PROVE \A s \in Slots : st[s] = "done" => st'[s] = "done"
      <4>1. CASE StartRound
        BY <4>1 DEF StartRound, queued, TypeOK
      <4>2. ASSUME NEW p \in Slots, AtPatch(p)
            PROVE  \A s \in Slots : st[s] = "done" => st'[s] = "done"
        <5>1. CASE WriteValue(p)
          <6>1. \A s \in Children(p) : st[s] = "none"
            BY <5>1 DEF WriteValue, atPatch, Tree, Children
          <6> QED
            BY <5>1, <6>1 DEF WriteValue, TypeOK
        <5>2. CASE WriteError(p) \/ SkipValue(p) \/ FormatFails(p)
          BY <5>2 DEF WriteError, SkipValue, FormatFails, TypeOK
        <5> QED
          BY <4>2, <5>1, <5>2 DEF AtPatch
      <4>3. ASSUME NEW r \in Reqs, EntryPoint(r)
            PROVE  \A s \in Slots : st[s] = "done" => st'[s] = "done"
        <5>1. CASE MethodReturns(r)
          <6>1. \A s \in Children(r) : st[s] = "none"
            BY <5>1 DEF MethodReturns, calling, Tree, Children
          <6> QED
            BY <5>1, <6>1 DEF MethodReturns, TypeOK
        <5>2. CASE MethodFails(r) \/ ResponseUnusable(r)
          BY <5>2 DEF MethodFails, ResponseUnusable
        <5> QED
          BY <4>3, <5>1, <5>2 DEF EntryPoint
      <4>4. ASSUME NEW x \in Places, Goroutine(x) PROVE st' = st
        BY <4>4 DEF Goroutine, Acquire, AcquireFails, RecordError
      <4>5. ASSUME NEW b \in Slots, ResolverGoroutine(b) PROVE st' = st
        BY <4>5 DEF ResolverGoroutine, ResolverFails, ResolverReturns, BatchReturns
      <4>6. CASE BadParams \/ WaitRound \/ Reject \/ Accept \/ WaitEntries \/ Finish
                 \/ Cancel
        BY <4>6 DEF BadParams, WaitRound, Reject, Accept, WaitEntries, Finish, Cancel
      <4> QED
        BY <3>1, <4>1, <4>2, <4>3, <4>4, <4>5, <4>6 DEF Next, System, Stitching
    <3> QED
      BY <3>1 DEF vars
  <2>b. \/ field' = field
        \/ \E p \in Slots : /\ st[p] # "none" /\ st'[p] = "done" /\ errp[p] # Nil
                            /\ field' = [field EXCEPT ![errp[p]] = p]
        \/ \E p \in Slots : field' = [field EXCEPT ![p] = "value"]
    <3>1. field' = field \/ \E p \in Slots : AtPatch(p)
      BY DEF Next, System, Stitching, Reject, Accept, WaitEntries, Finish, Cancel,
         EntryPoint, MethodFails, MethodReturns, ResponseUnusable, StartRound,
         BadParams, WaitRound, Goroutine, Acquire, AcquireFails, RecordError,
         ResolverGoroutine, ResolverFails, ResolverReturns, BatchReturns, vars
    <3>2. ASSUME NEW p \in Slots, AtPatch(p)
          PROVE  \/ field' = field
                 \/ /\ st[p] # "none" /\ st'[p] = "done" /\ errp[p] # Nil
                    /\ field' = [field EXCEPT ![errp[p]] = p]
                 \/ field' = [field EXCEPT ![p] = "value"]
      <4>1. CASE WriteError(p)
        BY <4>1 DEF WriteError, atPatch, TypeOK
      <4>2. CASE WriteValue(p) \/ SkipValue(p) \/ FormatFails(p)
        BY <4>2 DEF WriteValue, SkipValue, FormatFails
      <4> QED
        BY <3>2, <4>1, <4>2 DEF AtPatch
    <3> QED
      BY <3>1, <3>2
  <2>1. \A s \in Slots : (IsError(field[s]) => st[s] = "done")'
    <3>1. \A p \in Slots : st[p] # "none" /\ st'[p] = "done" /\ errp[p] \in Slots =>
             st'[errp[p]] = "done"
      BY <2>a DEF Above
    <3> QED
      BY <2>a, <2>b, <3>1 DEF Above, IsError, TypeOK, Places
  <2>2. ASSUME NEW x \in Places, NEW kids \in SUBSET Slots, makes(kids, x)
        PROVE  /\ \A s \in Slots : (st[s] # "none" /\ errp[s] \in Slots =>
                                       errp[s] = s \/ st[errp[s]] = "done")'
               /\ \A r \in Reqs : (errp[r] \in {r, Nil})'
    <3>1. ASSUME NEW s \in kids, errp'[s] \in Slots, errp'[s] # s
          PROVE  st'[errp'[s]] = "done"
      <4>1. errp'[s] = errp'[x]
        BY <2>2, <3>1 DEF makes, errPatchFor
      <4>2. x \in Slots
        BY <2>2, <3>1, <4>1 DEF makes, errPatchFor, Places
      <4>3. errp'[x] = errp[x] /\ st[x] = "batched" /\ st'[x] = "done"
        BY <2>2, <4>2 DEF makes
      <4> QED
        BY <2>a, <3>1, <4>1, <4>2, <4>3 DEF Above
    <3>2. ASSUME NEW s \in Slots \ kids, st'[s] # "none", errp'[s] \in Slots
          PROVE  errp'[s] = s \/ st'[errp'[s]] = "done"
      BY <2>2, <2>a, <3>2 DEF makes, Above
    <3>3. \A r \in Reqs : errp'[r] \in {r, Nil}
      BY <2>2 DEF makes, Above, errPatchFor
    <3> QED
      BY <3>1, <3>2, <3>3
  <2>3. ASSUME makesNone
        PROVE  /\ \A s \in Slots : (st[s] # "none" /\ errp[s] \in Slots =>
                                       errp[s] = s \/ st[errp[s]] = "done")'
               /\ \A r \in Reqs : (errp[r] \in {r, Nil})'
    BY <2>3, <2>a DEF makesNone, Above
  <2>4. CASE UNCHANGED vars
    BY <2>4 DEF vars, Above, IsError
  <2> QED
    BY <2>1, <2>2, <2>3, <2>4, Making DEF Above
<1> QED
  BY <1>1, <1>2, CoreInvariant, ChainInvariant, PTL DEF Spec

(* No value is ever written over an error.                                 *)
THEOREM ErrorsAreFinal == Spec => ErrorsStick
<1>1. Core /\ Above /\ [Next]_vars =>
        [\A q \in Places : IsError(field[q]) => IsError(field'[q])]_vars
  <2> SUFFICES ASSUME Core, Above, Next, NEW q \in Places, IsError(field[q])
               PROVE  IsError(field'[q])
    OBVIOUS
  <2> USE QueryAssumption DEF Core
  <2>1. \/ field' = field
        \/ \E p \in Slots : field' = [field EXCEPT ![errp[p]] = p]
        \/ \E p \in Slots : st[p] = "batched" /\ field' = [field EXCEPT ![p] = "value"]
    BY DEF Next, System, Stitching, Reject, Accept, WaitEntries, Finish, Cancel,
       EntryPoint, MethodFails, MethodReturns, ResponseUnusable, StartRound, BadParams,
       WaitRound, Goroutine, Acquire, AcquireFails, RecordError, ResolverGoroutine,
       ResolverFails, ResolverReturns, BatchReturns, AtPatch, WriteError, WriteValue,
       SkipValue, FormatFails, atPatch
  <2>2. q \in Slots => st[q] = "done"
    BY DEF Above
  <2> QED
    BY <2>1, <2>2 DEF TypeOK, IsError, Places
<1> QED
  BY <1>1, CoreInvariant, AboveInvariant, PTL DEF Spec, ErrorsStick
=============================================================================
