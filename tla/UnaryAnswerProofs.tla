-------------------------- MODULE UnaryAnswerProofs --------------------------
(***************************************************************************)
(* The answer to Fetch and Do, for every query: what a caller sees, which  *)
(* slots are filled, and which slots are resolved together.                *)
(***************************************************************************)
EXTENDS UnaryHandlerProofs

-----------------------------------------------------------------------------
(* The query, read upwards.                                                *)

(* What is met on the way up from x: x, and what is met from the place it  *)
(* hangs below, if the way goes on from x.                                 *)
LEMMA Upward ==
  ASSUME NEW S \in SUBSET Slots, NEW x \in Places
  PROVE  /\ upward(x, S) \subseteq Places /\ x \in upward(x, S)
         /\ \A s \in upward(x, S) \cap S : Up[s] \in upward(x, S)
         /\ x \notin S => upward(x, S) = {x}
         /\ x \in S => upward(x, S) = {x} \cup upward(Up[x], S)
<1> USE QueryAssumption DEF Places
<1>1. ASSUME NEW y \in Places
      PROVE  /\ upward(y, S) \subseteq Places /\ y \in upward(y, S)
             /\ \A s \in upward(y, S) \cap S : Up[s] \in upward(y, S)
  BY DEF upward
<1>2. ASSUME NEW C \in SUBSET Places, x \in C, \A s \in C \cap S : Up[s] \in C
      PROVE  upward(x, S) \subseteq C
  BY <1>2 DEF upward
<1>3. ASSUME x \notin S PROVE upward(x, S) = {x}
  <2>1. upward(x, S) \subseteq {x}
    BY <1>2, <1>3
  <2> QED
    BY <1>1, <2>1
<1>4. ASSUME x \in S PROVE upward(x, S) = {x} \cup upward(Up[x], S)
  <2>1. Up[x] \in Places
    BY <1>4
  <2>2. upward(x, S) \subseteq {x} \cup upward(Up[x], S)
    <3> DEFINE C == {x} \cup upward(Up[x], S)
    <3>1. C \in SUBSET Places /\ x \in C /\ \A s \in C \cap S : Up[s] \in C
      BY <1>1, <2>1
    <3> HIDE DEF C
    <3>2. upward(x, S) \subseteq C
      BY <1>2, <3>1
    <3> QED
      BY <3>2 DEF C
  <2>3. upward(Up[x], S) \subseteq upward(x, S)
    BY <1>4, <2>1 DEF upward
  <2> QED
    BY <1>1, <2>2, <2>3
<1> QED
  BY <1>1, <1>3, <1>4

(* The nearest clause is that of the place itself or the one above.        *)
LEMMA BoundaryUp ==
  ASSUME NEW x \in Places
  PROVE  /\ Boundary[x] = IF shouldCatch(x) THEN x
                          ELSE IF x \in Reqs THEN Nil ELSE Boundary[Up[x]]
         /\ Boundary[x] \in Places \cup {Nil}
         /\ Boundary[x] # Nil => shouldCatch(Boundary[x]) /\ Boundary[x] \in Line[x]
<1> USE QueryAssumption DEF Places
<1> DEFINE S == {s \in Slots : ~shouldCatch(s)}
           stops(y) == {z \in upward(y, S) : shouldCatch(z)}
<1>a. \A y \in Places : Boundary[y] = IF stops(y) = {} THEN Nil
                                      ELSE CHOOSE z \in stops(y) : TRUE
  BY DEF Boundary
<1>b. S \in SUBSET Slots
  OBVIOUS
<1> HIDE DEF S
<1>1. ASSUME shouldCatch(x) PROVE Boundary[x] = x
  <2>1. x \notin S
    BY <1>1 DEF S
  <2>2. upward(x, S) = {x}
    BY <1>b, <2>1, Upward
  <2>3. stops(x) = {x}
    BY <1>1, <2>2
  <2> QED
    BY <1>a, <2>3
<1>2. ASSUME ~shouldCatch(x), x \in Reqs PROVE Boundary[x] = Nil
  <2>1. x \notin S
    BY <1>2 DEF S
  <2>2. upward(x, S) = {x}
    BY <1>b, <2>1, Upward
  <2>3. stops(x) = {}
    BY <1>2, <2>2
  <2> QED
    BY <1>a, <2>3
<1>3. ASSUME ~shouldCatch(x), x \notin Reqs PROVE Boundary[x] = Boundary[Up[x]]
  <2>1. x \in S /\ Up[x] \in Places
    BY <1>3 DEF S
  <2>2. upward(x, S) = {x} \cup upward(Up[x], S)
    BY <1>b, <2>1, Upward
  <2>3. stops(x) = stops(Up[x])
    BY <1>3, <2>2
  <2> QED
    BY <1>a, <2>1, <2>3
<1>4. Boundary[x] # Nil => Boundary[x] \in stops(x)
  BY <1>a
<1>5. stops(x) \subseteq upward(x, Slots)
  BY DEF upward, S
<1>6. Boundary[x] # Nil => shouldCatch(Boundary[x]) /\ Boundary[x] \in Line[x]
  BY <1>4, <1>5 DEF Line
<1>7. Line[x] \subseteq Places
  BY Upward DEF Line
<1> QED
  BY <1>1, <1>2, <1>3, <1>6, <1>7

(* Slots come from one mask if their keys are equal and so are, up to the  *)
(* elements they belong to, the places they hang below.                    *)
LEMMA SameMaskUp ==
  ASSUME NEW s \in Slots, NEW t \in Slots
  PROVE  t \in SameMask[s] <=>
            /\ Key[s] = Key[t]
            /\ \/ Up[s] \in Reqs /\ Up[s] = Up[t]
               \/ Up[s] \in Slots /\ Up[t] \in Slots /\ Up[t] \in SameMask[Up[s]]
<1> USE QueryAssumption DEF Places
<1> DEFINE linked(a, b, R) ==
             /\ <<a, b>> \in R
             /\ \A r \in R :
                   \/ r[1] \in Reqs /\ r[1] = r[2]
                   \/ /\ r[1] \in Slots /\ r[2] \in Slots /\ Key[r[1]] = Key[r[2]]
                      /\ <<Up[r[1]], Up[r[2]]>> \in R
<1>a. \A a, b \in Slots :
         b \in SameMask[a] <=> \E R \in SUBSET (Line[a] \X Line[b]) : linked(a, b, R)
  BY DEF SameMask
<1>b. \A a \in Slots : Line[a] = {a} \cup Line[Up[a]] /\ Line[Up[a]] \subseteq Places
  BY Upward DEF Line
<1>c. \A a \in Places : a \in Line[a] /\ \A z \in Line[a] \cap Slots : Up[z] \in Line[a]
  BY Upward DEF Line
<1>1. ASSUME NEW R \in SUBSET (Line[s] \X Line[t]), linked(s, t, R)
      PROVE  /\ Key[s] = Key[t]
             /\ \/ Up[s] \in Reqs /\ Up[s] = Up[t]
                \/ Up[s] \in Slots /\ Up[t] \in Slots /\ Up[t] \in SameMask[Up[s]]
  <2> DEFINE Q == R \cap (Line[Up[s]] \X Line[Up[t]])
  <2>1. <<s, t>> \in R /\ <<s, t>>[1] = s /\ <<s, t>>[2] = t
    BY <1>1
  <2>2. Key[s] = Key[t] /\ <<Up[s], Up[t]>> \in R
    BY <1>1, <2>1
  <2>3. <<Up[s], Up[t]>>[1] = Up[s] /\ <<Up[s], Up[t]>>[2] = Up[t]
    OBVIOUS
  <2>4. \/ Up[s] \in Reqs /\ Up[s] = Up[t]
        \/ Up[s] \in Slots /\ Up[t] \in Slots
    BY <1>1, <2>2, <2>3
  <2>5. <<Up[s], Up[t]>> \in Q
    BY <1>c, <2>2
  <2>6. ASSUME NEW r \in Q
        PROVE  \/ r[1] \in Reqs /\ r[1] = r[2]
               \/ /\ r[1] \in Slots /\ r[2] \in Slots /\ Key[r[1]] = Key[r[2]]
                  /\ <<Up[r[1]], Up[r[2]]>> \in Q
    <3>1. r \in R /\ r[1] \in Line[Up[s]] /\ r[2] \in Line[Up[t]]
      OBVIOUS
    <3>2. \/ r[1] \in Reqs /\ r[1] = r[2]
          \/ /\ r[1] \in Slots /\ r[2] \in Slots /\ Key[r[1]] = Key[r[2]]
             /\ <<Up[r[1]], Up[r[2]]>> \in R
      BY <1>1, <3>1
    <3> QED
      BY <1>c, <3>1, <3>2
  <2>7. linked(Up[s], Up[t], Q) /\ Q \in SUBSET (Line[Up[s]] \X Line[Up[t]])
    BY <2>5, <2>6
  <2> HIDE DEF linked, Q
  <2>8. Up[s] \in Slots /\ Up[t] \in Slots => Up[t] \in SameMask[Up[s]]
    BY <1>a, <2>7
  <2> QED
    BY <2>2, <2>4, <2>8
<1>2. ASSUME Key[s] = Key[t], Up[s] \in Reqs, Up[s] = Up[t] PROVE t \in SameMask[s]
  <2> DEFINE Q == {<<s, t>>, <<Up[s], Up[t]>>}
  <2>1. Q \in SUBSET (Line[s] \X Line[t])
    BY <1>b, <1>c
  <2>2. linked(s, t, Q)
    BY <1>2
  <2> QED
    BY <1>a, <2>1, <2>2
<1>3. ASSUME Key[s] = Key[t], Up[s] \in Slots, Up[t] \in Slots, Up[t] \in SameMask[Up[s]]
      PROVE  t \in SameMask[s]
  <2>1. PICK R \in SUBSET (Line[Up[s]] \X Line[Up[t]]) : linked(Up[s], Up[t], R)
    BY <1>a, <1>3
  <2> DEFINE Q == R \cup {<<s, t>>}
  <2>2. Q \in SUBSET (Line[s] \X Line[t])
    BY <1>b, <1>c
  <2>3. ASSUME NEW r \in Q
        PROVE  \/ r[1] \in Reqs /\ r[1] = r[2]
               \/ /\ r[1] \in Slots /\ r[2] \in Slots /\ Key[r[1]] = Key[r[2]]
                  /\ <<Up[r[1]], Up[r[2]]>> \in Q
    <3>1. CASE r \in R
      BY <2>1, <3>1
    <3>2. CASE r = <<s, t>>
      BY <1>3, <2>1, <3>2
    <3> QED
      BY <3>1, <3>2
  <2>4. linked(s, t, Q)
    BY <2>3
  <2> QED
    BY <1>a, <2>2, <2>4
<1> QED
  BY <1>a, <1>1, <1>2, <1>3

-----------------------------------------------------------------------------
(* The parts of the inductive invariant.                                   *)

(* A patch's errPatch is the nearest clause, and an entry point's is there *)
(* when that is the nearest.                                               *)
Bound ==
    \A s \in Slots : st[s] # "none" =>
        /\ errp[s] = Boundary[s]
        /\ errp[s] \in Reqs => errp[errp[s]] = errp[s]

(* A goroutine is named by the first patch of its own batch.               *)
Named == \A b \in Slots : g[b] # "none" => lead[b] = b

(* A call that failed has failed for its whole batch.                      *)
Shared ==
    \A s \in Slots :
        /\ s \in failed => lead[s] # Nil /\ g[lead[s]] \in {"fail", "err", "done"}
        /\ lead[s] # Nil /\ g[lead[s]] = "fail" => s \in failed

(* Errors are where they belong.                                           *)
Placed ==
    /\ \A q \in Places : IsError(field[q]) =>
           field[q] \in failed /\ Boundary[field[q]] = q /\ (q \in Reqs => errp[q] = q)
    /\ phase # "ok" => \A r \in Reqs : IsError(body[r]) =>
           body[r] = r /\ r \in failed /\ shouldCatch(r)

(* What was worked off has left a trace, and what was not is being worked  *)
(* on, or the round fails.                                                 *)
Settled ==
    \A s \in Slots :
        /\ st[s] = "done" =>
              IF s \in failed THEN errp[s] # Nil /\ IsError(field[errp[s]])
              ELSE field[s] # "absent" \/ s \in skipped
        /\ st[s] = "done" => g[lead[s]] \notin {"none", "acquire", "call"}
        /\ st[s] = "batched" => groupErr \/ g[lead[s]] \notin {"none", "done"}

(* An errgroup fails for a reason.                                         *)
Excuse == cancelled \/ broken \/ \E p \in failed : Boundary[p] = Nil

Reasons ==
    /\ groupErr \/ (\E x \in Places : g[x] = "err") => Excuse
    /\ phase \in {"validate", "stitch", "ok"} => ~groupErr

(* Entry points that failed show it, and the others have a body.           *)
Entered ==
    \A r \in Reqs :
        /\ phase = "validate" => r \notin failed
        /\ phase = "entry" =>
              /\ g[r] # "none"
              /\ g[r] = "done" => groupErr \/ body[r] # "absent"
              /\ g[r] \in {"acquire", "call"} => r \notin failed
              /\ r \in failed => groupErr \/ g[r] = "err" \/ shouldCatch(r)
        /\ phase \in {"stitch", "round", "ok"} =>
              /\ body[r] # "absent"
              /\ r \in failed => shouldCatch(r)
        /\ r \in failed /\ shouldCatch(r) => IsError(body[r])

(* A response is ready when nothing is left to resolve, and shows what was *)
(* caught for its entry points.                                            *)
Finished ==
    phase = "ok" =>
        /\ \A s \in Slots : st[s] # "queued"
        /\ \A r \in Reqs : errp[r] = r /\ IsError(field[r]) => IsError(body[r])

(* Patches below one batch, or one entry point, are resolved together.     *)
Together ==
    \A s, t \in Slots : inBatch(s) =>
        /\ g[Meta(s)] \in {"none", "err", "done"}
        /\ st[t] = "queued" => Meta(s) # Meta(t)

-----------------------------------------------------------------------------
(* Errors climb to the nearest clause.                                     *)
LEMMA BoundInvariant == Spec => []Bound
<1>1. Init => Bound
  BY DEF Init, StitcherInit, Bound
<1>2. Core /\ Above /\ Bound /\ [Next]_vars => Bound'
  <2> SUFFICES ASSUME Core, Above, Bound, [Next]_vars PROVE Bound'
    OBVIOUS
  <2> USE QueryAssumption DEF Core
  <2>1. ASSUME NEW x \in Places, NEW kids \in SUBSET Slots, makes(kids, x) PROVE Bound'
    <3>a. Slots \subseteq Places /\ Reqs \subseteq Places /\ x \in Slots \cup Reqs
      BY DEF Places
    <3>1. errp'[x] = Boundary[x] /\ (errp'[x] \in Reqs => errp'[errp'[x]] = errp'[x])
      <4>1. CASE x \in Slots
        BY <2>1, <4>1 DEF makes, Bound
      <4>2. CASE x \in Reqs
        <5>1. errp'[x] = errPatchFor(x, Nil)
          BY <2>1, <4>2 DEF makes
        <5> QED
          BY <4>2, <5>1, BoundaryUp DEF errPatchFor
      <4> QED
        BY <3>a, <4>1, <4>2
    <3>2. ASSUME NEW s \in kids
          PROVE  errp'[s] = Boundary[s] /\ (errp'[s] \in Reqs => errp'[errp'[s]] = errp'[s])
      <4>1. errp'[s] = errPatchFor(s, errp'[x]) /\ Up[s] = x /\ s \in Slots
        BY <2>1 DEF makes, Children
      <4>2. Boundary[s] = errPatchFor(s, Boundary[x])
        BY <3>a, <4>1, BoundaryUp DEF errPatchFor
      <4> QED
        BY <3>1, <4>1, <4>2 DEF errPatchFor
    <3>3. ASSUME NEW s \in Slots \ kids, st'[s] # "none"
          PROVE  errp'[s] = Boundary[s] /\ (errp'[s] \in Reqs => errp'[errp'[s]] = errp'[s])
      <4>1. errp'[s] = errp[s] /\ errp[s] = Boundary[s]
            /\ (errp[s] \in Reqs => errp[errp[s]] = errp[s])
        BY <2>1, <3>3 DEF makes, Bound
      <4>2. ASSUME errp[s] = x, x \in Reqs PROVE errp'[x] = x
        <5>1. Boundary[s] # Nil => shouldCatch(Boundary[s])
          BY <3>a, BoundaryUp
        <5>2. shouldCatch(x)
          BY <4>1, <4>2, <5>1
        <5> QED
          BY <3>a, <3>1, <5>2, BoundaryUp
      <4> QED
        BY <2>1, <4>1, <4>2 DEF makes
    <3> QED
      BY <3>2, <3>3 DEF Bound
  <2>2. CASE makesNone
    BY <2>2 DEF makesNone, Bound
  <2>3. CASE UNCHANGED vars
    BY <2>3 DEF vars, Bound
  <2> QED
    BY <2>1, <2>2, <2>3, Making
<1> QED
  BY <1>1, <1>2, CoreInvariant, AboveInvariant, PTL DEF Spec

-----------------------------------------------------------------------------
(* Goroutines and the failures of their batches.                           *)

(* What most steps have in common: no batch begins, no resolver fails, and *)
(* no goroutine of a batch goes back.                                      *)
orderly ==
    /\ lead' = lead
    /\ \A s \in Slots : s \in failed' <=> s \in failed
    /\ \A b \in Slots :
          /\ g'[b] = "none" <=> g[b] = "none"
          /\ g[b] \in {"fail", "err", "done"} => g'[b] \in {"fail", "err", "done"}
          /\ g'[b] = "fail" => g[b] = "fail"

(* Every step is one of those three.                                       *)
LEMMA Orderly ==
  ASSUME Core, [Next]_vars
  PROVE  StartRound \/ (\E b \in Slots : ResolverFails(b)) \/ orderly
<1> USE QueryAssumption DEF Core
<1>1. ASSUME NEW x \in Places, Goroutine(x) PROVE orderly
  BY <1>1 DEF Goroutine, Acquire, AcquireFails, RecordError, orderly, TypeOK, Places
<1>2. ASSUME NEW b \in Slots, ResolverReturns(b) \/ BatchReturns(b) PROVE orderly
  BY <1>2 DEF ResolverReturns, BatchReturns, orderly, TypeOK, Places
<1>3. ASSUME NEW p \in Slots, AtPatch(p) PROVE orderly
  <2>1. /\ UNCHANGED <<lead, failed>>
        /\ g' = g \/ (g[lead[p]] = "ok" /\ g' = [g EXCEPT ![lead[p]] = "err"])
    BY <1>3 DEF AtPatch, WriteError, WriteValue, SkipValue, FormatFails, atPatch
  <2> QED
    BY <2>1 DEF orderly, TypeOK, Places
<1>4. ASSUME NEW r \in Reqs, EntryPoint(r) PROVE orderly
  <2>1. /\ UNCHANGED lead /\ (failed' = failed \/ failed' = failed \cup {r})
        /\ \E v \in {"err", "done"} : g' = [g EXCEPT ![r] = v]
    BY <1>4 DEF EntryPoint, MethodFails, MethodReturns, ResponseUnusable
  <2> QED
    BY <2>1 DEF orderly, TypeOK, Places
<1>5. CASE Accept
  BY <1>5 DEF Accept, orderly, TypeOK, Places
<1>6. CASE BadParams \/ WaitRound \/ Reject \/ WaitEntries \/ Finish \/ Cancel
  BY <1>6 DEF BadParams, WaitRound, Reject, WaitEntries, Finish, Cancel, orderly
<1>7. CASE UNCHANGED vars
  BY <1>7 DEF vars, orderly
<1> QED
  BY <1>1, <1>2, <1>3, <1>4, <1>5, <1>6, <1>7
  DEF Next, System, Stitching, ResolverGoroutine

(* What StartRound does to a batch that is there, and to a new one.        *)
LEMMA Starting ==
  ASSUME Core, StartRound
  PROVE  /\ \A s \in queued :
               /\ s \in Slots /\ st[s] = "queued" /\ lead[s] = Nil /\ lead'[s] \in queued
               /\ lead'[lead'[s]] = lead'[s] /\ g'[lead'[s]] = "acquire"
         /\ \A s, t \in queued : lead'[s] = lead'[t] <=> sameGroup(s, t)
         /\ \A s \in Slots \ queued :
               /\ lead'[s] = lead[s]
               /\ lead[s] # Nil => lead[s] \in Slots \ queued
         /\ \A x \in Places : g'[x] # g[x] => x \in queued /\ lead'[x] = x /\ g'[x] = "acquire"
<1> USE QueryAssumption DEF Core
<1>1. PICK first \in [queued -> queued] :
         /\ \A s \in queued : sameGroup(s, first[s])
         /\ \A s, t \in queued : sameGroup(s, t) => first[s] = first[t]
         /\ lead' = [s \in Slots |-> IF s \in queued THEN first[s] ELSE lead[s]]
         /\ g' = [x \in Places |-> IF \E s \in queued : first[s] = x
                                   THEN "acquire" ELSE g[x]]
  BY DEF StartRound
<1>2. queued \subseteq Slots /\ queued \subseteq Places /\ \A s \in queued : st[s] = "queued"
  BY DEF queued, Places
<1>3. \A s \in queued : first[s] \in queued /\ first[first[s]] = first[s]
  BY <1>1
<1>4. \A s \in queued : lead[s] = Nil
  BY <1>2 DEF Batches, inBatch
<1>5. \A s, t \in queued : first[s] = first[t] <=> sameGroup(s, t)
  BY <1>1, <1>3 DEF sameGroup
<1>6. \A s \in Slots : lead[s] # Nil => lead[s] \in Slots \ queued
  BY <1>2 DEF Batches, inBatch
<1>7. \A s \in queued : lead'[s] = first[s]
  BY <1>1, <1>2
<1>8. \A s \in Slots \ queued : lead'[s] = lead[s]
  BY <1>1
<1>9. \A x \in Places : g'[x] # g[x] => g'[x] = "acquire" /\ \E s \in queued : first[s] = x
  BY <1>1
<1>10. \A s \in queued : g'[first[s]] = "acquire"
  BY <1>1, <1>2, <1>3
<1> QED
  BY <1>2, <1>3, <1>4, <1>5, <1>6, <1>7, <1>8, <1>9, <1>10

(* Goroutines have their own batch.                                        *)
LEMMA NamedInvariant == Spec => []Named
<1>1. Init => Named
  BY DEF Init, StitcherInit, Named, Places
<1>2. Core /\ Named /\ [Next]_vars => Named'
  <2> SUFFICES ASSUME Core, Named, [Next]_vars PROVE Named'
    OBVIOUS
  <2>1. CASE StartRound
    BY <2>1, Starting DEF Core, Batches, inBatch, Named, Places
  <2>2. ASSUME NEW b \in Slots, ResolverFails(b) PROVE Named'
    BY <2>2 DEF ResolverFails, Core, TypeOK, Named, Places
  <2>3. CASE orderly
    BY <2>3 DEF orderly, Named
  <2> QED
    BY <2>1, <2>2, <2>3, Orderly
<1> QED
  BY <1>1, <1>2, CoreInvariant, PTL DEF Spec

(* Failures are those of whole batches.                                    *)
LEMMA SharedInvariant == Spec => []Shared
<1>1. Init => Shared
  BY QueryAssumption DEF Init, StitcherInit, Shared
<1>2. Core /\ Shared /\ [Next]_vars => Shared'
  <2> SUFFICES ASSUME Core, Shared, [Next]_vars PROVE Shared'
    OBVIOUS
  <2> USE QueryAssumption DEF Core
  <2>1. CASE StartRound
    <3>1. failed' = failed
      BY <2>1 DEF StartRound
    <3> QED
      BY <2>1, <3>1, Starting DEF Shared, Places
  <2>2. ASSUME NEW b \in Slots, ResolverFails(b) PROVE Shared'
    <3>1. /\ failed' = failed \cup batch(b) /\ lead' = lead /\ g[b] = "call"
          /\ \E v \in {"err", "fail"} : g' = [g EXCEPT ![b] = v]
      BY <2>2 DEF ResolverFails
    <3> QED
      BY <3>1 DEF Shared, batch, TypeOK, Places
  <2>3. CASE orderly
    <3>1. \A s \in Slots : lead[s] # Nil => lead[s] \in Slots
      BY DEF TypeOK
    <3> QED
      BY <2>3, <3>1 DEF orderly, Shared
  <2> QED
    BY <2>1, <2>2, <2>3, Orderly
<1> QED
  BY <1>1, <1>2, CoreInvariant, PTL DEF Spec

-----------------------------------------------------------------------------
(* Batches.                                                                *)

(* The meta of a patch names an entry point, or a batch of an earlier      *)
(* round.                                                                  *)
LEMMA MetaOf ==
  ASSUME Core, NEW s \in Slots, st[s] # "none"
  PROVE  /\ Up[s] \in Reqs => Meta(s) = Up[s]
         /\ Up[s] \notin Reqs => /\ Up[s] \in Slots /\ inBatch(Up[s])
                                 /\ Meta(s) = lead[Up[s]] /\ lead[Up[s]] \in Slots
         /\ Meta(s) \in Places
  BY QueryAssumption DEF Core, Tree, Batches, inBatch, Meta, Places

(* No patch comes late: once a batch is formed below a place, or below the *)
(* values of a batch, no patch is made there.                              *)
LEMMA TogetherInvariant == Spec => []Together
<1>1. Init => Together
  BY DEF Init, StitcherInit, Together, inBatch
<1>2. Core /\ Together /\ [Next]_vars => Together'
  <2> SUFFICES ASSUME Core, Together, [Next]_vars PROVE Together'
    OBVIOUS
  <2> USE QueryAssumption DEF Core
  <2> DEFINE rest == {"none", "err", "done"}
  <2>1. CASE StartRound
    <3>1. /\ st' = [s \in Slots |-> IF s \in queued THEN "batched" ELSE st[s]] /\ Idle
      BY <2>1 DEF StartRound, Quiet
    <3>2. \A t \in Slots : st'[t] # "queued"
      BY <3>1 DEF queued
    <3>3. ASSUME NEW s \in Slots, inBatch(s)' PROVE g'[Meta(s)'] \in rest
      <4>1. st[s] # "none"
        BY <3>1, <3>3 DEF inBatch, queued
      <4>2. Meta(s)' = Meta(s) /\ Meta(s) \in Places \ queued
        <5>1. Up[s] \notin Reqs => Up[s] \in Slots \ queued /\ lead[Up[s]] # Nil
          BY <4>1, MetaOf DEF inBatch, queued
        <5>2. Up[s] \notin Reqs => lead'[Up[s]] = lead[Up[s]] /\ lead[Up[s]] \in Slots \ queued
          BY <2>1, <5>1, Starting
        <5> QED
          BY <4>1, <5>2, MetaOf DEF Meta, queued, Places
      <4>3. g'[Meta(s)] = g[Meta(s)]
        BY <2>1, <4>2, Starting
      <4> QED
        BY <3>1, <4>2, <4>3 DEF Idle
    <3> QED
      BY <3>2, <3>3 DEF Together
  <2>2. ASSUME NEW x \in Places, NEW kids \in SUBSET Slots,
               lead' = lead, g[x] \notin rest,
               \A y \in Places : g[y] \in rest => g'[y] \in rest,
               \A s \in kids : st'[s] = "queued" /\ Meta(s) = x,
               \A s \in Slots : inBatch(s)' => inBatch(s),
               \A s \in Slots \ kids : st'[s] = "queued" => st[s] = "queued"
        PROVE  Together'
    <3>1. \A s \in Slots : Meta(s)' = Meta(s)
      BY <2>2 DEF Meta
    <3>2. \A s \in Slots : inBatch(s) => Meta(s) \in Places
      BY MetaOf DEF inBatch
    <3> QED
      BY <2>2, <3>1, <3>2 DEF Together
  <2>3. ASSUME lead' = lead,
               \A y \in Places : g[y] \in rest => g'[y] \in rest,
               \A s \in Slots : inBatch(s)' => inBatch(s),
               \A s \in Slots : st'[s] = "queued" => st[s] = "queued"
        PROVE  Together'
    <3>1. \A s \in Slots : Meta(s)' = Meta(s)
      BY <2>3 DEF Meta
    <3>2. \A s \in Slots : inBatch(s) => Meta(s) \in Places
      BY MetaOf DEF inBatch
    <3> QED
      BY <2>3, <3>1, <3>2 DEF Together
  <2>4. ASSUME NEW p \in Slots, WriteValue(p) PROVE Together'
    <3>1. PICK kids \in SUBSET Children(p) :
            st' = [s \in Slots |-> IF s = p THEN "done"
                                   ELSE IF s \in kids THEN "queued" ELSE st[s]]
      BY <2>4 DEF WriteValue
    <3>2. g' = g /\ lead' = lead /\ g[lead[p]] = "ok" /\ st[p] = "batched"
      BY <2>4 DEF WriteValue, atPatch
    <3>3. lead[p] \in Places
      BY <3>2 DEF Batches, inBatch, Places
    <3>4. \A s \in kids : s \in Slots /\ st[s] = "none" /\ st'[s] = "queued" /\ Meta(s) = lead[p]
      BY <3>1, <3>2 DEF Tree, Children, Meta
    <3>5. \A s \in Slots : inBatch(s)' => inBatch(s)
      BY <3>1, <3>2 DEF inBatch
    <3>6. \A s \in Slots \ kids : st'[s] = "queued" => st[s] = "queued"
      BY <3>1
    <3> QED
      BY <2>2, <3>2, <3>3, <3>4, <3>5, <3>6
  <2>5. ASSUME NEW r \in Reqs, MethodReturns(r) PROVE Together'
    <3>1. PICK kids \in SUBSET Children(r) :
            st' = [s \in Slots |-> IF s \in kids THEN "queued" ELSE st[s]]
      BY <2>5 DEF MethodReturns
    <3>2. g' = [g EXCEPT ![r] = "done"] /\ lead' = lead /\ g[r] = "call" /\ r \in Places
      BY <2>5 DEF MethodReturns, calling, Places
    <3>3. \A s \in kids : s \in Slots /\ st'[s] = "queued" /\ Meta(s) = r
      BY <3>1 DEF Children, Meta
    <3>4. \A s \in Slots : inBatch(s)' => inBatch(s)
      BY <3>1 DEF inBatch
    <3>5. \A s \in Slots \ kids : st'[s] = "queued" => st[s] = "queued"
      BY <3>1
    <3>6. \A y \in Places : g[y] \in rest => g'[y] \in rest
      BY <3>2 DEF TypeOK
    <3> QED
      BY <2>2, <3>2, <3>3, <3>4, <3>5, <3>6
  <2>6. ASSUME NEW x \in Places, Goroutine(x) PROVE Together'
    BY <2>3, <2>6 DEF Goroutine, Acquire, AcquireFails, RecordError, TypeOK, inBatch
  <2>7. ASSUME NEW b \in Slots, ResolverGoroutine(b) PROVE Together'
    BY <2>3, <2>7 DEF ResolverGoroutine, ResolverFails, ResolverReturns, BatchReturns,
       TypeOK, inBatch
  <2>8. ASSUME NEW p \in Slots, WriteError(p) \/ SkipValue(p) \/ FormatFails(p)
        PROVE  Together'
    <3>1. /\ lead' = lead /\ st[p] = "batched"
          /\ g' = g \/ g' = [g EXCEPT ![lead[p]] = "err"]
          /\ st' = st \/ st' = [st EXCEPT ![p] = "done"]
      BY <2>8 DEF WriteError, SkipValue, FormatFails, atPatch
    <3>2. \A y \in Places : g[y] \in rest => g'[y] \in rest
      BY <3>1 DEF TypeOK
    <3>3. \A s \in Slots : /\ inBatch(s)' => inBatch(s)
                           /\ st'[s] = "queued" => st[s] = "queued"
      BY <3>1 DEF TypeOK, inBatch
    <3> QED
      BY <2>3, <3>1, <3>2, <3>3
  <2>9. ASSUME NEW r \in Reqs, MethodFails(r) \/ ResponseUnusable(r) PROVE Together'
    <3>1. lead' = lead /\ st' = st /\ \E v \in {"err", "done"} : g' = [g EXCEPT ![r] = v]
      BY <2>9 DEF MethodFails, ResponseUnusable
    <3> QED
      BY <2>3, <3>1 DEF TypeOK, inBatch
  <2>10. CASE Accept
    BY <2>10 DEF Accept, Quiet, Together, inBatch
  <2>11. CASE BadParams \/ WaitRound \/ Reject \/ WaitEntries \/ Finish \/ Cancel
    BY <2>3, <2>11 DEF BadParams, WaitRound, Reject, WaitEntries, Finish, Cancel, inBatch
  <2>12. CASE UNCHANGED vars
    BY <2>3, <2>12 DEF vars, inBatch
  <2> QED
    BY <2>1, <2>4, <2>5, <2>6, <2>7, <2>8, <2>9, <2>10, <2>11, <2>12
    DEF Next, System, Stitching, EntryPoint, AtPatch
<1> QED
  BY <1>1, <1>2, CoreInvariant, PTL DEF Spec

(* Two slots are resolved by one call if, and only if, their masks and     *)
(* those above them have equal params and relations, up to one entry point *)
(* (stitcher.go:49): the pointer to the meta, made anew for every call,    *)
(* splits no batch of list elements and merges none of different branches, *)
(* and no slow goroutine's patch misses its round.  It does not say that   *)
(* different masks have different calls: without params they need not.     *)
THEOREM BatchesFollowKeys == Spec => []OneBatchPerMask
<1>1. Init => OneBatchPerMask
  BY DEF Init, StitcherInit, OneBatchPerMask
<1>2. Core /\ Together /\ OneBatchPerMask /\ [Next]_vars => OneBatchPerMask'
  <2> SUFFICES ASSUME Core, Together, OneBatchPerMask, [Next]_vars PROVE OneBatchPerMask'
    OBVIOUS
  <2> USE QueryAssumption
  <2>1. CASE lead' = lead
    BY <2>1 DEF OneBatchPerMask
  <2>2. CASE StartRound
    <3>1. ASSUME NEW s \in Slots, NEW t \in Slots, st[s] # "none", st[t] # "none"
          PROVE  t \in SameMask[s] <=> sameGroup(s, t)
      <4>1. CASE Up[s] \in Reqs \/ Up[t] \in Reqs
        BY <3>1, <4>1, MetaOf, SameMaskUp DEF sameGroup
      <4>2. CASE Up[s] \notin Reqs /\ Up[t] \notin Reqs
        <5>1. /\ Up[s] \in Slots /\ Up[t] \in Slots
              /\ lead[Up[s]] # Nil /\ lead[Up[t]] # Nil
              /\ Meta(s) = lead[Up[s]] /\ Meta(t) = lead[Up[t]]
          BY <3>1, <4>2, MetaOf
        <5>2. Up[t] \in SameMask[Up[s]] <=> Meta(s) = Meta(t)
          BY <5>1 DEF OneBatchPerMask
        <5> QED
          BY <4>2, <5>1, <5>2, SameMaskUp DEF sameGroup
      <4> QED
        BY <4>1, <4>2
    <3>2. \A s \in Slots \ queued : lead[s] # Nil => inBatch(s)
      BY DEF Core, Batches
    <3>3. ASSUME NEW s \in queued, NEW t \in Slots \ queued, lead[t] # Nil
          PROVE  /\ t \notin SameMask[s] /\ s \notin SameMask[t]
                 /\ lead'[s] # lead'[t] /\ lead'[t] # lead'[s]
      <4>1. s \in Slots /\ st[s] = "queued" /\ inBatch(t) /\ st[t] # "none"
        BY <3>2, <3>3 DEF queued, inBatch
      <4>2. Meta(t) # Meta(s)
        BY <4>1 DEF Together
      <4>3. lead'[s] \in queued /\ lead'[t] \notin queued
        BY <2>2, <3>3, Starting
      <4> QED
        BY <3>1, <4>1, <4>2, <4>3 DEF sameGroup
    <3>4. \A s, t \in queued : t \in SameMask[s] <=> lead'[s] = lead'[t]
      BY <2>2, <3>1, Starting
    <3>5. \A s, t \in Slots \ queued : lead[s] # Nil /\ lead[t] # Nil =>
             (t \in SameMask[s] <=> lead'[s] = lead'[t])
      BY <2>2, Starting DEF OneBatchPerMask
    <3>6. \A s \in Slots \ queued : lead'[s] = lead[s]
      BY <2>2, Starting
    <3> QED
      BY <3>3, <3>4, <3>5, <3>6 DEF OneBatchPerMask
  <2>3. ASSUME NEW b \in Slots, ResolverFails(b) PROVE lead' = lead
    BY <2>3 DEF ResolverFails
  <2>4. orderly => lead' = lead
    BY DEF orderly
  <2> QED
    BY <2>1, <2>2, <2>3, <2>4, Orderly
<1> QED
  BY <1>1, <1>2, CoreInvariant, TogetherInvariant, PTL DEF Spec

-----------------------------------------------------------------------------
(* What has become of the calls.                                           *)

(* Reasons to fail do not go away.                                         *)
LEMMA ExcuseKept ==
  ASSUME Core, Excuse, [Next]_vars
  PROVE  Excuse'
<1>1. ASSUME UNCHANGED <<cancelled, broken>>, failed \subseteq failed' PROVE Excuse'
  BY <1>1 DEF Excuse
<1>2. ASSUME cancelled' = TRUE \/ broken' = TRUE PROVE Excuse'
  BY <1>2 DEF Excuse
<1>3. ASSUME NEW x \in Places, Goroutine(x) PROVE Excuse'
  BY <1>1, <1>3 DEF Goroutine, Acquire, AcquireFails, RecordError
<1>4. ASSUME NEW b \in Slots, ResolverGoroutine(b) PROVE Excuse'
  BY <1>1, <1>4 DEF ResolverGoroutine, ResolverFails, ResolverReturns, BatchReturns
<1>5. ASSUME NEW p \in Slots, AtPatch(p) PROVE Excuse'
  BY <1>1, <1>2, <1>5 DEF AtPatch, WriteError, WriteValue, SkipValue, FormatFails
<1>6. ASSUME NEW r \in Reqs, EntryPoint(r) PROVE Excuse'
  BY <1>1, <1>2, <1>6 DEF EntryPoint, MethodFails, MethodReturns, ResponseUnusable
<1>7. CASE StartRound \/ BadParams \/ WaitRound
  BY <1>1, <1>2, <1>7 DEF StartRound, BadParams, WaitRound
<1>8. CASE Reject \/ Accept \/ WaitEntries \/ Finish \/ Cancel
  BY <1>1, <1>2, <1>8 DEF Reject, Accept, WaitEntries, Finish, Cancel
<1>9. CASE UNCHANGED vars
  BY <1>1, <1>9 DEF vars
<1> QED
  BY <1>3, <1>4, <1>5, <1>6, <1>7, <1>8, <1>9 DEF Next, System, Stitching

(* An errgroup records no error but of a call that nobody catches, or one  *)
(* that the caller or a broken reply is to blame for.                      *)
LEMMA ReasonsInvariant == Spec => []Reasons
<1>1. Init => Reasons
  BY DEF Init, StitcherInit, Reasons
<1>2. Core /\ Bound /\ Named /\ Reasons /\ [Next]_vars => Reasons'
  <2> SUFFICES ASSUME Core, Bound, Named, Reasons, [Next]_vars PROVE Reasons'
    OBVIOUS
  <2> USE QueryAssumption DEF Core
  <2>1. ASSUME \A x \in Places : g'[x] = "err" => g[x] = "err",
               groupErr' => groupErr,
               phase' \in {"validate", "stitch", "ok"} => ~groupErr'
        PROVE  Reasons'
    BY <2>1, ExcuseKept DEF Reasons
  <2>2. ASSUME Excuse', phase' \in {"validate", "stitch", "ok"} => ~groupErr' PROVE Reasons'
    BY <2>2 DEF Reasons
  <2>3. ASSUME NEW x \in Places, Goroutine(x) PROVE Reasons'
    <3>a. phase' = phase /\ phase \notin {"validate", "stitch", "ok"}
      BY <2>3 DEF Goroutine, Acquire, AcquireFails, RecordError, Quiet, Idle, Returned
    <3>1. CASE Acquire(x)
      BY <2>1, <3>a, <3>1 DEF Acquire, TypeOK
    <3>2. CASE AcquireFails(x)
      <4>1. Excuse
        BY <3>2 DEF AcquireFails, CtxDone, Reasons, Excuse
      <4> QED
        BY <2>2, <3>a, <4>1, ExcuseKept
    <3>3. CASE RecordError(x)
      <4>1. Excuse
        BY <3>3 DEF RecordError, Reasons
      <4> QED
        BY <2>2, <3>a, <4>1, ExcuseKept
    <3> QED
      BY <2>3, <3>1, <3>2, <3>3 DEF Goroutine
  <2>4. ASSUME NEW b \in Slots, ResolverGoroutine(b) PROVE Reasons'
    <3>a. phase' = phase /\ groupErr' = groupErr /\ b \in Places
      BY <2>4 DEF ResolverGoroutine, ResolverFails, ResolverReturns, BatchReturns, Places
    <3>1. CASE ResolverFails(b) /\ errp[b] = Nil
      <4>1. b \in failed' /\ Boundary[b] = Nil
        <5>1. g[b] = "call" /\ failed' = failed \cup batch(b)
          BY <3>1 DEF ResolverFails
        <5>2. lead[b] = b /\ st[b] # "none"
          BY <5>1 DEF Named, Batches, inBatch
        <5> QED
          BY <3>1, <5>1, <5>2 DEF Bound, batch
      <4> QED
        BY <2>2, <3>a, <4>1 DEF Excuse, Reasons
    <3>2. CASE ResolverReturns(b) \/ BatchReturns(b) \/ (ResolverFails(b) /\ errp[b] # Nil)
      BY <2>1, <3>a, <3>2 DEF ResolverReturns, BatchReturns, ResolverFails, TypeOK, Reasons
    <3> QED
      BY <2>4, <3>1, <3>2 DEF ResolverGoroutine
  <2>5. ASSUME NEW p \in Slots, AtPatch(p) PROVE Reasons'
    <3>1. CASE FormatFails(p)
      <4>1. Excuse' /\ phase' = phase /\ groupErr' = groupErr
        BY <3>1 DEF FormatFails, Excuse
      <4> QED
        BY <2>2, <4>1 DEF Reasons
    <3>2. CASE WriteError(p) \/ WriteValue(p) \/ SkipValue(p)
      BY <2>1, <3>2 DEF WriteError, WriteValue, SkipValue, atPatch, Reasons
    <3> QED
      BY <2>5, <3>1, <3>2 DEF AtPatch
  <2>6. ASSUME NEW r \in Reqs, EntryPoint(r) PROVE Reasons'
    <3>a. phase' = phase /\ groupErr' = groupErr /\ r \in Places
      BY <2>6 DEF EntryPoint, MethodFails, MethodReturns, ResponseUnusable, Places
    <3>1. CASE MethodFails(r) /\ ~shouldCatch(r)
      <4>1. Boundary[r] = Nil /\ r \in failed'
        BY <3>a, <3>1, BoundaryUp DEF MethodFails
      <4> QED
        BY <2>2, <3>a, <4>1 DEF Excuse, Reasons
    <3>2. CASE ResponseUnusable(r)
      <4>1. Excuse'
        BY <3>2 DEF ResponseUnusable, Excuse
      <4> QED
        BY <2>2, <3>a, <4>1 DEF Reasons
    <3>3. CASE MethodReturns(r) \/ (MethodFails(r) /\ shouldCatch(r))
      BY <2>1, <3>a, <3>3 DEF MethodReturns, MethodFails, TypeOK, Reasons
    <3> QED
      BY <2>6, <3>1, <3>2, <3>3 DEF EntryPoint
  <2>7. CASE StartRound
    <3>1. groupErr' = FALSE /\ \A x \in Places : g'[x] = "err" => g[x] = "err"
      BY <2>7, Starting DEF StartRound
    <3> QED
      BY <2>1, <3>1
  <2>8. CASE BadParams \/ WaitRound \/ Reject \/ Accept \/ WaitEntries \/ Finish \/ Cancel
    BY <2>1, <2>8 DEF BadParams, WaitRound, Reject, Accept, WaitEntries, Finish, Cancel, Reasons
  <2>9. CASE UNCHANGED vars
    BY <2>1, <2>9 DEF vars, Reasons
  <2> QED
    BY <2>3, <2>4, <2>5, <2>6, <2>7, <2>8, <2>9 DEF Next, System, Stitching
<1> QED
  BY <1>1, <1>2, CoreInvariant, BoundInvariant, NamedInvariant, PTL DEF Spec

(* Errors are those of failed calls, at their nearest clause.              *)
LEMMA PlacedInvariant == Spec => []Placed
<1>1. Init => Placed
  BY QueryAssumption DEF Init, StitcherInit, Placed, IsError, Places
<1>2. Core /\ Bound /\ Shared /\ Placed /\ [Next]_vars => Placed'
  <2> SUFFICES ASSUME Core, Bound, Shared, Placed, [Next]_vars PROVE Placed'
    OBVIOUS
  <2> USE QueryAssumption DEF Core
  <2>1. ASSUME field' = field, failed \subseteq failed', body' = body,
               \A r \in Reqs : errp'[r] = errp[r], phase' = "ok" \/ phase # "ok"
        PROVE  Placed'
    BY <2>1 DEF Placed, IsError
  <2>2. ASSUME NEW p \in Slots, AtPatch(p), UNCHANGED body PROVE Placed'
    <3>a. /\ ~Returned /\ (phase' = phase \/ phase' = "panic") /\ phase # "ok"
          /\ failed' = failed /\ st[p] = "batched" /\ p \in Places
      BY <2>2 DEF AtPatch, WriteError, WriteValue, SkipValue, FormatFails, atPatch,
         Returned, Places
    <3>b. \A r \in Reqs : errp'[r] = errp[r]
      BY <2>2 DEF AtPatch, WriteError, WriteValue, SkipValue, FormatFails, withPatches,
         Children, Places
    <3>1. CASE WriteError(p) /\ errp[p] # Nil
      <4>1. p \in failed /\ errp[p] = Boundary[p] /\ (errp[p] \in Reqs => errp[errp[p]] = errp[p])
        BY <3>a, <3>1 DEF WriteError, atPatch, Shared, Bound, Batches, inBatch
      <4>2. field' = [field EXCEPT ![errp[p]] = p] /\ errp[p] \in Places
        BY <3>1 DEF WriteError, TypeOK, Places
      <4> QED
        BY <2>2, <3>a, <3>b, <4>1, <4>2 DEF Placed, IsError, TypeOK
    <3>2. CASE WriteValue(p)
      <4>1. field' = [field EXCEPT ![p] = "value"] /\ "value" \notin Places
        BY <3>2 DEF WriteValue, Places
      <4> QED
        BY <2>2, <3>a, <3>b, <4>1 DEF Placed, IsError, TypeOK
    <3>3. CASE SkipValue(p) \/ FormatFails(p) \/ (WriteError(p) /\ errp[p] = Nil)
      BY <2>1, <2>2, <3>a, <3>b, <3>3 DEF SkipValue, FormatFails, WriteError
    <3> QED
      BY <2>2, <3>1, <3>2, <3>3 DEF AtPatch
  <2>3. ASSUME NEW r \in Reqs, MethodReturns(r) PROVE Placed'
    <3>1. /\ field' = field /\ failed' = failed /\ body' = [body EXCEPT ![r] = "value"]
          /\ phase' = phase /\ phase = "entry" /\ "value" \notin Places
      BY <2>3 DEF MethodReturns, calling, Places
    <3>2. \A q \in Reqs : errp'[q] = IF q = r THEN errPatchFor(r, Nil) ELSE errp[q]
      BY <2>3 DEF MethodReturns, withPatches, Children, Places, TypeOK
    <3>3. IsError(field[r]) => errPatchFor(r, Nil) = r
      <4>1. IsError(field[r]) => field[r] \in Places /\ Boundary[field[r]] = r /\ r # Nil
        BY DEF Placed, IsError, Places
      <4>2. IsError(field[r]) => shouldCatch(r)
        BY <4>1, BoundaryUp
      <4> QED
        BY <4>2 DEF errPatchFor
    <3> QED
      BY <3>1, <3>2, <3>3 DEF Placed, IsError, TypeOK
  <2>4. ASSUME NEW r \in Reqs, MethodFails(r) PROVE Placed'
    BY <2>4 DEF MethodFails, calling, Placed, IsError, TypeOK
  <2>5. ASSUME NEW r \in Reqs, ResponseUnusable(r) PROVE Placed'
    BY <2>1, <2>5 DEF ResponseUnusable, calling
  <2>6. ASSUME NEW x \in Places, Goroutine(x), UNCHANGED body PROVE Placed'
    BY <2>1, <2>6 DEF Goroutine, Acquire, AcquireFails, RecordError, Returned
  <2>7. ASSUME NEW b \in Slots, ResolverGoroutine(b), UNCHANGED body PROVE Placed'
    BY <2>1, <2>7 DEF ResolverGoroutine, ResolverFails, ResolverReturns, BatchReturns, Returned
  <2>8. CASE (StartRound \/ BadParams \/ WaitRound \/ Cancel) /\ UNCHANGED body
    BY <2>1, <2>8 DEF StartRound, BadParams, WaitRound, Cancel, Returned
  <2>9. CASE Reject \/ Accept \/ WaitEntries
    BY <2>1, <2>9 DEF Reject, Accept, WaitEntries
  <2>10. CASE Finish
    BY <2>10 DEF Finish, Placed, IsError
  <2>11. CASE UNCHANGED vars
    BY <2>11 DEF vars, Placed, IsError
  <2> QED
    BY <2>2, <2>3, <2>4, <2>5, <2>6, <2>7, <2>8, <2>9, <2>10, <2>11
    DEF Next, System, Stitching, EntryPoint
<1> QED
  BY <1>1, <1>2, CoreInvariant, BoundInvariant, SharedInvariant, PTL DEF Spec

(* Every patch that was worked off shows it, and none is forgotten.        *)
LEMMA SettledInvariant == Spec => []Settled
<1>1. Init => Settled
  BY DEF Init, StitcherInit, Settled
<1>2. Core /\ Above /\ Shared /\ Reasons /\ Settled /\ [Next]_vars => Settled'
  <2> SUFFICES ASSUME Core, Above, Shared, Reasons, Settled, [Next]_vars PROVE Settled'
    OBVIOUS
  <2> USE QueryAssumption DEF Core
  <2> DEFINE early == {"none", "acquire", "call"}
             over  == {"none", "done"}
  <2>a. \A s \in Slots : inBatch(s) => lead[s] \in Slots /\ lead[s] \in Places
    BY DEF Batches, Places
  <2>1. ASSUME UNCHANGED <<lead, field, skipped>>,
               \A s \in Slots : inBatch(s)' => st'[s] = st[s] /\ errp'[s] = errp[s],
               \A s \in Slots : st[s] = "done" => (s \in failed' <=> s \in failed),
               \A s \in Slots : st[s] = "done" /\ g[lead[s]] \notin early =>
                  g'[lead[s]] \notin early,
               \A s \in Slots : st[s] = "batched" /\ (groupErr \/ g[lead[s]] \notin over) =>
                  groupErr' \/ g'[lead[s]] \notin over
        PROVE  Settled'
    BY <2>1 DEF Settled, inBatch, IsError
  <2>2. CASE StartRound
    <3>1. /\ st' = [s \in Slots |-> IF s \in queued THEN "batched" ELSE st[s]]
          /\ UNCHANGED <<errp, field, failed, skipped>> /\ Idle /\ ~groupErr
      BY <2>2 DEF StartRound, Quiet, Reasons
    <3>2. ASSUME NEW s \in queued PROVE st'[s] = "batched" /\ g'[lead'[s]] = "acquire"
      BY <2>2, <3>1, Starting DEF queued
    <3>3. ASSUME NEW s \in Slots \ queued, inBatch(s)'
          PROVE  st[s] = "done" /\ st'[s] = "done" /\ lead'[s] = lead[s] /\ g'[lead[s]] = g[lead[s]]
      <4>1. st'[s] = st[s] /\ inBatch(s)
        BY <3>1, <3>3 DEF inBatch
      <4>2. lead'[s] = lead[s] /\ lead[s] \in Slots \ queued /\ lead[s] \in Places
        BY <2>2, <2>a, <4>1, Starting
      <4>3. g'[lead[s]] = g[lead[s]]
        BY <2>2, <4>2, Starting
      <4>4. st[s] # "batched"
        BY <3>1, <4>2 DEF Settled, Idle
      <4> QED
        BY <4>1, <4>2, <4>3, <4>4 DEF inBatch
    <3> QED
      BY <3>1, <3>2, <3>3 DEF Settled, inBatch
  <2>3. ASSUME NEW p \in Slots, AtPatch(p) PROVE Settled'
    <3>a. st[p] = "batched" /\ inBatch(p) /\ lead' = lead /\ failed' = failed /\ p \in Places
      BY <2>3 DEF AtPatch, WriteError, WriteValue, SkipValue, FormatFails, atPatch, inBatch,
         Places
    <3>b. \A s \in Slots : st[s] = "done" /\ errp[s] # Nil /\ IsError(field[errp[s]]) =>
             errp[s] # p
      BY <3>a DEF Above
    <3>1. CASE WriteError(p) /\ errp[p] # Nil
      <4>1. /\ field' = [field EXCEPT ![errp[p]] = p] /\ st' = [st EXCEPT ![p] = "done"]
            /\ UNCHANGED <<g, groupErr, errp, skipped>> /\ g[lead[p]] = "fail"
        BY <3>1 DEF WriteError, atPatch
      <4>2. p \in failed /\ errp[p] \in Places /\ field'[errp[p]] = p
        BY <2>a, <3>a, <3>1, <4>1 DEF Shared, TypeOK
      <4>3. \A q \in Places : /\ IsError(field[q]) => IsError(field'[q])
                              /\ field[q] # "absent" => field'[q] # "absent"
        BY <3>a, <4>1 DEF IsError, TypeOK, Places
      <4>4. \A s \in Slots : inBatch(s) => errp[s] \in Places \cup {Nil}
        BY DEF TypeOK, Places
      <4>5. \A s \in Slots \ {p} : st'[s] = st[s]
        BY <4>1 DEF TypeOK
      <4>6. st'[p] = "done"
        BY <4>1 DEF TypeOK
      <4>7. IsError(field'[errp[p]])
        BY <3>a, <4>2 DEF IsError
      <4>8. ASSUME NEW s \in Slots
            PROVE  /\ st'[s] = "done" =>
                        IF s \in failed THEN errp[s] # Nil /\ IsError(field'[errp[s]])
                        ELSE field'[s] # "absent" \/ s \in skipped
                   /\ st'[s] = "done" => g[lead[s]] \notin early
                   /\ st'[s] = "batched" => groupErr \/ g[lead[s]] \notin over
        <5>1. CASE s = p
          BY <3>1, <4>1, <4>2, <4>6, <4>7, <5>1
        <5>2. CASE s # p
          BY <4>3, <4>4, <4>5, <5>2 DEF Settled, inBatch, Places
        <5> QED
          BY <5>1, <5>2
      <4> QED
        BY <3>a, <4>1, <4>8 DEF Settled, IsError
    <3>2. CASE WriteValue(p) \/ SkipValue(p)
      <4>1. /\ UNCHANGED <<g, groupErr>> /\ g[lead[p]] = "ok"
            /\ skipped \subseteq skipped' /\ (field' = field \/ field' = [field EXCEPT ![p] = "value"])
            /\ field'[p] = "value" \/ p \in skipped'
        BY <3>a, <3>2 DEF WriteValue, SkipValue, atPatch, TypeOK
      <4>2. p \notin failed
        BY <2>a, <3>a, <4>1 DEF Shared
      <4>3. \A s \in Slots : inBatch(s)' => s = p \/ (st'[s] = st[s] /\ errp'[s] = errp[s])
        <5>1. CASE SkipValue(p)
          BY <5>1 DEF SkipValue, TypeOK
        <5>2. CASE WriteValue(p)
          BY <5>2 DEF WriteValue, withPatches, Places, inBatch
        <5> QED
          BY <3>2, <5>1, <5>2
      <4>4. "value" \notin Places /\ "value" # "absent"
        BY DEF Places
      <4>5. \A q \in Places \ {p} : field'[q] = field[q]
        BY <4>1 DEF TypeOK
      <4>6. \A s \in Slots : field[s] # "absent" => field'[s] # "absent"
        BY <4>1, <4>4 DEF TypeOK, Places
      <4>7. ASSUME NEW s \in Slots
            PROVE  /\ st'[s] = "done" =>
                        IF s \in failed THEN errp'[s] # Nil /\ IsError(field'[errp'[s]])
                        ELSE field'[s] # "absent" \/ s \in skipped'
                   /\ st'[s] = "done" => g[lead[s]] \notin early
                   /\ st'[s] = "batched" => groupErr \/ g[lead[s]] \notin over
        <5>1. CASE s = p
          BY <4>1, <4>2, <4>4, <5>1
        <5>2. CASE s # p /\ inBatch(s)'
          <6>1. st'[s] = st[s] /\ errp'[s] = errp[s] /\ errp[s] \in Places \cup {Nil}
            BY <4>3, <5>2 DEF TypeOK, Places
          <6>2. st[s] = "done" /\ s \in failed =>
                   errp[s] # Nil /\ errp[s] # p /\ IsError(field[errp[s]])
            BY <3>b DEF Settled
          <6>3. st[s] = "done" /\ s \in failed => field'[errp[s]] = field[errp[s]]
            BY <4>5, <6>1, <6>2
          <6>4. /\ st[s] = "done" /\ s \notin failed => field'[s] # "absent" \/ s \in skipped'
                /\ st[s] = "done" => g[lead[s]] \notin early
                /\ st[s] = "batched" => groupErr \/ g[lead[s]] \notin over
            BY <4>1, <4>6 DEF Settled
          <6> QED
            BY <6>1, <6>2, <6>3, <6>4
        <5>3. CASE ~inBatch(s)'
          BY <5>3 DEF inBatch
        <5> QED
          BY <5>1, <5>2, <5>3
      <4> QED
        BY <3>a, <4>1, <4>7 DEF Settled, IsError
    <3>3. CASE FormatFails(p)
      <4>1. /\ UNCHANGED <<groupErr, st, errp, field, skipped>>
            /\ g' = [g EXCEPT ![lead[p]] = "err"]
        BY <3>3 DEF FormatFails
      <4> QED
        BY <2>1, <2>a, <3>a, <4>1 DEF TypeOK, inBatch
    <3>4. CASE WriteError(p) /\ errp[p] = Nil
      BY <2>1, <3>a, <3>4 DEF WriteError
    <3> QED
      BY <2>3, <3>1, <3>2, <3>3, <3>4 DEF AtPatch
  <2>4. ASSUME NEW b \in Slots, ResolverGoroutine(b) PROVE Settled'
    <3>a. UNCHANGED <<st, lead, errp, field, skipped, groupErr>> /\ b \in Places
      BY <2>4 DEF ResolverGoroutine, ResolverFails, ResolverReturns, BatchReturns, Places
    <3>1. CASE ResolverFails(b)
      <4>1. failed' = failed \cup batch(b) /\ g[b] = "call"
        BY <3>1 DEF ResolverFails
      <4>2. \A s \in Slots : st[s] = "done" => (s \in failed' <=> s \in failed)
        BY <4>1 DEF batch, Settled
      <4>3. PICK v \in {"err", "fail"} : g' = [g EXCEPT ![b] = v]
        BY <3>1 DEF ResolverFails
      <4> QED
        BY <2>1, <2>a, <3>a, <4>1, <4>2, <4>3 DEF TypeOK, inBatch
    <3>2. CASE ResolverReturns(b)
      <4>1. failed' = failed /\ g' = [g EXCEPT ![b] = "ok"] /\ g[b] = "call"
        BY <3>2 DEF ResolverReturns
      <4> QED
        BY <2>1, <2>a, <3>a, <4>1 DEF TypeOK, inBatch
    <3>3. CASE BatchReturns(b)
      <4>1. failed' = failed /\ g' = [g EXCEPT ![b] = "done"] /\ pending(b) = {}
        BY <3>3 DEF BatchReturns
      <4>2. \A s \in Slots : st[s] = "batched" => lead[s] # b
        BY <4>1 DEF pending, batch
      <4> QED
        BY <2>1, <2>a, <3>a, <4>1, <4>2 DEF TypeOK, inBatch
    <3> QED
      BY <2>4, <3>1, <3>2, <3>3 DEF ResolverGoroutine
  <2>5. ASSUME NEW x \in Places, Goroutine(x) PROVE Settled'
    <3>1. UNCHANGED <<st, lead, errp, field, skipped, failed>>
      BY <2>5 DEF Goroutine, Acquire, AcquireFails, RecordError
    <3>2. \/ g[x] = "acquire" /\ groupErr' = groupErr /\ g' = [g EXCEPT ![x] = "call"]
          \/ g[x] = "acquire" /\ groupErr' = groupErr /\ g' = [g EXCEPT ![x] = "err"]
          \/ groupErr' = TRUE /\ g' = [g EXCEPT ![x] = "done"]
      BY <2>5 DEF Goroutine, Acquire, AcquireFails, RecordError
    <3> QED
      BY <2>1, <2>a, <3>1, <3>2 DEF TypeOK, inBatch
  <2>6. ASSUME NEW r \in Reqs, EntryPoint(r) PROVE Settled'
    <3>a. /\ UNCHANGED <<lead, field, skipped, groupErr>>
          /\ failed' = failed \/ failed' = failed \cup {r}
          /\ \E v \in {"err", "done"} : g' = [g EXCEPT ![r] = v]
      BY <2>6 DEF EntryPoint, MethodFails, MethodReturns, ResponseUnusable
    <3>1. \A s \in Slots : inBatch(s)' => st'[s] = st[s] /\ errp'[s] = errp[s]
      <4>1. CASE MethodReturns(r)
        BY <4>1 DEF MethodReturns, withPatches, inBatch, Places, TypeOK
      <4>2. CASE MethodFails(r) \/ ResponseUnusable(r)
        BY <4>2 DEF MethodFails, ResponseUnusable
      <4> QED
        BY <2>6, <4>1, <4>2 DEF EntryPoint
    <3> QED
      BY <2>1, <2>a, <3>a, <3>1 DEF TypeOK, inBatch
  <2>7. CASE Accept
    <3>1. UNCHANGED <<st, lead, errp, field, skipped, failed, groupErr>>
          /\ \A b \in Slots : g'[b] = g[b]
      BY <2>7 DEF Accept, Places
    <3> QED
      BY <2>1, <2>a, <3>1 DEF inBatch
  <2>8. CASE BadParams \/ WaitRound \/ Reject \/ WaitEntries \/ Finish \/ Cancel
    BY <2>1, <2>8 DEF BadParams, WaitRound, Reject, WaitEntries, Finish, Cancel
  <2>9. CASE UNCHANGED vars
    BY <2>1, <2>9 DEF vars
  <2> QED
    BY <2>2, <2>3, <2>4, <2>5, <2>6, <2>7, <2>8, <2>9 DEF Next, System, Stitching
<1> QED
  BY <1>1, <1>2, CoreInvariant, AboveInvariant, SharedInvariant, ReasonsInvariant, PTL DEF Spec

(* Every entry point has a body by the time relations are resolved.        *)
LEMMA EnteredInvariant == Spec => []Entered
<1>1. Init => Entered
  BY DEF Init, StitcherInit, Entered
<1>2. Core /\ Entered /\ [Next]_vars => Entered'
  <2> SUFFICES ASSUME Core, Entered, [Next]_vars PROVE Entered'
    OBVIOUS
  <2> USE QueryAssumption DEF Core
  <2>1. ASSUME phase' = phase \/ phase' \in {"error", "panic"}, body' = body,
               \A r \in Reqs : (r \in failed' <=> r \in failed) /\ g'[r] = g[r],
               groupErr' = groupErr
        PROVE  Entered'
    BY <2>1 DEF Entered, IsError
  <2>2. ASSUME NEW x \in Places, Goroutine(x), UNCHANGED body PROVE Entered'
    <3>a. UNCHANGED <<phase, failed, body>>
      BY <2>2 DEF Goroutine, Acquire, AcquireFails, RecordError
    <3>1. CASE Acquire(x) \/ AcquireFails(x)
      <4>1. /\ g[x] = "acquire" /\ groupErr' = groupErr
            /\ \E v \in {"call", "err"} : g' = [g EXCEPT ![x] = v]
        BY <3>1 DEF Acquire, AcquireFails
      <4>2. \A r \in Reqs : g'[r] = g[r] \/ (g[r] = "acquire" /\ g'[r] \in {"call", "err"})
        BY <4>1 DEF TypeOK, Places
      <4> QED
        BY <3>a, <4>1, <4>2 DEF Entered, IsError
    <3>2. CASE RecordError(x)
      <4>1. /\ g[x] = "err" /\ groupErr' = TRUE
            /\ g' = [g EXCEPT ![x] = "done"]
        BY <3>2 DEF RecordError
      <4>2. \A r \in Reqs : g'[r] = g[r] \/ g'[r] = "done"
        BY <4>1 DEF TypeOK, Places
      <4> QED
        BY <3>a, <4>1, <4>2 DEF Entered, IsError
    <3> QED
      BY <2>2, <3>1, <3>2 DEF Goroutine
  <2>3. ASSUME NEW b \in Slots, ResolverGoroutine(b), UNCHANGED body PROVE Entered'
    <3>1. /\ UNCHANGED <<phase, groupErr>>
          /\ failed' = failed \/ failed' = failed \cup batch(b)
          /\ \E v \in {"err", "fail", "ok", "done"} : g' = [g EXCEPT ![b] = v]
      BY <2>3 DEF ResolverGoroutine, ResolverFails, ResolverReturns, BatchReturns
    <3> QED
      BY <2>1, <2>3, <3>1 DEF batch, TypeOK, Places
  <2>4. ASSUME NEW p \in Slots, AtPatch(p), UNCHANGED body PROVE Entered'
    <3>1. /\ UNCHANGED <<failed, groupErr>> /\ (phase' = phase \/ phase' = "panic")
          /\ g' = g \/ g' = [g EXCEPT ![lead[p]] = "err"]
          /\ st[p] = "batched"
      BY <2>4 DEF AtPatch, WriteError, WriteValue, SkipValue, FormatFails, atPatch
    <3>2. lead[p] \in Slots
      BY <3>1 DEF Batches, inBatch
    <3> QED
      BY <2>1, <2>4, <3>1, <3>2 DEF TypeOK, Places
  <2>5. ASSUME NEW r \in Reqs, EntryPoint(r) PROVE Entered'
    <3>a. phase = "entry" /\ g[r] = "call" /\ UNCHANGED <<phase, groupErr>> /\ r \in Places
      BY <2>5 DEF EntryPoint, MethodFails, MethodReturns, ResponseUnusable, calling, Places
    <3>b. ASSUME \A q \in Reqs \ {r} : /\ q \in failed' <=> q \in failed
                                       /\ g'[q] = g[q] /\ body'[q] = body[q],
                 /\ g'[r] # "none"
                 /\ g'[r] = "done" => body'[r] # "absent"
                 /\ g'[r] \in {"done", "err"}
                 /\ r \in failed' => g'[r] = "err" \/ shouldCatch(r)
                 /\ r \in failed' /\ shouldCatch(r) => IsError(body'[r])
          PROVE  Entered'
      BY <3>a, <3>b DEF Entered, IsError
    <3>1. CASE MethodFails(r)
      <4>1. /\ failed' = failed \cup {r}
            /\ IF shouldCatch(r) THEN g' = [g EXCEPT ![r] = "done"] /\ body' = [body EXCEPT ![r] = r]
               ELSE g' = [g EXCEPT ![r] = "err"] /\ UNCHANGED body
        BY <3>1 DEF MethodFails
      <4> QED
        BY <3>a, <3>b, <4>1 DEF TypeOK, IsError, Places
    <3>2. CASE MethodReturns(r)
      <4>1. /\ failed' = failed /\ r \notin failed
            /\ g' = [g EXCEPT ![r] = "done"] /\ body' = [body EXCEPT ![r] = "value"]
        BY <3>a, <3>2 DEF MethodReturns, Entered
      <4> QED
        BY <3>a, <3>b, <4>1 DEF TypeOK
    <3>3. CASE ResponseUnusable(r)
      <4>1. failed' = failed /\ r \notin failed /\ g' = [g EXCEPT ![r] = "err"] /\ body' = body
        BY <3>a, <3>3 DEF ResponseUnusable, Entered
      <4> QED
        BY <3>a, <3>b, <4>1 DEF TypeOK
    <3> QED
      BY <2>5, <3>1, <3>2, <3>3 DEF EntryPoint
  <2>6. CASE StartRound /\ UNCHANGED body
    <3>1. phase = "stitch" /\ phase' = "round" /\ UNCHANGED <<failed, body>>
      BY <2>6 DEF StartRound
    <3> QED
      BY <3>1 DEF Entered, IsError
  <2>7. CASE (BadParams \/ Cancel \/ Reject) /\ UNCHANGED body
    BY <2>1, <2>7 DEF BadParams, Cancel, Reject
  <2>8. CASE WaitRound /\ UNCHANGED body
    <3>1. phase = "round" /\ phase' \in {"error", "stitch"} /\ UNCHANGED <<failed, body>>
      BY <2>8 DEF WaitRound
    <3> QED
      BY <3>1 DEF Entered, IsError
  <2>9. CASE Accept
    <3>1. /\ phase = "validate" /\ phase' = "entry" /\ UNCHANGED <<failed, body>>
          /\ \A r \in Reqs : g'[r] = "acquire"
      BY <2>9 DEF Accept, Places
    <3> QED
      BY <3>1 DEF Entered, IsError
  <2>10. CASE WaitEntries
    <3>1. /\ phase = "entry" /\ UNCHANGED <<failed, body>>
          /\ phase' \in {"error", "stitch"} /\ (phase' = "stitch" => ~groupErr)
          /\ \A r \in Reqs : g[r] \in {"none", "done"}
      BY <2>10 DEF WaitEntries, allDone, Places
    <3> QED
      BY <3>1 DEF Entered, IsError
  <2>11. CASE Finish
    <3>1. /\ phase = "stitch" /\ phase' = "ok" /\ UNCHANGED failed
          /\ body' = [r \in Reqs |-> IF errp[r] = r /\ IsError(field[r])
                                     THEN field[r] ELSE body[r]]
      BY <2>11 DEF Finish
    <3>2. \A r \in Reqs : body'[r] = body[r] \/ IsError(body'[r])
      BY <3>1
    <3>3. "absent" \notin Places
      BY DEF Places
    <3> QED
      BY <3>1, <3>2, <3>3 DEF Entered, IsError
  <2>12. CASE UNCHANGED vars
    BY <2>1, <2>12 DEF vars
  <2> QED
    BY <2>2, <2>3, <2>4, <2>5, <2>6, <2>7, <2>8, <2>9, <2>10, <2>11, <2>12
    DEF Next, System, Stitching, Reject
<1> QED
  BY <1>1, <1>2, CoreInvariant, PTL DEF Spec

(* A handler that has returned an answer takes no further step.            *)
LEMMA Final ==
  ASSUME Core, [Next]_vars, phase = "ok"
  PROVE  UNCHANGED vars
<1> USE QueryAssumption DEF Core
<1>1. ASSUME NEW x \in Places, Goroutine(x) PROVE FALSE
  BY <1>1 DEF Goroutine, Acquire, AcquireFails, RecordError, Returned
<1>2. ASSUME NEW b \in Slots, ResolverGoroutine(b) PROVE FALSE
  BY <1>2 DEF ResolverGoroutine, ResolverFails, ResolverReturns, BatchReturns, Returned
<1>3. ASSUME NEW p \in Slots, AtPatch(p) PROVE FALSE
  BY <1>3 DEF AtPatch, WriteError, WriteValue, SkipValue, FormatFails, atPatch, Returned
<1>4. ASSUME NEW r \in Reqs, EntryPoint(r) PROVE FALSE
  BY <1>4 DEF EntryPoint, MethodFails, MethodReturns, ResponseUnusable, calling
<1>5. ASSUME StartRound \/ BadParams \/ WaitRound \/ Reject \/ Accept \/ WaitEntries
             \/ Finish \/ Cancel
      PROVE  FALSE
  BY <1>5 DEF StartRound, BadParams, WaitRound, Reject, Accept, WaitEntries, Finish, Cancel,
     Returned
<1> QED
  BY <1>1, <1>2, <1>3, <1>4, <1>5 DEF Next, System, Stitching

(* A response is ready only once nothing is queued, and the errors its     *)
(* entry points caught have taken their bodies' place.                     *)
LEMMA FinishedInvariant == Spec => []Finished
<1>1. Init => Finished
  BY DEF Init, StitcherInit, Finished
<1>2. Core /\ Finished /\ [Next]_vars => Finished'
  <2> SUFFICES ASSUME Core, Finished, [Next]_vars, phase' = "ok" PROVE Finished'
    BY DEF Finished
  <2>1. CASE phase = "ok"
    <3>1. UNCHANGED vars
      BY <2>1, Final
    <3> QED
      BY <3>1 DEF vars, Finished, IsError
  <2>2. CASE Finish
    BY <2>2 DEF Finish, queued, Finished, IsError
  <2>3. phase = "ok" \/ Finish
    <3>1. ASSUME NEW x \in Places, Goroutine(x) PROVE phase' = phase
      BY <3>1 DEF Goroutine, Acquire, AcquireFails, RecordError
    <3>2. ASSUME NEW b \in Slots, ResolverGoroutine(b) PROVE phase' = phase
      BY <3>2 DEF ResolverGoroutine, ResolverFails, ResolverReturns, BatchReturns
    <3>3. ASSUME NEW p \in Slots, AtPatch(p) PROVE phase' = phase
      BY <3>3 DEF AtPatch, WriteError, WriteValue, SkipValue, FormatFails
    <3>4. ASSUME NEW r \in Reqs, EntryPoint(r) PROVE phase' = phase
      BY <3>4 DEF EntryPoint, MethodFails, MethodReturns, ResponseUnusable
    <3>5. CASE StartRound \/ BadParams \/ WaitRound \/ Reject \/ Accept \/ WaitEntries
               \/ Cancel
      BY <3>5 DEF StartRound, BadParams, WaitRound, Reject, Accept, WaitEntries, Cancel
    <3>6. CASE UNCHANGED vars
      BY <3>6 DEF vars
    <3> QED
      BY <3>1, <3>2, <3>3, <3>4, <3>5, <3>6 DEF Next, System, Stitching
  <2> QED
    BY <2>1, <2>2, <2>3
<1> QED
  BY <1>1, <1>2, CoreInvariant, PTL DEF Spec

-----------------------------------------------------------------------------
(* What the caller sees.                                                   *)

(* When no goroutine is left and no error was recorded, every patch ever   *)
(* made is worked off, unless it is queued for another round.              *)
LEMMA AllSettled ==
  ASSUME Core, Reasons, Settled, phase \in {"stitch", "ok"}, NEW s \in Slots, st[s] # "none"
  PROVE  st[s] \in {"queued", "done"}
<1>1. Idle /\ ~groupErr
  BY DEF Core, Quiet, Reasons
<1>2. st[s] = "batched" => lead[s] \in Places
  BY DEF Core, Batches, inBatch, Places
<1> QED
  BY <1>1, <1>2 DEF Settled, Idle, Core, TypeOK, Patches

(* A successful response has no silent gap, for any query and any order of *)
(* events: what it reaches was resolved and shows a value or an error,     *)
(* unless its resolver said that there is none.  A goroutine that stops    *)
(* early, an error written elsewhere or a patch lost between two rounds    *)
(* would each leave one.                                                   *)
THEOREM NoGaps == Spec => []NoSilentGap
<1>1. Core /\ Bound /\ Reasons /\ Settled /\ Entered /\ Finished => NoSilentGap
  <2> SUFFICES ASSUME Core, Bound, Reasons, Settled, Entered, Finished, phase = "ok"
               PROVE  /\ \A r \in Reqs : body[r] # "absent"
                      /\ \A s \in Slots : st[s] # "none" /\ reached(s) =>
                            st[s] = "done" /\ (field[s] # "absent" \/ s \in skipped)
    BY DEF NoSilentGap
  <2>1. \A r \in Reqs : body[r] # "absent"
    BY DEF Entered
  <2>2. ASSUME NEW s \in Slots, st[s] # "none", reached(s)
        PROVE  st[s] = "done" /\ (field[s] # "absent" \/ s \in skipped)
    <3>1. st[s] = "done"
      BY <2>2, AllSettled DEF Finished
    <3>2. CASE s \notin failed
      BY <3>1, <3>2 DEF Settled
    <3>3. CASE s \in failed
      <4>1. errp[s] = Boundary[s] /\ errp[s] # Nil /\ IsError(field[errp[s]])
        BY <3>1, <3>3 DEF Settled, Bound
      <4>2. errp[s] \in Line[s] /\ errp[s] \in Places
        BY <4>1, BoundaryUp DEF Places
      <4>3. errp[s] \in Reqs => IsError(body[errp[s]])
        BY <2>2, <4>1 DEF Bound, Finished
      <4>4. IsError(shown(errp[s]))
        BY <4>1, <4>3 DEF shown
      <4>5. errp[s] = s
        BY <2>2, <4>2, <4>4 DEF reached
      <4> QED
        BY <3>1, <4>1, <4>5, QueryAssumption DEF IsError, Places
    <3> QED
      BY <3>1, <3>2, <3>3
  <2> QED
    BY <2>1, <2>2
<1> QED
  BY <1>1, CoreInvariant, BoundInvariant, ReasonsInvariant, SettledInvariant, EnteredInvariant,
     FinishedInvariant, PTL

(* The answer's errors are those of the failed calls, each at its nearest  *)
(* clause.                                                                 *)
LEMMA RightErrors ==
  ASSUME Core, Bound, Shared, Placed, Reasons, Settled, Entered, Finish
  PROVE  /\ \A p \in failed : Boundary[p] \in Places /\ IsError(shown(Boundary[p])')
         /\ \A q \in Places : IsError(shown(q)') =>
               shown(q)' \in failed /\ Boundary[shown(q)'] = q
<1> USE QueryAssumption DEF Core
<1>1. /\ phase = "stitch" /\ queued = {} /\ field' = field
      /\ body' = [r \in Reqs |-> IF errp[r] = r /\ IsError(field[r]) THEN field[r] ELSE body[r]]
  BY DEF Finish
<1>2. \A q \in Slots : shown(q)' = field[q]
  BY <1>1 DEF shown
<1>3. \A r \in Reqs : shown(r)' = IF errp[r] = r /\ IsError(field[r]) THEN field[r] ELSE body[r]
  BY <1>1 DEF shown
<1>4. ASSUME NEW p \in failed
      PROVE  Boundary[p] \in Places /\ IsError(shown(Boundary[p])')
  <2>1. p \in Slots \cup Reqs
    BY DEF TypeOK, Places
  <2>2. CASE p \in Slots
    <3>1. st[p] # "none"
      BY <2>2 DEF Shared, Batches, inBatch
    <3>2. st[p] = "done"
      BY <1>1, <2>2, <3>1, AllSettled DEF queued
    <3>3. errp[p] = Boundary[p] /\ errp[p] # Nil /\ IsError(field[errp[p]])
          /\ (errp[p] \in Reqs => errp[errp[p]] = errp[p])
      BY <2>2, <3>2 DEF Settled, Bound
    <3>4. Boundary[p] \in Slots \cup Reqs
      BY <2>2, <3>3, BoundaryUp DEF Places
    <3> QED
      BY <1>2, <1>3, <3>3, <3>4 DEF Places
  <2>3. CASE p \in Reqs
    <3>1. shouldCatch(p) /\ IsError(body[p])
      BY <1>1, <2>3 DEF Entered
    <3>2. Boundary[p] = p
      BY <2>3, <3>1, BoundaryUp DEF Places
    <3> QED
      BY <1>3, <2>3, <3>1, <3>2 DEF Places
  <2> QED
    BY <2>1, <2>2, <2>3
<1>5. ASSUME NEW q \in Places, IsError(shown(q)')
      PROVE  shown(q)' \in failed /\ Boundary[shown(q)'] = q
  <2>1. CASE IsError(field[q]) /\ shown(q)' = field[q]
    BY <2>1 DEF Placed
  <2>2. CASE q \in Reqs /\ shown(q)' = body[q]
    <3>1. body[q] = q /\ q \in failed /\ shouldCatch(q)
      BY <1>1, <1>5, <2>2 DEF Placed, IsError
    <3>2. Boundary[q] = q
      BY <3>1, BoundaryUp
    <3> QED
      BY <2>2, <3>1, <3>2
  <2>3. q \in Slots \cup Reqs
    BY DEF Places
  <2> QED
    BY <1>2, <1>3, <1>5, <2>1, <2>2, <2>3
<1> QED
  BY <1>4, <1>5

(* If masks that share a group key agree on whether they catch, Fetch and  *)
(* Do implement their abstract specification whatever the query and the    *)
(* schedule: to its caller a request runs, and then in one step either     *)
(* answers, with one error for each clause that caught a failure, the      *)
(* error of a call that has this clause as its nearest, and no other, or   *)
(* fails, because the caller gave up, something was unusable or a call     *)
(* failed that no clause catches.                                          *)
THEOREM RequestIsOneStep == ASSUME UniformMasks PROVE Spec => AnswersAtOnce
<1> DEFINE IInv == /\ Core /\ Bound /\ Shared /\ Placed /\ Reasons /\ Settled /\ Entered
                   /\ NoPanic
<1>1. Init => Answer!Init
  BY DEF Init, StitcherInit, Answer!Init, Returned
<1>2. IInv /\ NoPanic' /\ [Next]_vars => [Answer!Next]_(Answer!vars)
  <2> SUFFICES ASSUME Core, Bound, Shared, Placed, Reasons, Settled, Entered, NoPanic,
                      NoPanic', [Next]_vars
               PROVE  Answer!Next \/ UNCHANGED Answer!vars
    OBVIOUS
  <2> USE QueryAssumption DEF Core
  <2>a. Answer!Places = Places /\ Answer!Boundary = Boundary
    BY DEF Answer!Places, Places, Answer!Boundary, Boundary, Answer!upward, upward,
       Answer!shouldCatch, shouldCatch, Answer!fallbackCatch, fallbackCatch
  <2>1. ASSUME ~Returned, ~Returned', UNCHANGED <<failed, cancelled, broken>>
        PROVE  UNCHANGED Answer!vars
    BY <2>1 DEF Answer!vars, Returned
  <2>2. ASSUME ~Returned, ~Returned', UNCHANGED <<cancelled, broken>>,
               NEW more \in SUBSET Places, failed' = failed \cup more
        PROVE  Answer!Next
    <3>1. Answer!CallsFail
      BY <2>2 DEF Answer!CallsFail, Answer!Places, Places, Returned
    <3> QED
      BY <3>1 DEF Answer!Next
  <2>3. ASSUME ~Returned, ~Returned', cancelled' \/ broken', UNCHANGED failed
        PROVE  Answer!Next
    <3>1. Answer!Disturb
      BY <2>3 DEF Answer!Disturb, Returned
    <3> QED
      BY <3>1 DEF Answer!Next
  <2>4. ASSUME ~Returned, phase' = "error", UNCHANGED failed, Excuse',
               cancelled \/ broken => cancelled' \/ broken'
        PROVE  Answer!Next
    <3>1. Answer!Fail
      BY <2>a, <2>4 DEF Answer!Fail, Returned, Excuse
    <3> QED
      BY <3>1 DEF Answer!Next
  <2>5. CASE Finish
    <3>1. /\ phase = "stitch" /\ phase' = "ok" /\ UNCHANGED <<failed, cancelled, broken>>
      BY <2>5 DEF Finish
    <3>2. Answer!Succeed
      BY <2>a, <2>5, <3>1, RightErrors DEF Answer!Succeed, Returned, IsError
    <3> QED
      BY <3>2 DEF Answer!Next
  <2>6. ASSUME NEW x \in Places, Goroutine(x) PROVE UNCHANGED Answer!vars
    BY <2>1, <2>6 DEF Goroutine, Acquire, AcquireFails, RecordError, Returned
  <2>7. ASSUME NEW b \in Slots, ResolverGoroutine(b)
        PROVE  Answer!Next \/ UNCHANGED Answer!vars
    <3>1. CASE ResolverFails(b)
      <4>1. /\ ~Returned /\ ~Returned' /\ UNCHANGED <<cancelled, broken>>
            /\ failed' = failed \cup batch(b) /\ batch(b) \in SUBSET Places
        BY <3>1 DEF ResolverFails, batch, Places, Returned
      <4> QED
        BY <2>2, <4>1
    <3>2. CASE ResolverReturns(b) \/ BatchReturns(b)
      BY <2>1, <3>2 DEF ResolverReturns, BatchReturns, Returned
    <3> QED
      BY <2>7, <3>1, <3>2 DEF ResolverGoroutine
  <2>8. ASSUME NEW p \in Slots, AtPatch(p)
        PROVE  Answer!Next \/ UNCHANGED Answer!vars
    <3>1. CASE WriteError(p) \/ WriteValue(p) \/ SkipValue(p)
      BY <2>1, <3>1 DEF WriteError, WriteValue, SkipValue, atPatch, Returned, NoPanic
    <3>2. CASE FormatFails(p)
      BY <2>3, <3>2 DEF FormatFails, atPatch, Returned
    <3> QED
      BY <2>8, <3>1, <3>2 DEF AtPatch
  <2>9. ASSUME NEW r \in Reqs, EntryPoint(r)
        PROVE  Answer!Next \/ UNCHANGED Answer!vars
    <3>1. CASE MethodFails(r)
      <4>1. /\ ~Returned /\ ~Returned' /\ UNCHANGED <<cancelled, broken>>
            /\ failed' = failed \cup {r} /\ {r} \in SUBSET Places
        BY <3>1 DEF MethodFails, calling, Places, Returned
      <4> QED
        BY <2>2, <4>1
    <3>2. CASE MethodReturns(r)
      BY <2>1, <3>2 DEF MethodReturns, calling, Returned
    <3>3. CASE ResponseUnusable(r)
      BY <2>3, <3>3 DEF ResponseUnusable, calling, Returned
    <3> QED
      BY <2>9, <3>1, <3>2, <3>3 DEF EntryPoint
  <2>10. CASE StartRound \/ Accept
    BY <2>1, <2>10 DEF StartRound, Accept, Returned
  <2>11. CASE BadParams \/ Reject
    BY <2>4, <2>11 DEF BadParams, Reject, Returned, Excuse
  <2>12. CASE WaitRound \/ WaitEntries
    <3>1. /\ ~Returned /\ UNCHANGED <<failed, cancelled, broken>>
          /\ phase' = IF groupErr THEN "error" ELSE "stitch"
      BY <2>12 DEF WaitRound, WaitEntries, Returned
    <3>2. CASE groupErr
      <4>1. Excuse'
        BY <3>1, <3>2 DEF Reasons, Excuse
      <4> QED
        BY <2>4, <3>1, <3>2, <4>1
    <3>3. CASE ~groupErr
      BY <2>1, <3>1, <3>3 DEF Returned
    <3> QED
      BY <3>2, <3>3
  <2>13. CASE Cancel
    BY <2>3, <2>13 DEF Cancel, Returned
  <2>14. CASE UNCHANGED vars
    BY <2>14 DEF vars, Answer!vars, Returned, shown
  <2> QED
    BY <2>5, <2>6, <2>7, <2>8, <2>9, <2>10, <2>11, <2>12, <2>13, <2>14
    DEF Next, System, Stitching
<1>3. Spec => []NoPanic
  BY UniformMasksNeverPanic
<1> QED
  BY <1>1, <1>2, <1>3, CoreInvariant, BoundInvariant, SharedInvariant, PlacedInvariant,
     ReasonsInvariant, SettledInvariant, EnteredInvariant, PTL
  DEF Spec, AnswersAtOnce, Answer!Spec
=============================================================================
