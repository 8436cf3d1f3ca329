--------------------------- MODULE PatchPathsProofs ---------------------------
(***************************************************************************)
(* Theorems about PatchPaths: the headers of the resolvers' calls, and the *)
(* paths that are kept in arrays which their appends share.                *)
(***************************************************************************)
EXTENDS PatchPaths, TLAPS

-----------------------------------------------------------------------------
(* The values that a name may be a part of.                                *)

(* The last element of a path counts as its base only if it is one.        *)
LEMMA LastBase ==
  ASSUME NEW path \in Seq(Names \cup {Method}), NEW last \in Names \cup {Method}, NEW base
  PROVE  lastBase(Append(path, last), base) <=>
           \/ base = last
           \/ last \in Fields /\ lastBase(path, base)
<1> DEFINE more == Append(path, last)
<1>1. /\ Len(more) = Len(path) + 1 /\ more[Len(path) + 1] = last
      /\ \A i \in 1 .. Len(path) : more[i] = path[i]
      /\ DOMAIN path = 1 .. Len(path) /\ DOMAIN more = 1 .. Len(more) /\ Len(path) \in Nat
  OBVIOUS
<1> HIDE DEF more
<1>2. ASSUME base = last PROVE lastBase(more, base)
  <2>1. Len(more) \in DOMAIN more /\ more[Len(more)] = base
        /\ \A j \in Len(more) + 1 .. Len(more) : more[j] \in Fields
    BY <1>1, <1>2
  <2> QED BY <2>1 DEF lastBase
<1>3. ASSUME last \in Fields, lastBase(path, base) PROVE lastBase(more, base)
  <2>1. PICK i \in DOMAIN path :
           path[i] = base /\ \A j \in i + 1 .. Len(path) : path[j] \in Fields
    BY <1>3 DEF lastBase
  <2>2. i \in DOMAIN more /\ more[i] = base
    BY <1>1, <2>1
  <2>3. ASSUME NEW j \in i + 1 .. Len(more) PROVE more[j] \in Fields
    <3>1. CASE j = Len(more)
      BY <1>1, <1>3, <3>1
    <3>2. CASE j # Len(more)
      BY <1>1, <2>1, <3>2
    <3> QED BY <3>1, <3>2
  <2> QED BY <2>2, <2>3 DEF lastBase
<1>4. ASSUME lastBase(more, base), base # last PROVE last \in Fields /\ lastBase(path, base)
  <2>1. PICK i \in DOMAIN more :
           more[i] = base /\ \A j \in i + 1 .. Len(more) : more[j] \in Fields
    BY <1>4 DEF lastBase
  <2>2. i \in 1 .. Len(path)
    BY <1>1, <1>4, <2>1
  <2>3. more[Len(more)] \in Fields /\ path[i] = base
        /\ \A j \in i + 1 .. Len(path) : path[j] \in Fields
    BY <1>1, <2>1, <2>2
  <2> QED BY <1>1, <2>2, <2>3 DEF lastBase
<1> QED BY <1>2, <1>3, <1>4 DEF more

(* The name that is looked for below base is below no other.               *)
LEMMA BaseOf ==
  ASSUME NEW n \in Names, NEW base \in Bases, Within[n] \in {base} \cup InValue[base]
  PROVE  Base[n] = base
<1> DEFINE up == Within[n]
<1>1. up \in Names \cup {Method} /\ \A b \in Bases : b \notin Fields
  BY PathsAssumption, PathAssumption DEF Fields, Bases
<1>2. CASE up = base
  <2>1. PICK path \in Seq(Names \cup {Method}) : Path[up] = Append(path, base)
    <3>1. CASE base = Method
      <4>1. << >> \in Seq(Names \cup {Method}) /\ Path[up] = Append(<< >>, base)
        BY <1>2, <3>1, PathAssumption
      <4> QED BY <4>1
    <3>2. CASE base # Method
      <4>1. base \in Names
        BY <3>2, PathsAssumption DEF Bases
      <4>2. Path[up] = Append(Path[Within[base]], base)
            /\ Path[Within[base]] \in Seq(Names \cup {Method})
        BY <1>2, <4>1, PathAssumption
      <4> QED BY <4>2
    <3> QED BY <3>1, <3>2
  <2>2. ASSUME NEW b \in Bases PROVE lastBase(Path[up], b) <=> b = base
    <3>1. base \in Names \cup {Method} /\ base \notin Fields
      BY <1>1, <1>2
    <3>2. lastBase(Append(path, base), b) <=> b = base
      BY <3>1, LastBase
    <3> QED BY <2>1, <3>2, Zenon
  <2> HIDE DEF up
  <2>3. (CHOOSE b \in Bases : lastBase(Path[up], b)) = base
    BY <2>2
  <2> QED BY <2>3 DEF Base, up
<1>3. CASE up # base
  <2>1. up \in Fields /\ up \in Names /\ Base[up] = base
    BY <1>3 DEF InValue, Fields
  <2>2. Path[up] = Append(Path[Within[up]], up) /\ Path[Within[up]] \in Seq(Names \cup {Method})
    BY <2>1, PathAssumption
  <2>3. ASSUME NEW b \in Bases PROVE lastBase(Path[up], b) <=> lastBase(Path[Within[up]], b)
    <3> DEFINE path == Path[Within[up]]
    <3>1. path \in Seq(Names \cup {Method}) /\ Path[up] = Append(path, up) /\ b # up
      BY <1>1, <2>1, <2>2
    <3> HIDE DEF path
    <3>2. lastBase(Append(path, up), b) <=> lastBase(path, b)
      BY <1>1, <2>1, <3>1, LastBase
    <3>3. lastBase(Path[up], b) <=> lastBase(path, b)
      BY <3>1, <3>2, Zenon
    <3> QED BY <3>3 DEF path
  <2>4. Base[n] = Base[up]
    BY <2>1, <2>3 DEF Base
  <2> QED BY <2>1, <2>4
<1> QED BY <1>2, <1>3

-----------------------------------------------------------------------------
(* The order of things.                                                    *)

All == Names \cup {Method}

Types ==
    /\ slice \in [All -> slices \cup {none}]
    /\ DOMAIN heap = All
    /\ DOMAIN fields = Bases
    /\ stage \in [Bases -> {"none", "queued", "call", "format", "append", "done"}]
    /\ words \in [Relations -> SUBSET Words]
    /\ DOMAIN reported = Relations
    /\ meta \in [Bases -> resolveMeta \cup {none}]
    /\ DOMAIN sent = Relations

(* A value has a path once it is there, and then its fields are formatted; *)
(* a relation is queued when the value that it is in, and so the message   *)
(* that it is in, has been formatted.                                      *)
Rounds ==
    /\ stage[Method] \in {"none", "format", "done"}
    /\ \A b \in Bases :
          /\ fields[b] \in shapes(b)
          /\ stage[b] \in {"none", "queued", "call", "append"} => slice[b] = none
          /\ stage[b] = "format" => slice[b] # none
    /\ \A r \in Relations : stage[r] # "none" =>
          Base[r] \in Bases /\ stage[Base[r]] = "done" /\ slice[Within[r]] # none

Order == Types /\ Rounds

(* What is called a value, a field, a relation.                            *)
LEMMA Sorts ==
  /\ Relations \subseteq Names /\ Bases \subseteq All /\ Fields \subseteq All
  /\ Method \notin Names /\ Method \in Bases
  /\ \A n \in All : n \in Fields <=> n \notin Bases
  /\ \A n \in Names : Within[n] \in All
  BY PathsAssumption, PathAssumption DEF All, Bases, Fields

(* A path is never none.                                                    *)
LEMMA NotNone == \A a \in All, l \in Nat : [arr |-> a, len |-> l] # none
  BY NoneAssumption DEF slices, All

(* Patches made of a value of base are based there.                        *)
LEMMA PatchesOf ==
  ASSUME Rounds, NEW base \in Bases, NEW r \in patches(base)
  PROVE  r \in Relations /\ Base[r] = base
  BY BaseOf, PathsAssumption DEF Rounds, shapes, patches

(* A field is formatted after the one whose message it is in.              *)
LEMMA UpFirst ==
  ASSUME Order, NEW base \in Bases, NEW n, FormatField(base, n)
  PROVE  /\ n \in Fields /\ n \in Names /\ slice[n] = none
         /\ slice[Within[n]] # none /\ slice[Within[n]] \in slices
<1>1. n \in fields[base] /\ slice[n] = none
  BY DEF FormatField, unformatted
<1>2. fields[base] \subseteq Fields /\ Within[n] \in fields[base] \cup {base}
  BY <1>1 DEF Order, Rounds, shapes, InValue
<1>3. CASE Within[n] = base
  BY <1>1, <1>2, <1>3, Sorts DEF FormatField, Order, Rounds, Types, Fields
<1>4. CASE Within[n] # base
  <2>1. Within[n] \in fields[base] /\ Within[n] # Method
    BY <1>2, <1>4, Sorts DEF Fields
  <2>2. PICK i \in DOMAIN Mask :
           Mask[i] = n /\ \A j \in 1 .. i - 1 : Mask[j] \notin unformatted(base)
    BY DEF FormatField, first
  <2>3. PICK j \in 1 .. i - 1 : Mask[j] = Within[n]
    BY <2>1, <2>2, PathsAssumption
  <2>4. slice[Within[n]] # none
    BY <2>1, <2>2, <2>3 DEF unformatted
  <2> QED BY <1>1, <1>2, <2>1, <2>4, Sorts DEF Order, Types, Fields
<1> QED BY <1>3, <1>4

(* Where a relation is being resolved, the message it is in has a path.    *)
LEMMA UpOf ==
  ASSUME Order, NEW r \in Relations, stage[r] # "none"
  PROVE  slice[Within[r]] \in slices /\ slice[Within[r]] # none /\ Within[r] \in All
  BY Sorts DEF Order, Rounds, Types

(* What each step does to the paths: it gives one to a name that had none, *)
(* or to nobody.                                                           *)
LEMMA PathGiven ==
  ASSUME Order, [PathsNext]_pathVars
  PROVE  \/ slice' = slice
         \/ \E n \in All, p \in slices : slice[n] = none /\ slice' = [slice EXCEPT ![n] = p]
<1>1. CASE FormatResponse
  <2>1. slice[Method] = none /\ [arr |-> Method, len |-> 1] \in slices
    BY <1>1, Sorts DEF FormatResponse, Order, Rounds, slices
  <2> QED BY <1>1, <2>1 DEF FormatResponse, begin, All
<1>2. ASSUME NEW base \in Bases, NEW n \in Fields, FormatField(base, n)
      PROVE  \E p \in slices : slice[n] = none /\ slice' = [slice EXCEPT ![n] = p]
  <2>1. slice[n] = none /\ slice[Within[n]] \in slices /\ n \in All
    BY <1>2, UpFirst, Sorts
  <2> DEFINE up == slice[Within[n]]
             given == [arr |-> IF room(up) THEN up.arr ELSE n, len |-> up.len + 1]
  <2>2. given \in slices
    BY <2>1 DEF slices, All
  <2>3. slice' = [slice EXCEPT ![n] = given]
    BY <1>2 DEF FormatField, append
  <2> QED BY <2>1, <2>2, <2>3
<1>3. ASSUME NEW r \in Relations, Resolve(r)
      PROVE  \E p \in slices : slice[r] = none /\ slice' = [slice EXCEPT ![r] = p]
  <2>1. stage[r] = "call" /\ r \in Bases /\ r \in All
    BY <1>3, Sorts DEF Resolve, Bases
  <2>2. slice[r] = none
    BY <2>1 DEF Order, Rounds
  <2>3. slice[Within[r]] \in slices
    BY <2>1, UpOf
  <2> DEFINE given == [arr |-> r, len |-> slice[Within[r]].len + 1]
  <2>4. given \in slices
    BY <2>1, <2>3 DEF slices, All
  <2>5. slice' = [slice EXCEPT ![r] = given]
    BY <1>3 DEF Resolve, begin, resolvedPath
  <2> QED BY <2>2, <2>4, <2>5
<1>4. \/ FormatResponse \/ slice' = slice
      \/ \E base \in Bases, n \in Fields : FormatField(base, n)
      \/ \E r \in Relations : Resolve(r)
  BY DEF PathsNext, StartCalls, Formatted, ResolveToNothing, ResolveFails, Join, WriteWord, pathVars
<1>5. Fields \subseteq All /\ Relations \subseteq All
  BY Sorts DEF All
<1> QED BY <1>1, <1>2, <1>3, <1>4, <1>5, Zenon

(* Every path that was given is kept.                                      *)
LEMMA PathsKept ==
  ASSUME Order, [PathsNext]_pathVars
  PROVE  /\ slice' \in [All -> slices \cup {none}]
         /\ \A n \in All : slice[n] # none => slice'[n] = slice[n]
<1>1. CASE slice' = slice
  BY <1>1 DEF Order, Types
<1>2. ASSUME NEW n \in All, NEW p \in slices, slice[n] = none, slice' = [slice EXCEPT ![n] = p]
      PROVE  /\ slice' \in [All -> slices \cup {none}]
             /\ \A m \in All : slice[m] # none => slice'[m] = slice[m]
  BY <1>2 DEF Order, Types
<1> QED BY <1>1, <1>2, PathGiven

(* The rest of the types.                                                  *)
LEMMA TypesKept ==
  ASSUME Order, [PathsNext]_pathVars, meta' \in [Bases -> resolveMeta \cup {none}]
  PROVE  Types'
<1> USE DEF Order, Types
<1>1. slice' \in [All -> slices \cup {none}]
  BY PathsKept
<1>2. CASE FormatResponse \/ StartCalls
  BY <1>1, <1>2, Sorts DEF FormatResponse, StartCalls, begin
<1>3. ASSUME NEW base \in Bases, Formatted(base) \/ \E n \in Fields : FormatField(base, n)
      PROVE  Types'
  BY <1>1, <1>3 DEF Formatted, FormatField, append
<1>4. ASSUME NEW r \in Relations, Resolve(r) \/ ResolveToNothing(r)
      PROVE  Types'
  <2>1. r \in Bases
    BY Sorts DEF Bases
  <2>2. DOMAIN heap' = All
    BY <1>4 DEF Resolve, ResolveToNothing, begin, resolvedPath
  <2> QED BY <1>1, <1>4, <2>1, <2>2 DEF Resolve, ResolveToNothing, begin
<1>5. ASSUME NEW r \in Relations, ResolveFails(r) \/ Join(r) \/ \E w \in Words : WriteWord(r, w)
      PROVE  Types'
  <2>1. r \in Bases
    BY Sorts DEF Bases
  <2>2. words' \in [Relations -> SUBSET Words] /\ DOMAIN heap' = All
    BY <1>5 DEF ResolveFails, Join, WriteWord
  <2>3. /\ stage' \in [Bases -> {"none", "queued", "call", "format", "append", "done"}]
        /\ DOMAIN reported' = Relations
    BY <1>5, <2>1 DEF ResolveFails, Join, WriteWord
  <2> QED BY <1>1, <1>5, <2>2, <2>3 DEF ResolveFails, Join, WriteWord
<1>6. CASE UNCHANGED pathVars
  BY <1>1, <1>6 DEF pathVars
<1> QED BY <1>2, <1>3, <1>4, <1>5, <1>6 DEF PathsNext

(* The rounds go on as they should.                                        *)
LEMMA RoundsKept ==
  ASSUME Order, [PathsNext]_pathVars
  PROVE  Rounds'
<1>1. \A n \in All : slice[n] # none => slice'[n] # none
  BY PathsKept
<1>2. ASSUME \A r \in Relations : stage'[r] # "none" => stage[r] # "none",
             \A b \in Bases : stage[b] = "done" => stage'[b] = "done"
      PROVE  \A r \in Relations : stage'[r] # "none" =>
                Base[r] \in Bases /\ stage'[Base[r]] = "done" /\ slice'[Within[r]] # none
  BY <1>1, <1>2, Sorts DEF Order, Rounds
<1>3. Bases \subseteq All /\ Relations \subseteq Bases /\ Method \in Bases /\ Method \notin Relations
  BY Sorts DEF Bases
<1>4. CASE FormatResponse
  <2>1. PICK present \in shapes(Method) : fields' = [fields EXCEPT ![Method] = present]
    BY <1>4 DEF FormatResponse, begin
  <2>2. stage[Method] = "none" /\ stage' = [stage EXCEPT ![Method] = "format"]
        /\ slice' = [slice EXCEPT ![Method] = [arr |-> Method, len |-> 1]]
    BY <1>4 DEF FormatResponse, begin
  <2>3. slice'[Method] # none /\ \A b \in Bases \ {Method} : slice'[b] = slice[b]
    BY <1>3, <2>2, NotNone DEF Order, Types
  <2>4. \A b \in Bases : fields'[b] \in shapes(b)
    BY <2>1 DEF Order, Types, Rounds
  <2>5. \A b \in Bases \ {Method} : stage'[b] = stage[b]
    BY <2>2 DEF Order, Types
  <2>6. stage'[Method] = "format"
    BY <1>3, <2>2 DEF Order, Types
  <2> QED BY <1>2, <1>3, <2>2, <2>3, <2>4, <2>5, <2>6 DEF Order, Rounds, shapes
<1>5. CASE StartCalls
  <2>1. UNCHANGED <<slice, fields>>
        /\ \A b \in Bases : stage'[b] = IF stage[b] = "queued" THEN "call" ELSE stage[b]
    BY <1>5 DEF StartCalls
  <2> QED BY <1>2, <1>3, <2>1 DEF Order, Rounds, shapes
<1>6. ASSUME NEW base \in Bases, NEW n \in Fields, FormatField(base, n)
      PROVE  Rounds'
  <2>1. UNCHANGED <<stage, fields>>
    BY <1>6 DEF FormatField
  <2>2. \A b \in Bases : slice'[b] = slice[b]
    BY <1>3, <1>6, Sorts DEF FormatField, append, Order, Types
  <2> QED BY <1>2, <2>1, <2>2 DEF Order, Rounds, shapes
<1>7. ASSUME NEW base \in Bases, Formatted(base)
      PROVE  Rounds'
  <2>1. /\ UNCHANGED <<slice, fields>> /\ stage[base] = "format" /\ unformatted(base) = {}
        /\ \A b \in Bases : stage'[b] = IF b = base THEN "done"
                                     ELSE IF b \in patches(base) THEN "queued" ELSE stage[b]
    BY <1>7 DEF Formatted
  <2>2. ASSUME NEW r \in patches(base)
        PROVE  r \in Relations /\ Base[r] = base /\ stage[r] = "none" /\ slice[Within[r]] # none
    <3>1. r \in Relations /\ Base[r] = base
      BY PatchesOf DEF Order
    <3>2. stage[r] = "none"
      BY <2>1, <3>1 DEF Order, Rounds
    <3>3. slice[Within[r]] # none
      BY <2>1 DEF patches, unformatted, Order, Rounds
    <3> QED BY <3>1, <3>2, <3>3
  <2>3. \A b \in Bases : stage[b] = "done" => stage'[b] = "done"
    BY <2>1, <2>2
  <2>4. \A r \in Relations : stage'[r] # "none" =>
           Base[r] \in Bases /\ stage'[Base[r]] = "done" /\ slice'[Within[r]] # none
    <3>1. ASSUME NEW r \in Relations, stage[r] # "none"
          PROVE  Base[r] \in Bases /\ stage'[Base[r]] = "done" /\ slice'[Within[r]] # none
      BY <2>1, <2>3, <3>1 DEF Order, Rounds
    <3>2. ASSUME NEW r \in Relations, r \in patches(base)
          PROVE  Base[r] \in Bases /\ stage'[Base[r]] = "done" /\ slice'[Within[r]] # none
      BY <2>1, <2>2, <3>2
    <3>3. ASSUME NEW r \in Relations, r = base
          PROVE  stage[r] # "none"
      BY <2>1, <3>3
    <3> QED BY <1>3, <2>1, <3>1, <3>2, <3>3
  <2>5. \A b \in Bases : stage'[b] \in {"none", "queued", "call", "append"} => slice[b] = none
    BY <2>1, <2>2, <1>3 DEF Order, Rounds
  <2>6. \A b \in Bases : stage'[b] = "format" => slice[b] # none
    BY <2>1 DEF Order, Rounds
  <2>7. stage'[Method] \in {"none", "format", "done"}
    BY <1>3, <2>1, <2>2 DEF Order, Rounds
  <2> QED BY <2>1, <2>4, <2>5, <2>6, <2>7 DEF Order, Rounds, shapes
<1>8. ASSUME NEW r \in Relations, Resolve(r)
      PROVE  Rounds'
  <2>1. PICK present \in shapes(r) : fields' = [fields EXCEPT ![r] = present]
    BY <1>8 DEF Resolve, begin
  <2> DEFINE given == [arr |-> r, len |-> slice[Within[r]].len + 1]
  <2>2. stage[r] = "call" /\ stage' = [stage EXCEPT ![r] = "format"] /\ slice' = [slice EXCEPT ![r] = given]
    BY <1>8 DEF Resolve, begin, resolvedPath
  <2>3. given # none
    <3>1. slice[Within[r]] \in slices /\ r \in All
      BY <1>3, <2>2, UpOf
    <3> QED BY <3>1, NotNone DEF slices
  <2>4. slice'[r] # none /\ \A b \in Bases \ {r} : slice'[b] = slice[b]
    BY <1>3, <2>2, <2>3 DEF Order, Types
  <2>5. \A b \in Bases : fields'[b] \in shapes(b)
    BY <2>1 DEF Order, Types, Rounds
  <2>6. stage'[r] = "format" /\ \A b \in Bases \ {r} : stage'[b] = stage[b]
    BY <1>3, <2>2 DEF Order, Types
  <2> QED BY <1>2, <1>3, <2>2, <2>4, <2>5, <2>6 DEF Order, Rounds, shapes
<1>9. ASSUME NEW r \in Relations,
             ResolveToNothing(r) \/ ResolveFails(r) \/ Join(r) \/ \E w \in Words : WriteWord(r, w)
      PROVE  Rounds'
  <2>1. UNCHANGED <<slice, fields>>
    BY <1>9 DEF ResolveToNothing, ResolveFails, Join, WriteWord
  <2>2. \/ stage' = stage
        \/ stage[r] \in {"call", "append"} /\ \E x \in {"append", "done"} : stage' = [stage EXCEPT ![r] = x]
    BY <1>9 DEF ResolveToNothing, ResolveFails, Join, WriteWord
  <2>3. /\ \A b \in Bases \ {r} : stage'[b] = stage[b]
        /\ \/ stage'[r] = stage[r]
           \/ stage[r] \in {"call", "append"} /\ stage'[r] \in {"append", "done"}
    BY <1>3, <2>2 DEF Order, Types
  <2> QED BY <1>2, <1>3, <2>1, <2>3 DEF Order, Rounds, shapes
<1>10. CASE UNCHANGED pathVars
  BY <1>10 DEF pathVars, Order, Rounds, shapes
<1> QED BY <1>4, <1>5, <1>6, <1>7, <1>8, <1>9, <1>10 DEF PathsNext

-----------------------------------------------------------------------------
(* The headers.                                                            *)

(* The resolveMeta of a value of base tells how the value came about, and  *)
(* for whom.                                                               *)
Right(base) ==
    /\ base \in Bases
    /\ meta[base] \in resolveMeta /\ meta[Method] \in resolveMeta
    /\ meta[base].cert = meta[Method].cert
    /\ Trace(meta[base].operations, base)

(* What is formatted has it, and so has what is to be resolved.            *)
Based ==
    /\ \A b \in Bases : stage[b] = "format" => Right(b)
    /\ \A r \in Relations : stage[r] \in {"queued", "call"} => Right(Base[r])

(* Before the response is there nothing has been called.                   *)
Called ==
    /\ HeadersReachResolvers
    /\ stage[Method] = "none" => \A r \in Relations : sent[r] = none /\ stage[r] = "none"

Headers == Order /\ Based /\ Called

(* The headers of a call by a client with this certificate, after these    *)
(* operations.                                                             *)
Proper(headers, cert, operations) ==
    LET own == {knitOperationsHeader, userAgentHeader}
               \cup (IF cert = none THEN {} ELSE {clientIdentityHeader})
    IN  /\ headers[knitOperationsHeader] = operations
        /\ cert # none => headers[clientIdentityHeader] = <<cert>>
        /\ Last(headers[userAgentHeader]) = "knitgateway"
        /\ DOMAIN headers = (DOMAIN Inbound \cap Kept) \cup own
        /\ \A h \in DOMAIN headers \ own : headers[h] = Inbound[h]

(* What is called with a resolveMeta that is right is called rightly.      *)
LEMMA OutboundRight ==
  ASSUME NEW m \in resolveMeta
  PROVE  Proper(outbound(m), m.cert, m.operations)
<1> USE DEF Proper
<1> DEFINE passed == propagateHeaders(Inbound, << >>)
           toR    == toHeaders(m)
           named  == UserAgentInterceptor(toR)
<1> USE DEF knitOperationsHeader, userAgentHeader, clientIdentityHeader
<1>1. /\ DOMAIN passed = DOMAIN Inbound \cap Kept
      /\ \A h \in DOMAIN passed : passed[h] = Inbound[h]
  BY DEF propagateHeaders
<1>2. m.headers = passed /\ m.operations \in Seq(Names \cup {Procedure, Method})
  BY DEF resolveMeta
<1>3. /\ DOMAIN toR = (DOMAIN Inbound \cap Kept) \cup {knitOperationsHeader}
      /\ toR[knitOperationsHeader] = m.operations
      /\ \A h \in DOMAIN toR \ {knitOperationsHeader} : toR[h] = Inbound[h]
  BY <1>1, <1>2 DEF toHeaders
<1>4. userAgentHeader \in DOMAIN toR => toR[userAgentHeader] \in Seq(STRING)
  BY <1>3, PathsAssumption
<1>5. /\ DOMAIN named = DOMAIN toR \cup {userAgentHeader}
      /\ \A h \in DOMAIN named \ {userAgentHeader} : named[h] = toR[h]
  BY DEF UserAgentInterceptor, set
<1>6. Last(named[userAgentHeader]) = "knitgateway"
  <2> DEFINE before == IF userAgentHeader \in DOMAIN toR THEN toR[userAgentHeader]
                       ELSE <<"connect">>
  <2>1. before \in Seq(STRING \cup {"connect"})
    <3>1. \A T, x : <<x>> \in Seq(T \cup {x}) /\ \A s \in Seq(T) : s \in Seq(T \cup {x})
      OBVIOUS
    <3> QED BY <1>4, <3>1, Zenon
  <2>2. named[userAgentHeader] = before \o <<"knitgateway">>
    BY DEF UserAgentInterceptor, set
  <2> HIDE DEF before
  <2> QED BY <2>1, <2>2 DEF Last
<1>7. outbound(m) = certForwardingInterceptor(m.cert, named)
  BY DEF outbound
<1>8. CASE m.cert = none
  BY <1>3, <1>5, <1>6, <1>7, <1>8 DEF certForwardingInterceptor
<1>9. CASE m.cert # none
  <2>1. outbound(m) = set(named, clientIdentityHeader, <<m.cert>>)
    BY <1>7, <1>9 DEF certForwardingInterceptor
  <2> QED BY <1>3, <1>5, <1>6, <1>9, <2>1 DEF set
<1> QED BY <1>8, <1>9

(* One more resolver leads to a value of the relation that it resolves.    *)
LEMMA TraceGrows ==
  ASSUME NEW r \in Relations, NEW ops \in Seq(Names \cup {Procedure, Method}),
         Trace(ops, Base[r])
  PROVE  /\ Append(ops, r) \in Seq(Names \cup {Procedure, Method})
         /\ Trace(Append(ops, r), r)
  BY PathsAssumption DEF Trace

(* The response comes once, before anything is called.                     *)
LEMMA FormatResponseKeeps ==
  ASSUME Headers, FormatResponse
  PROVE  meta' \in [Bases -> resolveMeta \cup {none}] /\ Based' /\ Called'
<1>1. stage[Method] = "none" /\ stage' = [stage EXCEPT ![Method] = "format"]
  BY DEF FormatResponse, begin
<1>2. PICK cert \in Subjects \cup {none} : meta' = [meta EXCEPT ![Method] = newMeta(cert)]
  BY DEF FormatResponse
<1>3. newMeta(cert) \in resolveMeta /\ Trace(newMeta(cert).operations, Method)
  BY DEF newMeta, resolveMeta, Trace
<1>4. \A r \in Relations : r \in Bases /\ r # Method /\ stage'[r] = "none"
  BY <1>1, Sorts DEF Bases, Headers, Called, Order, Types
<1>5. meta' \in [Bases -> resolveMeta \cup {none}]
  BY <1>2, <1>3, Sorts DEF Headers, Order, Types
<1>6. Right(Method)'
  BY <1>2, <1>3, Sorts DEF Right, Headers, Order, Types, Trace
<1>7. Based'
  BY <1>4, <1>6 DEF Based, Bases
<1>8. Called'
  BY <1>1, <1>4, Sorts DEF FormatResponse, Headers, Called, HeadersReachResolvers, Order, Types
<1> QED BY <1>5, <1>7, <1>8

(* The calls of a round are made with the resolveMeta of their patches.    *)
LEMMA StartRoundKeeps ==
  ASSUME Headers, StartCalls
  PROVE  Based' /\ Called'
<1>1. /\ UNCHANGED meta /\ Method \in Bases /\ Relations \subseteq Bases
      /\ \A b \in Bases : stage'[b] = IF stage[b] = "queued" THEN "call" ELSE stage[b]
  BY Sorts DEF StartCalls, Bases
<1>2. Based'
  BY <1>1 DEF Headers, Based, Right
<1>3. ASSUME NEW r \in Relations, sent'[r] # none
      PROVE  LET cert == meta[Method].cert
                 own  == {knitOperationsHeader, userAgentHeader}
                         \cup (IF cert = none THEN {} ELSE {clientIdentityHeader})
             IN  /\ Trace(sent'[r][knitOperationsHeader], Base[r])
                 /\ cert # none => sent'[r][clientIdentityHeader] = <<cert>>
                 /\ Last(sent'[r][userAgentHeader]) = "knitgateway"
                 /\ DOMAIN sent'[r] = (DOMAIN Inbound \cap Kept) \cup own
                 /\ \A h \in DOMAIN sent'[r] \ own : sent'[r][h] = Inbound[h]
  <2>1. CASE stage[r] = "queued"
    <3>1. sent'[r] = outbound(meta[Base[r]])
      BY <2>1 DEF StartCalls
    <3>2. /\ meta[Base[r]] \in resolveMeta
          /\ meta[Base[r]].cert = meta[Method].cert
          /\ Trace(meta[Base[r]].operations, Base[r])
      BY <2>1 DEF Headers, Based, Right
    <3> DEFINE m == meta[Base[r]]
    <3> HIDE DEF m
    <3>3. sent'[r] = outbound(m) /\ m \in resolveMeta /\ m.cert = meta[Method].cert
          /\ Trace(m.operations, Base[r])
      BY <3>1, <3>2 DEF m
    <3>4. Proper(sent'[r], meta[Method].cert, m.operations)
      BY ONLY <3>3, OutboundRight
    <3> QED BY ONLY <3>3, <3>4 DEF Proper
  <2>2. CASE stage[r] # "queued"
    <3>1. sent'[r] = sent[r]
      BY <2>2 DEF StartCalls
    <3> QED BY <1>3, <3>1 DEF Headers, Called, HeadersReachResolvers
  <2> QED BY <2>1, <2>2
<1>4. stage'[Method] # "none"
  BY <1>1 DEF StartCalls, Headers, Called
<1>5. Called'
  BY <1>1, <1>3, <1>4 DEF Called, HeadersReachResolvers
<1> QED BY <1>2, <1>5

(* A resolved value adds its resolver to the operations.                   *)
LEMMA ResolveKeeps ==
  ASSUME Headers, NEW r \in Relations, Resolve(r)
  PROVE  meta' \in [Bases -> resolveMeta \cup {none}] /\ Based' /\ Called'
<1>1. stage[r] = "call" /\ stage' = [stage EXCEPT ![r] = "format"] /\ Right(Base[r])
  BY DEF Resolve, begin, Headers, Based
<1>2. r \in Bases /\ r # Method /\ Method \in Bases /\ Relations \subseteq Bases
  BY Sorts DEF Bases
<1>3. meta' = [meta EXCEPT ![r] = [meta[Base[r]] EXCEPT !.operations = Append(@, r)]]
  BY DEF Resolve, metaFor
<1>4. /\ \A b \in Bases \ {r} : meta'[b] = meta[b]
      /\ meta'[r] = [meta[Base[r]] EXCEPT !.operations = Append(@, r)]
  BY <1>2, <1>3 DEF Headers, Order, Types
<1>5. meta'[r] \in resolveMeta /\ meta'[r].cert = meta[Method].cert
      /\ Trace(meta'[r].operations, r)
  <2> DEFINE m == meta[Base[r]]
  <2>1. m \in resolveMeta /\ m.cert = meta[Method].cert /\ Trace(m.operations, Base[r])
    BY <1>1 DEF Right
  <2>2. m.operations \in Seq(Names \cup {Procedure, Method})
    BY <2>1 DEF resolveMeta
  <2>3. /\ Append(m.operations, r) \in Seq(Names \cup {Procedure, Method})
        /\ Trace(Append(m.operations, r), r)
    BY <2>1, <2>2, TraceGrows
  <2>4. meta'[r] = [operations |-> Append(m.operations, r), cert |-> m.cert,
                    headers |-> m.headers]
    BY <1>4, <2>1 DEF resolveMeta
  <2> QED BY <2>1, <2>3, <2>4 DEF resolveMeta
<1>6. meta'[Method] = meta[Method]
  BY <1>2, <1>4
<1>7. meta' \in [Bases -> resolveMeta \cup {none}]
  BY <1>3, <1>5, <1>4 DEF Headers, Order, Types
<1>8. Right(r)'
  BY <1>1, <1>2, <1>5, <1>6 DEF Right
<1>9. ASSUME NEW b, Right(b)
      PROVE  Right(b)'
  BY <1>4, <1>6, <1>8, <1>9 DEF Right
<1>10. \A b \in Bases \ {r} : stage'[b] = stage[b]
  BY <1>1 DEF Headers, Order, Types
<1>11. Based'
  BY <1>1, <1>2, <1>8, <1>9, <1>10 DEF Headers, Based
<1>12. Called'
  <2>1. stage'[Method] # "none"
    BY <1>1, <1>2, <1>10 DEF Headers, Called
  <2> QED BY <1>6, <2>1 DEF Resolve, Headers, Called, HeadersReachResolvers
<1> QED BY <1>7, <1>11, <1>12

(* The patches of a value are given its resolveMeta.                       *)
LEMMA FormattedKeeps ==
  ASSUME Headers, NEW base \in Bases, Formatted(base)
  PROVE  Based' /\ Called'
<1>1. /\ UNCHANGED <<meta, sent>> /\ stage[base] = "format"
      /\ \A b \in Bases : stage'[b] = IF b = base THEN "done"
                                   ELSE IF b \in patches(base) THEN "queued" ELSE stage[b]
  BY DEF Formatted
<1>2. \A b : Right(b) => Right(b)'
  BY <1>1 DEF Right
<1>3. \A r \in patches(base) : r \in Relations /\ Base[r] = base
  BY PatchesOf DEF Headers, Order
<1>4. Relations \subseteq Bases /\ Method \in Bases /\ Method \notin Relations
  BY Sorts DEF Bases
<1>5. Based'
  BY <1>1, <1>2, <1>3, <1>4 DEF Headers, Based
<1>6. stage'[Method] # "none"
  <2>1. CASE base = Method
    BY <1>1, <2>1, <1>4
  <2>2. CASE base # Method
    <3>1. base \in Relations
      BY <2>2 DEF Bases
    <3>2. stage[Method] # "none"
      BY <1>1, <3>1 DEF Headers, Called
    <3> QED BY <1>1, <1>3, <1>4, <3>2
  <2> QED BY <2>1, <2>2
<1>7. Called'
  BY <1>1, <1>6 DEF Headers, Called, HeadersReachResolvers
<1> QED BY <1>5, <1>7

(* The other steps call nobody and leave the metas alone.                  *)
LEMMA OthersKeep ==
  ASSUME Headers, UNCHANGED <<meta, sent>>,
         \A b \in Bases : stage'[b] \in {"queued", "call", "format"} => stage[b] = stage'[b],
         \A b \in Bases : stage'[b] # "none" <=> stage[b] # "none"
  PROVE  Based' /\ Called'
<1>1. Relations \subseteq Bases /\ Method \in Bases
  BY Sorts DEF Bases
<1>2. \A b : Right(b) => Right(b)'
  BY DEF Right
<1> QED BY <1>1, <1>2 DEF Headers, Based, Called, HeadersReachResolvers

(* Types, order and headers are an invariant.                              *)
LEMMA HeadersKept ==
  ASSUME Headers, [PathsNext]_pathVars
  PROVE  Headers'
<1> DEFINE Goal == meta' \in [Bases -> resolveMeta \cup {none}] /\ Based' /\ Called'
<1>1. UNCHANGED meta => meta' \in [Bases -> resolveMeta \cup {none}]
  BY DEF Headers, Order, Types
<1>2. ASSUME FormatResponse
      PROVE  Goal
  BY <1>2, FormatResponseKeeps
<1>3. ASSUME StartCalls
      PROVE  Goal
  <2>1. UNCHANGED meta
    BY <1>3 DEF StartCalls
  <2> QED BY <1>1, <1>3, <2>1, StartRoundKeeps
<1>4. ASSUME NEW base \in Bases, Formatted(base)
      PROVE  Goal
  <2>1. UNCHANGED meta
    BY <1>4 DEF Formatted
  <2> QED BY <1>1, <1>4, <2>1, FormattedKeeps
<1>5. ASSUME NEW base \in Bases, NEW n \in Fields, FormatField(base, n)
      PROVE  Goal
  <2>1. UNCHANGED <<meta, sent, stage>>
    BY <1>5 DEF FormatField
  <2> QED BY <1>1, <2>1, OthersKeep
<1>6. ASSUME NEW r \in Relations, Resolve(r)
      PROVE  Goal
  BY <1>6, ResolveKeeps
<1>7. ASSUME NEW r \in Relations,
             ResolveToNothing(r) \/ ResolveFails(r) \/ Join(r) \/ \E w \in Words : WriteWord(r, w)
      PROVE  Goal
  <2>1. UNCHANGED <<meta, sent>>
    BY <1>7 DEF ResolveToNothing, ResolveFails, Join, WriteWord
  <2>2. \/ stage' = stage
        \/ stage[r] \in {"call", "append"} /\ \E x \in {"append", "done"} : stage' = [stage EXCEPT ![r] = x]
    BY <1>7 DEF ResolveToNothing, ResolveFails, Join, WriteWord
  <2>3. r \in Bases
    BY DEF Bases
  <2>4. /\ \A b \in Bases : stage'[b] \in {"queued", "call", "format"} => stage[b] = stage'[b]
        /\ \A b \in Bases : stage'[b] # "none" <=> stage[b] # "none"
    BY <2>2, <2>3 DEF Headers, Order, Types
  <2> QED BY <1>1, <2>1, <2>4, OthersKeep
<1>8. ASSUME UNCHANGED pathVars
      PROVE  Goal
  BY <1>1, <1>8, OthersKeep DEF pathVars
<1>9. Goal
  BY <1>2, <1>3, <1>4, <1>5, <1>6, <1>7, <1>8 DEF PathsNext
<1> QED BY <1>9, TypesKept, RoundsKept DEF Headers, Order

(* All of this holds at first, when nothing is there.                      *)
LEMMA HeadersAtFirst == PathsInit => Headers
<1>1. ASSUME PathsInit
      PROVE  Order
  <2>1. Types
    BY <1>1 DEF PathsInit, Types, All
  <2>2. \A b \in Bases : {} \in shapes(b)
    BY DEF shapes
  <2>3. Rounds
    BY <1>1, <2>2, Sorts DEF PathsInit, Rounds, Bases, All
  <2> QED BY <2>1, <2>3 DEF Order
<1>2. ASSUME PathsInit
      PROVE  Based /\ Called
  BY <1>2, Sorts DEF PathsInit, Based, Called, HeadersReachResolvers, Bases
<1> QED BY <1>1, <1>2 DEF Headers

(* At every depth of the query, and however the rounds and the failures of *)
(* their resolvers interleave, a resolver is called with the headers that  *)
(* the client sent and may send on, with the operations that led to it,    *)
(* with the subject of the client's certificate if it has one, and under   *)
(* the gateway's name.                                                     *)
THEOREM CalledWithRightHeaders == PathsSpec => []HeadersReachResolvers
<1>1. Headers => HeadersReachResolvers
  BY DEF Headers, Called
<1>2. Headers /\ [PathsNext]_pathVars => Headers'
  BY HeadersKept
<1> QED BY <1>1, <1>2, HeadersAtFirst, PTL DEF PathsSpec

-----------------------------------------------------------------------------
(* The paths that are meant.                                               *)

D(n) == Len(Path[n])

(* A path ends with its name, and begins with those of the names on it.    *)
LEMMA PathFacts ==
  ASSUME NEW n \in All
  PROVE  /\ D(n) \in Nat \ {0} /\ DOMAIN Path[n] = 1 .. D(n)
         /\ Path[n][D(n)] = n
         /\ \A i \in 1 .. D(n) : /\ Path[n][i] \in All /\ D(Path[n][i]) = i
                                 /\ \A j \in 1 .. i : Path[Path[n][i]][j] = Path[n][j]
<1>1. Path[n] \in Seq(All)
  BY PathAssumption DEF All
<1>2. D(n) \in Nat /\ DOMAIN Path[n] = 1 .. D(n) /\ \A i \in 1 .. D(n) : Path[n][i] \in All
  BY <1>1 DEF D
<1>3. CASE n = Method
  <2>1. Path[Method] = <<Method>>
    BY PathAssumption
  <2>2. D(Method) = 1 /\ Path[Method][1] = Method
    BY <2>1 DEF D
  <2>3. \A i \in 1 .. D(n) : i = 1 /\ \A j \in 1 .. i : j = 1
    BY <1>3, <2>2
  <2>4. \A i \in 1 .. D(n) : Path[n][i] = n /\ D(Path[n][i]) = i
    BY <1>3, <2>2, <2>3
  <2> QED BY <1>2, <1>3, <2>2, <2>3, <2>4
<1>4. CASE n \in Names
  <2>1. Path[Within[n]] \in Seq(All) /\ Path[n] = Append(Path[Within[n]], n)
    BY <1>4, PathAssumption DEF All
  <2>2. D(n) # 0 /\ Path[n][D(n)] = n
    BY <2>1 DEF D
  <2>3. \A i \in 1 .. D(n) : Path[Path[n][i]] = SubSeq(Path[n], 1, i)
    BY <1>2, <1>4, PathAssumption
  <2>4. \A i \in 1 .. D(n) : /\ Len(SubSeq(Path[n], 1, i)) = i
                            /\ \A j \in 1 .. i : SubSeq(Path[n], 1, i)[j] = Path[n][j]
    BY <1>1 DEF D
  <2> QED BY <1>2, <2>2, <2>3, <2>4 DEF D
<1> QED BY <1>3, <1>4 DEF All

(* The path of a name is that of the message it is in, and the name.       *)
LEMMA UpPath ==
  ASSUME NEW n \in Names
  PROVE  /\ Within[n] \in All /\ D(n) = D(Within[n]) + 1
         /\ \A i \in 1 .. D(Within[n]) : Path[n][i] = Path[Within[n]][i]
<1>1. Within[n] \in All /\ Path[Within[n]] \in Seq(All) /\ Path[n] = Append(Path[Within[n]], n)
  BY PathAssumption DEF All
<1> QED BY <1>1 DEF D, All

(* Every name on a path is in the mask of the one before it.               *)
LEMMA UpOnPath ==
  ASSUME NEW n \in All, NEW i \in 2 .. D(n)
  PROVE  Path[n][i] \in Names /\ Within[Path[n][i]] = Path[n][i - 1] /\ i - 1 \in 1 .. D(n)
<1> DEFINE k == Path[n][i]
<1>1. i \in 1 .. D(n) /\ i - 1 \in 1 .. i /\ i - 1 \in 1 .. D(n)
  BY PathFacts
<1>2. k \in All /\ D(k) = i /\ Path[k][i - 1] = Path[n][i - 1]
  BY <1>1, PathFacts
<1>3. D(Method) = 1
  BY PathAssumption DEF D
<1>4. k \in Names
  BY <1>2, <1>3 DEF All
<1>5. Within[k] \in All /\ D(Within[k]) = i - 1 /\ Path[Within[k]][i - 1] = Path[k][i - 1]
  <2>1. /\ Within[k] \in All /\ D(k) = D(Within[k]) + 1
        /\ \A j \in 1 .. D(Within[k]) : Path[k][j] = Path[Within[k]][j]
    BY <1>4, UpPath
  <2>2. D(Within[k]) \in Nat \ {0}
    BY <2>1, PathFacts
  <2> HIDE DEF k
  <2> QED BY <1>1, <1>2, <2>1, <2>2
<1>6. Path[Within[k]][i - 1] = Within[k]
  BY <1>5, PathFacts
<1> QED BY <1>1, <1>2, <1>4, <1>5, <1>6

-----------------------------------------------------------------------------
(* The arrays.                                                             *)

(* Array a was allocated for the path of a.  A path in it that is longer   *)
(* was made by appending in place, name after name, and the names that are *)
(* not fields have an array that is full.                                  *)
Placed(n) ==
    LET a == slice[n].arr
    IN  /\ slice[n].len = D(n) /\ slice[a] = [arr |-> a, len |-> D(a)]
        /\ D(a) <= D(n) /\ Path[n][D(a)] = a
        /\ 1 .. D(n) \subseteq DOMAIN heap[a]
        /\ n \in Bases => a = n /\ DOMAIN heap[n] = 1 .. D(n)
        /\ \A i \in 1 .. D(n) : slice[Path[n][i]] # none
        /\ \A i \in D(a) + 1 .. D(n) :
              Path[n][i] \in Fields /\ slice[Path[n][i]] = [arr |-> a, len |-> i]

Arrays ==
    /\ \A a \in All : \A i \in DOMAIN heap[a] : heap[a][i] \in [Words -> All \cup {none}]
    /\ \A n \in All : slice[n] # none => Placed(n)

(* Each step appends a name in place, or to a copy, or makes the first     *)
(* path, or writes a word, or leaves paths and arrays alone.               *)
InPlace(n) ==
    LET up == slice[Within[n]]
    IN  /\ n \in Fields /\ slice[n] = none /\ up # none /\ room(up)
        /\ heap' = [heap EXCEPT ![up.arr][up.len + 1] = slot(n)]
        /\ slice' = [slice EXCEPT ![n] = [arr |-> up.arr, len |-> up.len + 1]]

ToCopy(n) ==
    LET up == slice[Within[n]]
    IN  /\ n \in Names /\ slice[n] = none /\ up # none
        /\ \E size \in Nat :
              /\ size = up.len + 1 \/ (n \in Fields /\ size = 2 * up.len)
              /\ heap' = [heap EXCEPT ![n] = copied(up, n, size)]
        /\ slice' = [slice EXCEPT ![n] = [arr |-> n, len |-> up.len + 1]]

FirstPath ==
    /\ slice[Method] = none
    /\ heap' = [heap EXCEPT ![Method] = methodPath]
    /\ slice' = [slice EXCEPT ![Method] = [arr |-> Method, len |-> 1]]

Writing(r, w) ==
    LET up == slice[Within[r]]
    IN  /\ r \in Relations /\ w \in Words /\ up # none /\ room(up)
        /\ heap' = [heap EXCEPT ![up.arr][up.len + 1][w] = r]
        /\ UNCHANGED slice

(* A word is written only where the append found room.                     *)
WordsHaveRoom ==
    \A r \in Relations : stage[r] = "append" /\ words[r] # {} => room(slice[Within[r]])

(* There are no other steps.                                               *)
LEMMA Appends ==
  ASSUME Order, WordsHaveRoom, [PathsNext]_pathVars
  PROVE  \/ \E n \in All : InPlace(n) \/ ToCopy(n)
         \/ FirstPath
         \/ \E r \in Relations, w \in Words : Writing(r, w)
         \/ UNCHANGED <<heap, slice>>
<1>1. CASE FormatResponse
  <2>1. slice[Method] = none
    BY <1>1, Sorts DEF FormatResponse, Order, Rounds
  <2> QED BY <1>1, <2>1 DEF FormatResponse, begin, FirstPath
<1>2. ASSUME NEW base \in Bases, NEW n \in Fields, FormatField(base, n)
      PROVE  InPlace(n) \/ ToCopy(n)
  <2>1. n \in Names /\ slice[n] = none /\ slice[Within[n]] # none /\ slice[Within[n]] \in slices
    BY <1>2, UpFirst
  <2>2. 2 * slice[Within[n]].len \in Nat
    BY <2>1 DEF slices
  <2>3. CASE room(slice[Within[n]])
    BY <1>2, <2>1, <2>3 DEF FormatField, append, InPlace
  <2>4. CASE ~room(slice[Within[n]])
    BY <1>2, <2>1, <2>2, <2>4 DEF FormatField, append, ToCopy
  <2> QED BY <2>3, <2>4
<1>3. ASSUME NEW r \in Relations, Resolve(r)
      PROVE  ToCopy(r)
  <2>1. stage[r] = "call" /\ r \in Bases /\ r \in Names
    BY <1>3, Sorts DEF Resolve, Bases
  <2>2. slice[r] = none /\ slice[Within[r]] \in slices /\ slice[Within[r]] # none
    BY <2>1, UpOf DEF Order, Rounds
  <2>3. slice[Within[r]].len + 1 \in Nat
    BY <2>2 DEF slices
  <2>4. /\ heap' = [heap EXCEPT ![r] = copied(slice[Within[r]], r, slice[Within[r]].len + 1)]
        /\ slice' = [slice EXCEPT ![r] = [arr |-> r, len |-> slice[Within[r]].len + 1]]
    BY <1>3 DEF Resolve, begin, resolvedPath
  <2> QED BY <2>1, <2>2, <2>3, <2>4 DEF ToCopy
<1>4. ASSUME NEW r \in Relations, NEW w \in Words, WriteWord(r, w)
      PROVE  Writing(r, w)
  <2>1. stage[r] = "append" /\ words[r] # {}
    BY <1>4 DEF WriteWord
  <2> QED BY <1>4, <2>1, UpOf DEF WriteWord, Writing, WordsHaveRoom
<1>5. \/ FormatResponse
      \/ \E base \in Bases, n \in Fields : FormatField(base, n)
      \/ \E r \in Relations : Resolve(r) \/ \E w \in Words : WriteWord(r, w)
      \/ UNCHANGED <<heap, slice>>
  BY DEF PathsNext, StartCalls, Formatted, ResolveToNothing, ResolveFails, Join, pathVars
<1>6. Fields \subseteq All /\ Relations \subseteq All
  BY Sorts DEF All
<1> QED BY <1>1, <1>2, <1>3, <1>4, <1>5, <1>6, Zenon

(* The array of a path is that of a name on the path, and is in use.       *)
LEMMA InUse ==
  ASSUME Types, Arrays, NEW n \in All, slice[n] # none
  PROVE  /\ slice[n].arr \in All /\ slice[slice[n].arr] # none /\ slice[n].len = D(n)
         /\ slice[n] = [arr |-> slice[n].arr, len |-> D(n)]
         /\ D(n) \in Nat \ {0} /\ D(slice[n].arr) \in Nat \ {0} /\ D(slice[n].arr) <= D(n)
<1>1. slice[n] \in slices
  BY DEF Types
<1>2. slice[n].arr \in All /\ slice[n] = [arr |-> slice[n].arr, len |-> slice[n].len]
  BY <1>1 DEF slices, All
<1>3. D(slice[n].arr) \in Nat \ {0} /\ D(n) \in Nat \ {0}
  BY <1>2, PathFacts
<1>4. /\ slice[n].len = D(n) /\ D(slice[n].arr) <= D(n)
      /\ slice[slice[n].arr] = [arr |-> slice[n].arr, len |-> D(slice[n].arr)]
  BY DEF Arrays, Placed
<1>5. slice[slice[n].arr] # none
  BY <1>2, <1>3, <1>4, NotNone
<1> QED BY <1>2, <1>3, <1>4, <1>5

(* In its array, a path that was appended to in place has the path of the  *)
(* message before it at every step.                                        *)
LEMMA AppendedInPlace ==
  ASSUME Types, Arrays, NEW n \in All, slice[n] # none, NEW i \in D(slice[n].arr) + 1 .. D(n)
  PROVE  /\ Path[n][i] \in Fields /\ Path[n][i] \in Names
         /\ slice[Within[Path[n][i]]] = [arr |-> slice[n].arr, len |-> i - 1]
<1> DEFINE a == slice[n].arr
<1>1. a \in All
  BY DEF Types, slices, All
<1>2. /\ slice[a] = [arr |-> a, len |-> D(a)] /\ Path[n][D(a)] = a /\ Path[n][i] \in Fields
      /\ \A j \in D(a) + 1 .. D(n) : slice[Path[n][j]] = [arr |-> a, len |-> j]
  BY DEF Arrays, Placed
<1>3. D(a) \in Nat \ {0} /\ D(n) \in Nat
  BY <1>1, PathFacts
<1>4. i \in 2 .. D(n)
  BY <1>3
<1>5. Path[n][i] \in Names /\ Within[Path[n][i]] = Path[n][i - 1]
  BY <1>4, UpOnPath
<1>6. i - 1 = D(a) \/ i - 1 \in D(a) + 1 .. D(n)
  BY <1>3
<1> HIDE DEF a
<1>7. slice[Path[n][i - 1]] = [arr |-> a, len |-> i - 1]
  BY <1>2, <1>6
<1> QED BY <1>2, <1>5, <1>7 DEF a

(* What a step leaves as it was: the paths that are there, and the size of *)
(* their arrays.                                                           *)
Grown ==
    /\ \A n \in All : slice[n] # none =>
          slice'[n] = slice[n] /\ DOMAIN heap'[slice[n].arr] = DOMAIN heap[slice[n].arr]

(* Arrays do not grow: an append that finds no room makes another.         *)
LEMMA GrownBy ==
  ASSUME Order, Arrays, WordsHaveRoom, [PathsNext]_pathVars
  PROVE  Grown
<1>1. \A n \in All : slice[n] # none => slice'[n] = slice[n]
  BY PathsKept
<1>2. \A n \in All : slice[n] # none =>
         slice[n].arr \in All /\ slice[slice[n].arr] # none
  BY InUse DEF Order
<1>3. DOMAIN heap = All
  BY DEF Order, Types
<1>4. ASSUME NEW n \in All, InPlace(n) \/ ToCopy(n)
      PROVE  \A m \in All : slice[m] # none => DOMAIN heap'[m] = DOMAIN heap[m]
  <2>1. CASE InPlace(n)
    BY <1>3, <2>1 DEF InPlace
  <2>2. CASE ToCopy(n)
    BY <1>3, <2>2 DEF ToCopy
  <2> QED BY <1>4, <2>1, <2>2
<1>5. ASSUME FirstPath
      PROVE  \A m \in All : slice[m] # none => DOMAIN heap'[m] = DOMAIN heap[m]
  BY <1>3, <1>5 DEF FirstPath
<1>6. ASSUME NEW r \in Relations, NEW w \in Words, Writing(r, w)
      PROVE  \A m \in All : slice[m] # none => DOMAIN heap'[m] = DOMAIN heap[m]
  BY <1>3, <1>6 DEF Writing
<1>7. \A m \in All : slice[m] # none => DOMAIN heap'[m] = DOMAIN heap[m]
  BY <1>4, <1>5, <1>6, Appends
<1> QED BY <1>1, <1>2, <1>7 DEF Grown

(* So the room behind a path neither comes nor goes, and what may be read  *)
(* for a name stays so.                                                    *)
LEMMA RoomKept ==
  ASSUME Grown, NEW n \in Names, slice[Within[n]] # none
  PROVE  /\ room(slice[Within[n]])' <=> room(slice[Within[n]])
         /\ rivals(n) \subseteq rivals(n)' /\ mayRead(n) \subseteq mayRead(n)'
<1>1. Within[n] \in All /\ \A m \in Names : Within[m] \in All
  BY Sorts
<1>2. room(slice[Within[n]])' <=> room(slice[Within[n]])
  BY <1>1 DEF room, Grown
<1>3. ASSUME NEW m \in Names, slice[Within[m]] = slice[Within[n]]
      PROVE  slice'[Within[m]] = slice'[Within[n]]
  BY <1>1, <1>3 DEF Grown
<1>4. rivals(n) \subseteq rivals(n)'
  BY <1>2, <1>3 DEF rivals
<1> QED BY <1>2, <1>4 DEF mayRead

(* All that is written to an array that is in use is a name, right behind  *)
(* the path of the message that it is in.                                  *)
LEMMA Writes ==
  ASSUME Order, Arrays, WordsHaveRoom, [PathsNext]_pathVars,
         NEW a \in All, slice[a] # none, NEW i \in DOMAIN heap[a], NEW w \in Words
  PROVE  \/ heap'[a][i][w] = heap[a][i][w]
         \/ \E m \in Names : /\ heap'[a][i][w] = m /\ slice[Within[m]] # none
                              /\ slice[Within[m]].arr = a /\ slice[Within[m]].len + 1 = i
                              /\ room(slice[Within[m]])
<1> DEFINE Goal == \/ heap'[a][i][w] = heap[a][i][w]
                   \/ \E m \in Names : /\ heap'[a][i][w] = m /\ slice[Within[m]] # none
                                        /\ slice[Within[m]].arr = a /\ slice[Within[m]].len + 1 = i
                                        /\ room(slice[Within[m]])
<1>1. DOMAIN heap = All /\ heap[a][i] \in [Words -> All \cup {none}]
  BY DEF Order, Types, Arrays
<1>2. ASSUME NEW n \in All, InPlace(n)
      PROVE  Goal
  <2>1. n \in Names
    BY <1>2 DEF InPlace, Fields
  <2> QED BY <1>1, <1>2, <2>1 DEF InPlace, slot
<1>3. ASSUME NEW n \in All, ToCopy(n)
      PROVE  Goal
  BY <1>1, <1>3 DEF ToCopy
<1>4. ASSUME FirstPath
      PROVE  Goal
  BY <1>1, <1>4 DEF FirstPath
<1>5. ASSUME NEW r \in Relations, NEW v \in Words, Writing(r, v)
      PROVE  Goal
  <2>1. r \in Names
    BY Sorts
  <2> QED BY <1>1, <1>5, <2>1 DEF Writing
<1> QED BY <1>2, <1>3, <1>4, <1>5, Appends

-----------------------------------------------------------------------------
(* The arrays stay as they should be.                                      *)

(* A path that was there is where it was.                                  *)
LEMMA PlacedKept ==
  ASSUME Types, Arrays, Grown, NEW n \in All, slice[n] # none
  PROVE  Placed(n)'
<1> DEFINE a == slice[n].arr
<1>1. a \in All /\ slice[a] # none /\ slice[a] = [arr |-> a, len |-> D(a)]
  BY InUse DEF Arrays, Placed
<1>2. slice'[n] = slice[n] /\ slice'[a] = slice[a] /\ DOMAIN heap'[a] = DOMAIN heap[a]
  BY <1>1 DEF Grown
<1>3. \A i \in 1 .. D(n) : slice'[Path[n][i]] = slice[Path[n][i]] /\ slice[Path[n][i]] # none
  BY PathFacts DEF Grown, Arrays, Placed
<1>4. D(a) \in Nat \ {0} /\ D(n) \in Nat
  BY InUse
<1>5. \A i \in D(a) + 1 .. D(n) : i \in 1 .. D(n)
  BY <1>4
<1> QED BY <1>2, <1>3, <1>5 DEF Placed, Arrays

(* A name that is appended in place.                                       *)
LEMMA PlacedInPlace ==
  ASSUME Types, Arrays, Grown, NEW n \in All, InPlace(n)
  PROVE  Placed(n)'
<1> DEFINE up == slice[Within[n]]
           a == up.arr
<1>1. n \in Names /\ n \in Fields /\ up # none /\ Within[n] \in All /\ n \notin Bases
  BY Sorts DEF InPlace, Fields
<1>2. /\ D(n) = D(Within[n]) + 1 /\ Path[n][D(n)] = n
      /\ \A i \in 1 .. D(Within[n]) : Path[n][i] = Path[Within[n]][i]
  BY <1>1, UpPath, PathFacts
<1>3. /\ a \in All /\ up.len = D(Within[n]) /\ D(Within[n]) \in Nat \ {0} /\ D(a) \in Nat \ {0}
      /\ D(a) <= D(Within[n])
  BY <1>1, InUse
<1>4. Placed(Within[n])' /\ slice'[Within[n]] = up
  BY <1>1, PlacedKept DEF Grown
<1>5. slice'[n] = [arr |-> a, len |-> D(n)]
  BY <1>2, <1>3 DEF InPlace, Types
<1>6. D(n) \in DOMAIN heap'[a]
  BY <1>1, <1>2, <1>3 DEF InPlace, room, Grown
<1> HIDE DEF up, a
<1> QED BY <1>1, <1>2, <1>3, <1>4, <1>5, <1>6, NotNone DEF Placed, up, a

(* A name that is appended to a copy.                                      *)
LEMMA PlacedInCopy ==
  ASSUME Types, Arrays, Grown, NEW n \in All, ToCopy(n)
  PROVE  /\ Placed(n)' /\ slice'[n] = [arr |-> n, len |-> D(n)]
         /\ heap'[n][D(n)] = slot(n)
         /\ \A i \in 1 .. D(n) - 1 : heap'[n][i] = heap[slice[Within[n]].arr][i]
         /\ \A i \in DOMAIN heap'[n] :
               heap'[n][i] \in {slot(n), noString} \cup {heap[slice[Within[n]].arr][j] : j \in 1 .. D(n) - 1}
<1> DEFINE up == slice[Within[n]]
<1>1. n \in Names /\ up # none /\ Within[n] \in All
  BY Sorts DEF ToCopy
<1>2. /\ D(n) = D(Within[n]) + 1 /\ Path[n][D(n)] = n /\ D(n) \in Nat
      /\ \A i \in 1 .. D(Within[n]) : Path[n][i] = Path[Within[n]][i]
  BY <1>1, UpPath, PathFacts
<1>3. up.len = D(Within[n]) /\ D(Within[n]) \in Nat \ {0}
  BY <1>1, InUse
<1>4. Placed(Within[n])'
  BY <1>1, PlacedKept
<1>5. PICK size \in Nat : /\ size = up.len + 1 \/ (n \in Fields /\ size = 2 * up.len)
                          /\ heap' = [heap EXCEPT ![n] = copied(up, n, size)]
  BY DEF ToCopy
<1>6. size >= D(n) /\ (n \in Bases => size = D(n))
  BY <1>2, <1>3, <1>5, Sorts
<1>7. heap'[n] = copied(up, n, size) /\ slice'[n] = [arr |-> n, len |-> D(n)]
  BY <1>2, <1>3, <1>5 DEF ToCopy, Types
<1>8. /\ DOMAIN heap'[n] = 1 .. size /\ heap'[n][D(n)] = slot(n)
      /\ \A i \in 1 .. D(n) - 1 : heap'[n][i] = heap[up.arr][i]
      /\ \A i \in D(n) + 1 .. size : heap'[n][i] = noString
  BY <1>2, <1>3, <1>6, <1>7 DEF copied
<1>9. \A i \in 1 .. size : i \in 1 .. D(n) - 1 \/ i = D(n) \/ i \in D(n) + 1 .. size
  BY <1>2, <1>6
<1>10. \A i \in 1 .. D(n) : slice'[Path[n][i]] # none
  BY <1>2, <1>3, <1>4, <1>7, NotNone DEF Placed
<1>11. \A i \in DOMAIN heap'[n] :
         heap'[n][i] \in {slot(n), noString} \cup {heap[up.arr][j] : j \in 1 .. D(n) - 1}
  BY <1>8, <1>9
<1>12. D(n) + 1 .. D(n) = {} /\ 1 .. D(n) \subseteq 1 .. size
  BY <1>2, <1>6
<1>13. Placed(n)'
  BY <1>2, <1>6, <1>7, <1>8, <1>10, <1>12 DEF Placed
<1> QED BY <1>7, <1>8, <1>11, <1>13

(* The entry point's own name.                                             *)
LEMMA PlacedFirst ==
  ASSUME Types, FirstPath
  PROVE  /\ Placed(Method)' /\ slice'[Method] = [arr |-> Method, len |-> 1] /\ D(Method) = 1
         /\ Path[Method][1] = Method
         /\ DOMAIN heap'[Method] = {1} /\ heap'[Method][1] = slot(Method)
<1>1. Method \in All /\ Path[Method] = <<Method>>
  BY PathAssumption DEF All
<1>2. D(Method) = 1 /\ Path[Method][1] = Method
  BY <1>1 DEF D
<1>3. slice'[Method] = [arr |-> Method, len |-> 1] /\ heap'[Method] = <<slot(Method)>>
  BY <1>1 DEF FirstPath, Types, methodPath
<1>4. DOMAIN heap'[Method] = 1 .. 1 /\ heap'[Method][1] = slot(Method) /\ 1 .. 1 = {1}
  BY <1>3
<1>5. slice'[Method] # none
  BY <1>1, <1>3, NotNone
<1>6. D(Method) + 1 .. D(Method) = {}
  BY <1>2
<1>7. Placed(Method)'
  BY <1>2, <1>3, <1>4, <1>5, <1>6 DEF Placed
<1> QED BY <1>2, <1>3, <1>4, <1>7

(* The slots hold names.                                                   *)
LEMMA SlotsKept ==
  ASSUME Order, Arrays, WordsHaveRoom, [PathsNext]_pathVars, NEW a \in All, NEW i \in DOMAIN heap'[a]
  PROVE  heap'[a][i] \in [Words -> All \cup {none}]
<1> DEFINE Slots == [Words -> All \cup {none}]
<1>1. DOMAIN heap = All /\ Grown /\ Types
  BY GrownBy DEF Order, Types
<1>2. \A n \in All : slot(n) \in Slots /\ noString \in Slots
  BY DEF slot, noString
<1>3. \A j \in DOMAIN heap[a] : heap[a][j] \in Slots
  BY DEF Arrays
<1>4. ASSUME NEW n \in All, InPlace(n)
      PROVE  heap'[a][i] \in Slots
  BY <1>1, <1>2, <1>3, <1>4 DEF InPlace
<1>5. ASSUME NEW n \in All, ToCopy(n)
      PROVE  heap'[a][i] \in Slots
  <2>1. CASE a # n
    BY <1>1, <1>3, <1>5, <2>1 DEF ToCopy
  <2>2. CASE a = n
    <3>1. n \in Names /\ slice[Within[n]] # none /\ Within[n] \in All
      BY <1>5, Sorts DEF ToCopy
    <3>2. slice[Within[n]].arr \in All /\ 1 .. D(Within[n]) \subseteq DOMAIN heap[slice[Within[n]].arr]
      BY <1>1, <3>1, InUse DEF Arrays, Placed
    <3>3. D(n) - 1 = D(Within[n])
      BY <3>1, UpPath, PathFacts
    <3>4. \A j \in 1 .. D(n) - 1 : heap[slice[Within[n]].arr][j] \in Slots
      BY <3>2, <3>3 DEF Arrays
    <3>5. heap'[n][i] \in {slot(n), noString} \cup {heap[slice[Within[n]].arr][j] : j \in 1 .. D(n) - 1}
      BY <1>1, <1>5, <2>2, PlacedInCopy
    <3>6. slot(n) \in Slots /\ noString \in Slots
      BY <1>2
    <3> HIDE DEF Slots
    <3> QED BY <2>2, <3>4, <3>5, <3>6
  <2> QED BY <2>1, <2>2
<1>6. ASSUME FirstPath
      PROVE  heap'[a][i] \in Slots
  <2>1. CASE a # Method
    BY <1>1, <1>3, <1>6, <2>1 DEF FirstPath
  <2>2. CASE a = Method
    BY <1>1, <1>2, <1>6, <2>2, PlacedFirst
  <2> QED BY <2>1, <2>2
<1>7. ASSUME NEW r \in Relations, NEW w \in Words, Writing(r, w)
      PROVE  heap'[a][i] \in Slots
  <2>1. r \in All
    BY Sorts DEF All
  <2>2. i \in DOMAIN heap[a]
    BY <1>1, <1>7 DEF Writing
  <2>3. \/ heap'[a][i] = heap[a][i]
        \/ heap'[a][i] = [heap[a][i] EXCEPT ![w] = r]
    BY <1>1, <1>7, <2>2 DEF Writing
  <2> QED BY <1>3, <2>1, <2>2, <2>3
<1>8. CASE UNCHANGED <<heap, slice>>
  BY <1>3, <1>8
<1> QED BY <1>4, <1>5, <1>6, <1>7, <1>8, Appends

(* Every path is where it should be.                                       *)
LEMMA ArraysKept ==
  ASSUME Order, Arrays, WordsHaveRoom, [PathsNext]_pathVars
  PROVE  Arrays'
<1>1. Grown /\ Types /\ DOMAIN slice = All
  BY GrownBy DEF Order, Types
<1>2. ASSUME NEW n \in All, slice'[n] # none
      PROVE  Placed(n)'
  <2>1. CASE slice[n] # none
    BY <1>1, <2>1, PlacedKept
  <2>2. CASE slice[n] = none
    <3>1. ASSUME NEW m \in All, InPlace(m)
          PROVE  m = n
      BY <1>1, <1>2, <2>2, <3>1 DEF InPlace
    <3>2. ASSUME NEW m \in All, ToCopy(m)
          PROVE  m = n
      BY <1>1, <1>2, <2>2, <3>2 DEF ToCopy
    <3>3. FirstPath => n = Method
      BY <1>1, <1>2, <2>2 DEF FirstPath
    <3>4. ~UNCHANGED <<heap, slice>> /\ ~\E r \in Relations, w \in Words : Writing(r, w)
      BY <1>2, <2>2 DEF Writing
    <3> QED BY <1>1, <3>1, <3>2, <3>3, <3>4, Appends, PlacedInPlace, PlacedInCopy, PlacedFirst
  <2> QED BY <2>1, <2>2
<1>3. \A a \in All : \A i \in DOMAIN heap'[a] : heap'[a][i] \in [Words -> All \cup {none}]
  BY SlotsKept
<1> QED BY <1>2, <1>3 DEF Arrays

(* Only fields are written into the array of another, so the array of a    *)
(* value's own path is never written to again.                             *)
LEMMA OwnArrayStays ==
  ASSUME Order, Arrays, WordsHaveRoom, [PathsNext]_pathVars,
         NEW r \in Relations, slice[r] # none, NEW i \in 1 .. D(r)
  PROVE  heap'[r][i] = heap[r][i]
<1>1. r \in All /\ r \in Bases /\ Types
  BY Sorts DEF All, Bases, Order
<1>2. slice[r].arr = r /\ DOMAIN heap[r] = 1 .. D(r)
  BY <1>1 DEF Arrays, Placed
<1>3. DOMAIN heap'[r] = 1 .. D(r)
  BY <1>1, <1>2, GrownBy DEF Grown
<1>4. heap[r][i] \in [Words -> All \cup {none}] /\ heap'[r][i] \in [Words -> All \cup {none}]
  BY <1>1, <1>2, <1>3, SlotsKept DEF Arrays
<1>5. ASSUME NEW w \in Words
      PROVE  heap'[r][i][w] = heap[r][i][w]
  <2>0. \/ heap'[r][i][w] = heap[r][i][w]
        \/ \E m \in Names : slice[Within[m]] # none /\ slice[Within[m]].arr = r /\ slice[Within[m]].len + 1 = i
    BY <1>1, <1>2, Writes
  <2>1. SUFFICES ASSUME NEW m \in Names, slice[Within[m]] # none,
                        slice[Within[m]].arr = r, slice[Within[m]].len + 1 = i
                 PROVE  FALSE
    BY <2>0
  <2>2. Within[m] \in All
    BY Sorts
  <2>3. D(r) <= slice[Within[m]].len /\ slice[Within[m]].len \in Nat /\ D(r) \in Nat
    BY <1>1, <2>1, <2>2, InUse
  <2> QED BY <2>1, <2>3
<1> QED BY <1>4, <1>5

-----------------------------------------------------------------------------
(* What the paths contain.                                                 *)

(* Of every path, each slot holds the names that it may.                   *)
Holds(n) == \A i \in 1 .. D(n), w \in Words : heap[slice[n].arr][i][w] \in mayRead(Path[n][i])

Contents == \A n \in All : slice[n] # none => Holds(n)

(* A name may always be read for itself.                                   *)
LEMMA OwnName ==
  ASSUME NEW n \in All
  PROVE  n \in mayRead(n) /\ (n \in Names => n \in rivals(n))
  BY Sorts DEF mayRead, rivals, Fields

(* The path of a name that was there.                                      *)
LEMMA HoldsStill ==
  ASSUME Order, Arrays, WordsHaveRoom, Contents, [PathsNext]_pathVars, NEW n \in All, slice[n] # none
  PROVE  \A i \in 1 .. D(n) : /\ mayRead(Path[n][i]) \subseteq mayRead(Path[n][i])'
                              /\ \A w \in Words : heap'[slice[n].arr][i][w] \in mayRead(Path[n][i])
<1> SUFFICES ASSUME NEW i \in 1 .. D(n)
             PROVE  /\ mayRead(Path[n][i]) \subseteq mayRead(Path[n][i])'
                    /\ \A w \in Words : heap'[slice[n].arr][i][w] \in mayRead(Path[n][i])
  OBVIOUS
<1> DEFINE a == slice[n].arr
           k == Path[n][i]
<1>1. Types /\ Grown
  BY GrownBy DEF Order
<1>2. k \in All /\ D(k) = i /\ D(n) \in Nat
  BY PathFacts
<1>3. k \in Names => slice[Within[k]] # none
  <2>1. SUFFICES ASSUME k \in Names
                 PROVE  slice[Within[k]] # none
    OBVIOUS
  <2>2. i = D(Within[k]) + 1 /\ D(Within[k]) \in Nat \ {0}
    BY <1>2, <2>1, UpPath, PathFacts
  <2>3. i \in 2 .. D(n)
    BY <2>2
  <2>4. Within[k] = Path[n][i - 1] /\ i - 1 \in 1 .. D(n)
    BY <2>3, UpOnPath
  <2>5. \A j \in 1 .. D(n) : slice[Path[n][j]] # none
    BY DEF Arrays, Placed
  <2> QED BY <2>4, <2>5
<1>4. mayRead(k) \subseteq mayRead(k)'
  <2>1. CASE k \in Names
    BY <1>1, <1>3, <2>1, RoomKept
  <2>2. CASE k \notin Names
    BY <2>2 DEF mayRead, Fields
  <2> QED BY <2>1, <2>2
<1>5. ASSUME NEW w \in Words
      PROVE  heap'[a][i][w] \in mayRead(k)
  <2>1. a \in All /\ slice[a] # none /\ D(a) \in Nat \ {0} /\ i \in DOMAIN heap[a]
    BY <1>1, InUse DEF Arrays, Placed
  <2>2. heap[a][i][w] \in mayRead(k)
    BY DEF Contents, Holds
  <2>3. SUFFICES ASSUME NEW m \in Names, heap'[a][i][w] = m, slice[Within[m]] # none,
                        slice[Within[m]].arr = a, slice[Within[m]].len + 1 = i, room(slice[Within[m]])
                 PROVE  m \in mayRead(k)
    BY <2>1, <2>2, Writes
  <2>4. Within[m] \in All
    BY Sorts
  <2>5. /\ D(a) <= slice[Within[m]].len /\ slice[Within[m]].len \in Nat
        /\ slice[Within[m]] = [arr |-> a, len |-> slice[Within[m]].len]
    BY <1>1, <2>3, <2>4, InUse
  <2>6. i \in D(a) + 1 .. D(n) /\ slice[Within[m]].len = i - 1
    BY <1>2, <2>1, <2>3, <2>5
  <2>7. k \in Fields /\ slice[Within[k]] = slice[Within[m]]
    BY <1>1, <2>5, <2>6, AppendedInPlace
  <2> QED BY <2>3, <2>7 DEF mayRead, rivals
<1> QED BY <1>4, <1>5

(* So it is of all paths after any step.                                   *)
LEMMA ContentsKept ==
  ASSUME Order, Arrays, WordsHaveRoom, Contents, [PathsNext]_pathVars
  PROVE  Contents'
<1>1. Grown /\ Types /\ DOMAIN slice = All /\ DOMAIN heap = All
  BY GrownBy DEF Order, Types
<1>2. ASSUME NEW n \in All, slice[n] # none
      PROVE  Holds(n)'
  BY <1>1, <1>2, HoldsStill DEF Holds, Grown
<1>3. ASSUME NEW n \in Names, slice[Within[n]] # none,
             \A i \in 1 .. D(n) - 1 : heap'[slice'[n].arr][i] = heap'[slice[Within[n]].arr][i],
             heap'[slice'[n].arr][D(n)] = slot(n)
      PROVE  Holds(n)'
  <2>1. /\ Within[n] \in All /\ n \in All /\ D(n) = D(Within[n]) + 1 /\ Path[n][D(n)] = n
        /\ D(Within[n]) \in Nat
        /\ \A i \in 1 .. D(Within[n]) : Path[n][i] = Path[Within[n]][i]
    BY UpPath, PathFacts DEF All
  <2>2. \A i \in 1 .. D(n) : i = D(n) \/ i \in 1 .. D(Within[n])
    BY <2>1
  <2>3. \A i \in 1 .. D(Within[n]), w \in Words :
           heap'[slice[Within[n]].arr][i][w] \in mayRead(Path[Within[n]][i])'
    BY <1>3, <2>1, HoldsStill
  <2>4. n \in mayRead(n)'
    BY <2>1, Sorts DEF mayRead, rivals, Fields
  <2>5. ASSUME NEW i \in 1 .. D(Within[n]), NEW w \in Words
        PROVE  heap'[slice'[n].arr][i][w] \in mayRead(Path[n][i])'
    <3>1. i \in 1 .. D(n) - 1
      BY <2>1
    <3>2. Path[n][i] = Path[Within[n]][i] /\ heap'[slice'[n].arr][i] = heap'[slice[Within[n]].arr][i]
      BY <1>3, <2>1, <3>1
    <3> QED BY <2>3, <3>2
  <2>6. ASSUME NEW w \in Words
        PROVE  heap'[slice'[n].arr][D(n)][w] \in mayRead(Path[n][D(n)])'
    BY <1>3, <2>1, <2>4 DEF slot
  <2> QED BY <2>2, <2>5, <2>6 DEF Holds
<1>4. ASSUME NEW n \in All, InPlace(n)
      PROVE  Holds(n)'
  <2>1. n \in Names /\ slice[Within[n]] # none /\ Within[n] \in All
    BY <1>4, Sorts DEF InPlace, Fields
  <2>2. slice[Within[n]].len + 1 = D(n) /\ slice[Within[n]].arr \in All
    BY <1>1, <2>1, InUse, UpPath
  <2>3. slice'[n].arr = slice[Within[n]].arr
    BY <1>1, <1>4 DEF InPlace
  <2>4. heap'[slice[Within[n]].arr][D(n)] = slot(n)
    BY <1>1, <1>4, <2>2 DEF InPlace, room
  <2> QED BY <1>3, <2>1, <2>3, <2>4
<1>5. ASSUME NEW n \in All, ToCopy(n)
      PROVE  Holds(n)'
  <2>1. n \in Names /\ slice[Within[n]] # none /\ Within[n] \in All /\ slice[n] = none
    BY <1>5, Sorts DEF ToCopy
  <2>2. slice[Within[n]].arr \in All /\ slice[Within[n]].arr # n
    BY <1>1, <2>1, InUse
  <2>3. heap'[slice[Within[n]].arr] = heap[slice[Within[n]].arr]
    BY <1>1, <1>5, <2>2 DEF ToCopy
  <2>4. /\ slice'[n] = [arr |-> n, len |-> D(n)] /\ heap'[n][D(n)] = slot(n)
        /\ \A i \in 1 .. D(n) - 1 : heap'[n][i] = heap[slice[Within[n]].arr][i]
    <3>1. Types /\ Arrays /\ Grown /\ ToCopy(n)
      BY <1>1, <1>5
    <3> QED BY ONLY <3>1, n \in All, PlacedInCopy
  <2>5. slice'[n].arr = n
    BY <2>4
  <2> QED BY <1>3, <2>1, <2>3, <2>4, <2>5
<1>6. ASSUME FirstPath
      PROVE  Holds(Method)'
  <2>1. /\ slice'[Method].arr = Method /\ D(Method) = 1 /\ Path[Method][1] = Method
        /\ heap'[Method][1] = slot(Method)
    BY <1>1, <1>6, PlacedFirst
  <2>2. Method \in mayRead(Method)'
    BY Sorts DEF mayRead, Fields
  <2> QED BY <2>1, <2>2 DEF Holds, slot
<1>7. \/ \E n \in All : (InPlace(n) \/ ToCopy(n)) /\ \A m \in All \ {n} : slice'[m] = slice[m]
      \/ FirstPath /\ \A m \in All \ {Method} : slice'[m] = slice[m]
      \/ slice' = slice
  BY <1>1, Appends DEF InPlace, ToCopy, FirstPath, Writing
<1>8. ASSUME NEW n \in All, slice'[n] # none
      PROVE  Holds(n)'
  BY <1>2, <1>4, <1>5, <1>6, <1>7, <1>8
<1> QED BY <1>8 DEF Contents

-----------------------------------------------------------------------------
(* Which paths are shared.                                                 *)

(* Some field on the path of n was written to a slot that a sibling may    *)
(* write to.                                                               *)
disturbed(n) ==
    \E i \in 1 .. D(n) :
        Path[n][i] \in Fields /\ room(slice[Within[Path[n][i]]]) /\ siblings(Path[n][i]) # {Path[n][i]}

(* Two names have the same path only so.                                   *)
Twins == \A m, n \in All : m # n /\ slice[m] # none /\ slice[n] = slice[m] => disturbed(n)

(* A disturbed path stays so.                                              *)
LEMMA DisturbedStill ==
  ASSUME Types, Arrays, Grown, NEW n \in All, slice[n] # none, disturbed(n)
  PROVE  disturbed(n)'
<1>1. PICK i \in 1 .. D(n) :
        Path[n][i] \in Fields /\ room(slice[Within[Path[n][i]]]) /\ siblings(Path[n][i]) # {Path[n][i]}
  BY DEF disturbed
<1> DEFINE k == Path[n][i]
<1>2. k \in Names /\ D(k) = i /\ D(n) \in Nat
  BY <1>1, PathFacts DEF Fields
<1>3. i = D(Within[k]) + 1 /\ D(Within[k]) \in Nat \ {0}
  BY <1>2, UpPath, PathFacts
<1>4. i \in 2 .. D(n)
  BY <1>3
<1>5. Within[k] = Path[n][i - 1] /\ i - 1 \in 1 .. D(n)
  BY <1>4, UpOnPath
<1>6. \A j \in 1 .. D(n) : slice[Path[n][j]] # none
  BY DEF Arrays, Placed
<1>7. slice[Within[k]] # none
  BY <1>5, <1>6
<1>8. room(slice[Within[k]])'
  BY <1>1, <1>2, <1>7, RoomKept
<1> QED BY <1>1, <1>8 DEF disturbed, siblings

(* Two names that were appended in place, to the same length of an array.  *)
LEMMA TwinsBorn ==
  ASSUME Types, Arrays, Grown, Twins, NEW m \in Names, NEW n \in Names, m # n,
         slice[Within[m]] # none, slice[Within[n]] = slice[Within[m]], n \in Fields, room(slice[Within[n]])
  PROVE  disturbed(n)'
<1>1. Within[m] \in All /\ Within[n] \in All /\ slice[Within[n]] # none /\ n \in All
  BY Sorts DEF All
<1>2. CASE Within[m] = Within[n]
  <2>1. siblings(n) # {n}
    BY <1>2 DEF siblings
  <2>2. room(slice[Within[n]])'
    BY <1>1, RoomKept
  <2>3. D(n) \in 1 .. D(n) /\ Path[n][D(n)] = n
    BY <1>1, PathFacts
  <2> QED BY <2>1, <2>2, <2>3 DEF disturbed, siblings
<1>3. CASE Within[m] # Within[n]
  <2>1. disturbed(Within[n])
    BY <1>1, <1>3 DEF Twins
  <2>2. disturbed(Within[n])'
    BY <1>1, <2>1, DisturbedStill
  <2>3. D(n) = D(Within[n]) + 1 /\ D(Within[n]) \in Nat
        /\ \A i \in 1 .. D(Within[n]) : Path[n][i] = Path[Within[n]][i]
    BY <1>1, UpPath, PathFacts
  <2>4. \A i \in 1 .. D(Within[n]) : i \in 1 .. D(n)
    BY <2>3
  <2> QED BY <2>2, <2>3, <2>4 DEF disturbed
<1> QED BY <1>2, <1>3

(* There are no others.                                                    *)
LEMMA TwinsKept ==
  ASSUME Order, Arrays, WordsHaveRoom, Twins, [PathsNext]_pathVars
  PROVE  Twins'
<1>1. Grown /\ Types /\ DOMAIN slice = All
  BY GrownBy DEF Order, Types
<1>2. ASSUME NEW m \in All, NEW n \in All, m # n, slice[m] # none, slice[n] = slice[m]
      PROVE  disturbed(n)'
  BY <1>1, <1>2, DisturbedStill DEF Twins
<1>3. ASSUME NEW n \in All, slice[n] = none, slice'[n].arr = n
      PROVE  \A m \in All : slice[m] # none => slice[m] # slice'[n]
  BY <1>1, <1>3, InUse
<1>4. ASSUME NEW n \in All, InPlace(n), NEW m \in All, m # n, slice[m] # none, slice[m] = slice'[n]
      PROVE  disturbed(n)' /\ disturbed(m)'
  <2> DEFINE up == slice[Within[n]]
  <2>1. n \in Names /\ n \in Fields /\ up # none /\ Within[n] \in All /\ room(up)
    BY <1>4, Sorts DEF InPlace, Fields
  <2>2. /\ D(n) = D(Within[n]) + 1 /\ up.len = D(Within[n]) /\ D(Within[n]) \in Nat
        /\ D(up.arr) \in Nat \ {0} /\ D(up.arr) <= D(Within[n])
        /\ up = [arr |-> up.arr, len |-> D(Within[n])]
    BY <1>1, <2>1, UpPath, InUse
  <2>3. slice[m] = [arr |-> up.arr, len |-> D(n)]
    BY <1>1, <1>4, <2>2 DEF InPlace
  <2>4. slice[m].arr = up.arr /\ D(m) = D(n)
    BY <1>1, <1>4, <2>3, InUse
  <2>5. D(m) \in D(slice[m].arr) + 1 .. D(m) /\ D(m) - 1 = D(Within[n])
    BY <2>2, <2>4
  <2>6. Path[m][D(m)] = m
    BY PathFacts
  <2>7. m \in Fields /\ m \in Names /\ slice[Within[m]] = up
    BY <1>1, <1>4, <2>2, <2>4, <2>5, <2>6, AppendedInPlace
  <2> QED BY <1>1, <1>4, <2>1, <2>7, TwinsBorn
<1>5. \/ \E n \in All : InPlace(n) /\ \A m \in All \ {n} : slice'[m] = slice[m]
      \/ \E n \in All : /\ slice[n] = none /\ slice'[n].arr = n
                         /\ \A m \in All \ {n} : slice'[m] = slice[m]
      \/ slice' = slice
  <2>1. ASSUME NEW n \in All, InPlace(n)
        PROVE  \A m \in All \ {n} : slice'[m] = slice[m]
    BY <1>1, <2>1 DEF InPlace
  <2>2. ASSUME NEW n \in All, ToCopy(n)
        PROVE  slice[n] = none /\ slice'[n].arr = n /\ \A m \in All \ {n} : slice'[m] = slice[m]
    BY <1>1, <2>2 DEF ToCopy
  <2>3. ASSUME FirstPath
        PROVE  /\ Method \in All /\ slice[Method] = none /\ slice'[Method].arr = Method
               /\ \A m \in All \ {Method} : slice'[m] = slice[m]
    BY <1>1, <2>3 DEF FirstPath, All
  <2>4. \A r \in Relations, w \in Words : Writing(r, w) => slice' = slice
    BY DEF Writing
  <2>5. \/ \E n \in All : InPlace(n) \/ ToCopy(n)
        \/ FirstPath \/ slice' = slice
    BY <2>4, Appends
  <2> QED BY <2>1, <2>2, <2>3, <2>5, Zenon
<1>6. ASSUME NEW m \in All, NEW n \in All, m # n, slice'[m] # none, slice'[n] = slice'[m]
      PROVE  disturbed(n)'
  <2>1. CASE slice' = slice
    BY <1>2, <1>6, <2>1
  <2>2. ASSUME NEW x \in All, slice[x] = none, slice'[x].arr = x,
               \A y \in All \ {x} : slice'[y] = slice[y]
        PROVE  disturbed(n)'
    BY <1>2, <1>3, <1>6, <2>2
  <2>3. ASSUME NEW x \in All, InPlace(x), \A y \in All \ {x} : slice'[y] = slice[y]
        PROVE  disturbed(n)'
    BY <1>2, <1>4, <1>6, <2>3
  <2> QED BY <1>5, <2>1, <2>2, <2>3
<1> QED BY <1>6 DEF Twins

-----------------------------------------------------------------------------
(* What is reported.                                                       *)

(* While r is being appended in place, the words of its slot that have     *)
(* been written hold names that may be there.                              *)
OwnSlot(r) ==
    /\ words[r] # {} => room(slice[Within[r]])
    /\ room(slice[Within[r]]) => \A w \in Words \ words[r] :
          heap[slice[Within[r]].arr][slice[Within[r]].len + 1][w] \in rivals(r)

Written == \A r \in Relations : stage[r] = "append" => OwnSlot(r)

(* A write to the same slot is one of a rival.                             *)
LEMMA WrittenKept ==
  ASSUME Order, Arrays, Written, [PathsNext]_pathVars
  PROVE  Written'
<1>1. WordsHaveRoom
  BY DEF Written, OwnSlot, WordsHaveRoom
<1>2. Grown /\ Types
  BY <1>1, GrownBy DEF Order
<1> SUFFICES ASSUME NEW r \in Relations, stage'[r] = "append"
             PROVE  OwnSlot(r)'
  BY DEF Written
<1> DEFINE up == slice[Within[r]]
<1>3. r \in Names /\ r \in Bases /\ Within[r] \in All
  BY Sorts DEF Bases
<1>4. \/ stage[r] = "append" /\ words'[r] = words[r]
      \/ \E w \in Words : WriteWord(r, w)
      \/ ResolveFails(r)
  <2>1. CASE FormatResponse \/ StartCalls
    BY <1>2, <1>3, <2>1, Sorts DEF FormatResponse, StartCalls, begin, Types
  <2>2. ASSUME NEW base \in Bases, Formatted(base) \/ \E n \in Fields : FormatField(base, n)
        PROVE  stage[r] = "append" /\ words'[r] = words[r]
    BY <1>2, <1>3, <2>2 DEF Formatted, FormatField, Types
  <2>3. ASSUME NEW x \in Relations, Resolve(x) \/ ResolveToNothing(x) \/ Join(x)
        PROVE  stage[r] = "append" /\ words'[r] = words[r]
    BY <1>2, <1>3, <2>3 DEF Resolve, begin, ResolveToNothing, Join, Types
  <2>4. ASSUME NEW x \in Relations, ResolveFails(x) \/ \E w \in Words : WriteWord(x, w), x # r
        PROVE  stage[r] = "append" /\ words'[r] = words[r]
    BY <1>2, <1>3, <2>4 DEF ResolveFails, WriteWord, Types
  <2>5. CASE UNCHANGED pathVars
    BY <2>5 DEF pathVars
  <2> QED BY <2>1, <2>2, <2>3, <2>4, <2>5 DEF PathsNext
<1>5. up \in slices /\ up # none
  <2>1. stage[r] # "none"
    BY <1>4 DEF WriteWord, ResolveFails
  <2> QED BY <2>1, UpOf
<1>6. /\ slice'[Within[r]] = up /\ (room(slice[Within[r]])' <=> room(up))
      /\ rivals(r) \subseteq rivals(r)' /\ up.arr \in All /\ slice[up.arr] # none
      /\ r \in rivals(r)
  BY <1>2, <1>3, <1>5, RoomKept, InUse, OwnName DEF Grown, All
<1>7. ASSUME room(up), NEW w \in Words
      PROVE  \/ heap'[up.arr][up.len + 1][w] = heap[up.arr][up.len + 1][w]
             \/ heap'[up.arr][up.len + 1][w] \in rivals(r)
  <2>1. up.len + 1 \in DOMAIN heap[up.arr]
    BY <1>7 DEF room
  <2>2. \/ heap'[up.arr][up.len + 1][w] = heap[up.arr][up.len + 1][w]
        \/ \E m \in Names : /\ heap'[up.arr][up.len + 1][w] = m /\ slice[Within[m]] # none
                             /\ slice[Within[m]].arr = up.arr /\ slice[Within[m]].len + 1 = up.len + 1
    BY <1>1, <1>6, <2>1, Writes
  <2>3. ASSUME NEW m \in Names, slice[Within[m]] # none,
               slice[Within[m]].arr = up.arr, slice[Within[m]].len + 1 = up.len + 1
        PROVE  m \in rivals(r)
    <3>1. slice[Within[m]] \in slices
      BY <2>3, Sorts, <1>2 DEF Types
    <3>2. slice[Within[m]] = up
      BY <1>5, <2>3, <3>1 DEF slices
    <3> QED BY <1>7, <3>2 DEF rivals
  <2> QED BY <2>2, <2>3
<1>8. CASE stage[r] = "append" /\ words'[r] = words[r]
  BY <1>6, <1>7, <1>8 DEF Written, OwnSlot
<1>9. ASSUME NEW v \in Words, WriteWord(r, v)
      PROVE  OwnSlot(r)'
  <2>1. stage[r] = "append" /\ words'[r] = words[r] \ {v} /\ v \in words[r] /\ room(up)
    BY <1>2, <1>9 DEF WriteWord, Written, OwnSlot, Types
  <2>2. DOMAIN heap = All /\ heap[up.arr][up.len + 1] \in [Words -> All \cup {none}]
    BY <1>2, <1>6, <2>1 DEF Types, Arrays, room
  <2>3. heap'[up.arr][up.len + 1][v] = r
    BY <1>6, <1>9, <2>1, <2>2 DEF WriteWord, room
  <2> QED BY <1>6, <1>7, <2>1, <2>3 DEF Written, OwnSlot
<1>10. CASE ResolveFails(r)
  <2>1. words'[r] = IF room(up) THEN Words ELSE {}
    BY <1>2, <1>10 DEF ResolveFails, Types
  <2> QED BY <1>6, <2>1 DEF OwnSlot
<1> QED BY <1>4, <1>8, <1>9, <1>10

(* A path that no sibling may have disturbed has no rivals on it.          *)
LEMMA Alone ==
  ASSUME Types, Arrays, Twins, NEW r \in Relations, slice[Within[r]] # none, ~shared(r),
         NEW i \in 1 .. D(r)
  PROVE  /\ Path[r][i] = r => rivals(r) = {r}
         /\ Path[r][i] # r => mayRead(Path[r][i]) = {Path[r][i]}
<1> DEFINE k == Path[r][i]
<1>1. r \in Names /\ r \in All /\ Within[r] \in All
  BY Sorts DEF All
<1>2. DOMAIN Path[r] = 1 .. D(r) /\ k \in All /\ D(k) = i /\ D(r) \in Nat
  BY <1>1, PathFacts
<1>3. ASSUME k \in Names, k \in Fields \/ k = r
      PROVE  rivals(k) = {k}
  <2>1. i = D(Within[k]) + 1 /\ D(Within[k]) \in Nat \ {0} /\ Within[k] \in All
    BY <1>2, <1>3, UpPath, PathFacts
  <2>2. i \in 2 .. D(r)
    BY <1>2, <2>1
  <2>3. Within[k] = Path[r][i - 1] /\ i - 1 \in 1 .. D(r)
    BY <1>1, <2>2, UpOnPath
  <2>4. /\ D(r) = D(Within[r]) + 1 /\ D(Within[r]) \in Nat
        /\ \A j \in 1 .. D(Within[r]) : Path[r][j] = Path[Within[r]][j]
    BY <1>1, UpPath, PathFacts
  <2>5. \A j \in 1 .. D(Within[r]) : slice[Path[Within[r]][j]] # none
    BY <1>1 DEF Arrays, Placed
  <2>6. i - 1 \in 1 .. D(Within[r])
    BY <2>2, <2>4
  <2>7. slice[Within[k]] # none
    BY <2>3, <2>4, <2>5, <2>6
  <2>8. ASSUME room(slice[Within[k]]), NEW m \in Names, slice[Within[m]] = slice[Within[k]]
        PROVE  m = k
    <3>1. siblings(k) = {k}
      BY <1>2, <1>3, <2>8 DEF shared
    <3>2. CASE Within[m] = Within[k]
      BY <3>1, <3>2 DEF siblings
    <3>3. ASSUME Within[m] # Within[k]
          PROVE  FALSE
      <4>1. disturbed(Within[k])
        BY <2>1, <2>7, <2>8, <3>3, Sorts DEF Twins
      <4>2. PICK j \in 1 .. D(Within[k]) :
               /\ Path[Within[k]][j] \in Fields /\ room(slice[Within[Path[Within[k]][j]]])
               /\ siblings(Path[Within[k]][j]) # {Path[Within[k]][j]}
        BY <4>1 DEF disturbed
      <4>3. j \in 1 .. i - 1 /\ j \in 1 .. D(r)
        BY <1>2, <2>1, <2>3
      <4>4. Path[Within[k]][j] = Path[r][j]
        BY <1>1, <2>3, <4>3, PathFacts
      <4> QED BY <1>2, <4>2, <4>3, <4>4 DEF shared
    <3> QED BY <3>2, <3>3
  <2>9. k \in rivals(k)
    BY <1>3, OwnName DEF All
  <2> QED BY <2>8, <2>9 DEF rivals
<1>4. k \in Fields => k \in Names
  BY DEF Fields
<1> QED BY <1>1, <1>3, <1>4 DEF mayRead

(* What the property asks of the path reported for one relation.           *)
Fits(r) ==
    /\ DOMAIN reported[r] = DOMAIN Path[r]
    /\ \A i \in DOMAIN Path[r], w \in Words :
          reported[r][i][w] \in IF Path[r][i] = r THEN rivals(r) ELSE mayRead(Path[r][i])
    /\ ~shared(r) => reported[r] = [i \in DOMAIN Path[r] |-> slot(Path[r][i])]

(* And that the message it is in had a path.                               *)
Reported == \A r \in Relations : reported[r] # none => slice[Within[r]] # none /\ Fits(r)

(* The path that is joined.                                                *)
LEMMA JoinedFits ==
  ASSUME Order, Arrays, Contents, Twins, Written, NEW r \in Relations, Join(r)
  PROVE  slice'[Within[r]] # none /\ Fits(r)'
<1> DEFINE up == slice[Within[r]]
<1>1. r \in Names /\ r \in All /\ Within[r] \in All
  BY Sorts DEF All
<1>2. Types /\ stage[r] = "append" /\ words[r] = {} /\ reported'[r] = joined(r) /\ UNCHANGED <<heap, slice>>
  BY DEF Join, Order, Types
<1>3. up # none /\ up \in slices /\ up.len = D(Within[r]) /\ up.arr \in All
  BY <1>1, <1>2, UpOf, InUse
<1>4. /\ D(r) = D(Within[r]) + 1 /\ D(Within[r]) \in Nat /\ Path[r][D(r)] = r
      /\ DOMAIN Path[r] = 1 .. D(r)
      /\ \A i \in 1 .. D(Within[r]) : Path[r][i] = Path[Within[r]][i] /\ i \in 1 .. D(r)
  BY <1>1, UpPath, PathFacts
<1>5. \A i \in 1 .. D(Within[r]) : Path[r][i] # r
  BY <1>1, <1>4, PathFacts
<1> DEFINE x(i) == IF i <= up.len \/ room(up) THEN heap[up.arr][i] ELSE slot(r)
<1>6. joined(r) = [i \in 1 .. D(r) |-> x(i)]
  <2>1. CASE room(up)
    <3>1. [up EXCEPT !.len = @ + 1] = [arr |-> up.arr, len |-> D(r)]
      BY <1>3, <1>4 DEF slices
    <3>2. joined(r) = contents([arr |-> up.arr, len |-> D(r)])
      BY <2>1, <3>1 DEF joined
    <3> QED BY <2>1, <3>2 DEF contents
  <2>2. CASE ~room(up)
    BY <1>3, <1>4, <2>2 DEF joined, copied
  <2> QED BY <2>1, <2>2
<1>7. ASSUME NEW i \in 1 .. D(r)
      PROVE  /\ x(i) \in [Words -> All \cup {none}]
             /\ \A w \in Words :
                   x(i)[w] \in IF Path[r][i] = r THEN rivals(r) ELSE mayRead(Path[r][i])
  <2>1. CASE i \in 1 .. D(Within[r])
    <3>1. x(i) = heap[up.arr][i]
      BY <1>3, <1>4, <2>1
    <3>2. i \in DOMAIN heap[up.arr]
      BY <1>1, <1>3, <2>1 DEF Arrays, Placed
    <3>3. heap[up.arr][i] \in [Words -> All \cup {none}]
      BY <1>3, <3>2 DEF Arrays
    <3>4. \A w \in Words : heap[up.arr][i][w] \in mayRead(Path[Within[r]][i])
      BY <1>1, <1>3, <2>1 DEF Contents, Holds
    <3> QED BY <1>4, <1>5, <2>1, <3>1, <3>3, <3>4
  <2>2. CASE i = D(r) /\ room(up)
    <3>1. x(i) = heap[up.arr][up.len + 1] /\ up.len + 1 \in DOMAIN heap[up.arr]
      BY <1>3, <1>4, <2>2 DEF room
    <3>2. x(i) \in [Words -> All \cup {none}]
      BY <1>3, <3>1 DEF Arrays
    <3>3. \A w \in Words : heap[up.arr][up.len + 1][w] \in rivals(r)
      BY <1>2, <2>2 DEF Written, OwnSlot
    <3> QED BY <1>4, <2>2, <3>1, <3>2, <3>3
  <2>3. CASE i = D(r) /\ ~room(up)
    <3>1. x(i) = slot(r) /\ rivals(r) = {r}
      BY <1>3, <1>4, <2>3 DEF rivals
    <3> QED BY <1>1, <1>4, <2>3, <3>1 DEF slot
  <2> QED BY <1>4, <2>1, <2>2, <2>3
<1>8. ASSUME ~shared(r)
      PROVE  joined(r) = [i \in 1 .. D(r) |-> slot(Path[r][i])]
  <2>1. ASSUME NEW i \in 1 .. D(r)
        PROVE  x(i) = slot(Path[r][i])
    <3>0. /\ Path[r][i] = r => rivals(r) = {r}
          /\ Path[r][i] # r => mayRead(Path[r][i]) = {Path[r][i]}
      BY <1>2, <1>3, <1>8, Alone
    <3> HIDE DEF x
    <3>1. \A w \in Words : x(i)[w] = Path[r][i]
      BY <1>7, <3>0
    <3> QED BY <1>7, <3>1 DEF slot
  <2> HIDE DEF x
  <2> QED BY <1>6, <2>1
<1>9. shared(r)' = shared(r) /\ rivals(r)' = rivals(r) /\ \A k \in All : mayRead(k)' = mayRead(k)
  BY <1>2 DEF shared, rivals, mayRead, room
<1>10. \A i \in 1 .. D(r) : Path[r][i] \in All
  BY <1>1, PathFacts
<1> HIDE DEF x
<1> QED BY <1>2, <1>3, <1>4, <1>6, <1>7, <1>8, <1>9, <1>10 DEF Fits

(* A path that was reported stays right.                                   *)
LEMMA FitsStill ==
  ASSUME Order, Arrays, WordsHaveRoom, Contents, [PathsNext]_pathVars,
         NEW r \in Relations, reported'[r] = reported[r], slice[Within[r]] # none, Fits(r)
  PROVE  slice'[Within[r]] # none /\ Fits(r)'
<1>1. r \in Names /\ r \in All /\ Within[r] \in All
  BY Sorts DEF All
<1>2. Types /\ Grown
  BY GrownBy DEF Order
<1>3. slice'[Within[r]] # none
  BY <1>1, <1>2 DEF Grown
<1>4. /\ D(r) = D(Within[r]) + 1 /\ D(Within[r]) \in Nat /\ Path[r][D(r)] = r
      /\ DOMAIN Path[r] = 1 .. D(r)
      /\ \A i \in 1 .. D(Within[r]) : Path[r][i] = Path[Within[r]][i]
  BY <1>1, UpPath, PathFacts
<1>5. \A i \in 1 .. D(r) : i = D(r) \/ i \in 1 .. D(Within[r])
  BY <1>4
<1>6. rivals(r) \subseteq rivals(r)'
  BY <1>1, <1>2, RoomKept
<1>7. \A i \in 1 .. D(Within[r]) : mayRead(Path[r][i]) \subseteq mayRead(Path[r][i])'
  BY <1>1, <1>4, HoldsStill
<1>8. shared(r) => shared(r)'
  <2>1. SUFFICES ASSUME NEW i \in 1 .. D(r), Path[r][i] \in Fields \/ Path[r][i] = r,
                        room(slice[Within[Path[r][i]]]), siblings(Path[r][i]) # {Path[r][i]}
                 PROVE  shared(r)'
    BY <1>4 DEF shared
  <2> DEFINE k == Path[r][i]
  <2>2. k \in Names /\ D(k) = i
    BY <1>1, <2>1, PathFacts DEF Fields
  <2>3. i = D(Within[k]) + 1 /\ D(Within[k]) \in Nat \ {0}
    BY <2>2, UpPath, PathFacts
  <2>4. i \in 2 .. D(r) /\ i - 1 \in 1 .. D(Within[r])
    BY <1>4, <2>3
  <2>5. Within[k] = Path[r][i - 1]
    BY <1>1, <2>4, UpOnPath
  <2>6. \A j \in 1 .. D(Within[r]) : slice[Path[Within[r]][j]] # none
    BY <1>1 DEF Arrays, Placed
  <2>7. slice[Within[k]] # none
    BY <1>4, <2>4, <2>5, <2>6
  <2>8. room(slice[Within[k]])'
    BY <1>2, <2>1, <2>2, <2>7, RoomKept
  <2> QED BY <1>4, <2>1, <2>8 DEF shared, siblings
<1>9. ASSUME NEW i \in 1 .. D(r), NEW w \in Words
      PROVE  reported'[r][i][w] \in IF Path[r][i] = r THEN rivals(r)' ELSE mayRead(Path[r][i])'
  BY <1>4, <1>5, <1>6, <1>7 DEF Fits
<1> QED BY <1>3, <1>4, <1>8, <1>9 DEF Fits

(* Arrays, what they hold, and what was reported from them.                *)
Paths == Arrays /\ Contents /\ Twins /\ Written /\ Reported

(* Every step keeps all of it.                                             *)
LEMMA PathsStayRight ==
  ASSUME Headers, Paths, [PathsNext]_pathVars
  PROVE  Paths'
<1>1. Order /\ Arrays /\ Contents /\ Twins /\ Written /\ Reported
  BY DEF Headers, Paths
<1>2. WordsHaveRoom
  BY <1>1 DEF Written, OwnSlot, WordsHaveRoom
<1>3. Arrays' /\ Contents' /\ Twins' /\ Written'
  BY <1>1, <1>2, ArraysKept, ContentsKept, TwinsKept, WrittenKept
<1>4. ASSUME NEW r \in Relations, reported'[r] # none
      PROVE  slice'[Within[r]] # none /\ Fits(r)'
  <2>1. CASE Join(r)
    BY <1>1, <2>1, JoinedFits
  <2>2. CASE ~Join(r)
    <3>1. ASSUME NEW x \in Relations, Join(x)
          PROVE  reported'[r] = reported[r]
      BY <1>1, <2>2, <3>1 DEF Join, Order, Types
    <3>2. reported'[r] = reported[r]
      BY <3>1 DEF PathsNext, FormatResponse, StartCalls, Formatted, FormatField, Resolve,
                  ResolveToNothing, ResolveFails, WriteWord, pathVars
    <3>3. slice[Within[r]] # none /\ Fits(r)
      BY <1>1, <1>4, <3>2 DEF Reported
    <3> QED BY <1>1, <1>2, <3>2, <3>3, FitsStill
  <2> QED BY <2>1, <2>2
<1> QED BY <1>3, <1>4 DEF Paths, Reported

(* At first there are no paths.                                            *)
LEMMA NoPathsAtFirst == PathsInit => Paths
<1> SUFFICES ASSUME PathsInit
             PROVE  Paths
  OBVIOUS
<1>1. \A n \in All : slice[n] = none /\ heap[n] = << >>
  BY DEF PathsInit, All
<1>2. \A a \in All : DOMAIN heap[a] = {}
  BY <1>1
<1>3. \A r \in Relations : stage[r] = "none" /\ reported[r] = none
  BY DEF PathsInit, Bases
<1> QED BY <1>1, <1>2, <1>3 DEF Paths, Arrays, Contents, Twins, Written, Reported

(* Headers and Paths together are inductive.                               *)
LEMMA PathsInvariant == PathsSpec => [](Headers /\ Paths)
<1>1. Headers /\ Paths /\ [PathsNext]_pathVars => (Headers /\ Paths)'
  BY HeadersKept, PathsStayRight
<1> QED BY <1>1, HeadersAtFirst, NoPathsAtFirst, PTL DEF PathsSpec

(* Whatever else is formatted, and whichever resolvers fail meanwhile, the *)
(* path reported with an error is that of the relation, unless a field on  *)
(* the way, or the relation itself, was appended in place to a path that a *)
(* sibling is appended to as well; and then each name in it is the right   *)
(* one or one that was appended to the same path.                          *)
THEOREM PathsRightUnlessShared == PathsSpec => []RightUnlessShared
<1>1. Headers /\ Paths => RightUnlessShared
  BY DEF Paths, Reported, Fits, RightUnlessShared
<1> QED BY <1>1, PathsInvariant, PTL

(* The path of a resolved value, a copy without room, is not written to    *)
(* again, by formatting below it or by failures beside it.                 *)
THEOREM ResolvedPathsAreTheirOwn == PathsSpec => ResolvedPathsStay
<1>1. ASSUME Headers, Paths, [PathsNext]_pathVars, NEW r \in Relations, slice[r] # none
      PROVE  slice'[r] = slice[r] /\ contents(slice[r])' = contents(slice[r])
  <2>1. Order /\ Types /\ Arrays /\ WordsHaveRoom /\ r \in All /\ r \in Bases
    BY <1>1, Sorts DEF Headers, Order, Paths, Written, OwnSlot, WordsHaveRoom, All, Bases
  <2>2. slice'[r] = slice[r]
    BY <1>1, <2>1, PathsKept
  <2>3. slice[r].arr = r /\ slice[r].len = D(r)
    BY <1>1, <2>1 DEF Arrays, Placed
  <2>4. \A i \in 1 .. D(r) : heap'[r][i] = heap[r][i]
    BY <1>1, <2>1, OwnArrayStays
  <2> QED BY <2>2, <2>3, <2>4 DEF contents
<1>2. Headers /\ Paths /\ [PathsNext]_pathVars =>
        [\A r \in Relations : slice[r] # none =>
            slice'[r] = slice[r] /\ contents(slice[r])' = contents(slice[r])]_pathVars
  BY <1>1
<1> QED BY <1>2, PathsInvariant, PTL DEF PathsSpec, ResolvedPathsStay
=============================================================================
