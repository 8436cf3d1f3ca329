----------------------------- MODULE QueriesProofs -----------------------------
(***************************************************************************)
(* Theorems about Registration and Queries: whatever was registered, a     *)
(* request that is accepted can be answered, without side effects if it is *)
(* a Fetch; its schema describes the response; and what is in the response *)
(* is read by the schema as what it was, and told from errors.             *)
(*                                                                         *)
(* The loop of addService and the traversals of masks are functions of a   *)
(* number of turns.  What they compute is proved by induction on it: that  *)
(* such a function exists, and then what holds after every turn.           *)
(***************************************************************************)
EXTENDS Queries, SequenceTheorems, WellFoundedInduction, TLAPS

-----------------------------------------------------------------------------
(* Induction.                                                              *)

(* Induction on numbers, for sets: that of the least number that is not in *)
(* S there is none.                                                        *)
LEMMA NumbersInduct ==
    ASSUME NEW S, 0 \in S, \A n \in Nat : n \in S => n + 1 \in S
    PROVE  \A n \in Nat : n \in S
<1> DEFINE less == {p \in Nat \X Nat : p[1] < p[2]}
<1> SUFFICES ASSUME Nat \ S # {} PROVE FALSE
  BY Zenon
<1>1. IsWellFoundedOn(less, Nat)
  BY NatLessThanWellFounded DEF OpToRel
<1> HIDE DEF less
<1>2. PICK x \in Nat \ S : \A y \in Nat \ S : ~(<<y, x>> \in less)
  BY <1>1, WFMin, Nat \ S \subseteq Nat
<1> USE DEF less
<1>3. x # 0 /\ x - 1 \in Nat /\ x - 1 < x
  BY <1>2
<1>4. x - 1 \in S
  BY <1>2, <1>3
<1>5. (x - 1) + 1 \in S
  BY <1>3, <1>4
<1> QED BY <1>2, <1>5

-----------------------------------------------------------------------------
(* The loop of addService.                                                 *)

(* What the loop starts from.                                              *)
Begun(byName, opts) ==
    [methods |-> methods, relations |-> relations, byName |-> byName,
     err |-> getSvcOpts(opts).baseURL = Nil]

(* The loop of addService is what its equation says: a turn starts from    *)
(* what the turn before it left.                                           *)
LEMMA LoopOfAddService ==
    ASSUME NEW svc, NEW byName, NEW opts
    PROVE  addService(svc, byName, opts) =
               [n \in Nat |-> IF n = 0 THEN Begun(byName, opts)
                              ELSE addMethod(addService(svc, byName, opts)[n - 1],
                                             Services[svc][n])]
<1> DEFINE b == Begun(byName, opts)
           step(x, n) == addMethod(x, Services[svc][n])
           part(g, n) == g = [i \in 0 .. n |-> IF i = 0 THEN b ELSE step(g[i - 1], i)]
           S == {n \in Nat : \E g : part(g, n)}
           G(n) == CHOOSE g : part(g, n)
           h == [n \in Nat |-> G(n)[n]]
<1> HIDE DEF b, step
<1>1. 0 \in S
  <2>1. part([i \in 0 .. 0 |-> b], 0)
    OBVIOUS
  <2> QED BY <2>1
<1>2. ASSUME NEW n \in Nat, n \in S PROVE n + 1 \in S
  <2>1. PICK g : part(g, n)
    BY <1>2
  <2> DEFINE k == [i \in 0 .. n + 1 |-> IF i = n + 1 THEN step(g[n], n + 1) ELSE g[i]]
  <2>2. \A i \in 0 .. n + 1 : k[i] = IF i = 0 THEN b ELSE step(k[i - 1], i)
    BY <2>1
  <2>3. part(k, n + 1)
    BY <2>2
  <2>4. \E x : part(x, n + 1)
    <3> HIDE DEF k, part
    <3> QED BY <2>3
  <2> QED BY <2>4
<1>3. \A n \in Nat : n \in S
  <2> HIDE DEF S
  <2> QED BY <1>1, <1>2, NumbersInduct
<1>4. \A n \in Nat : part(G(n), n)
  BY <1>3, Zenon
<1> HIDE DEF G
<1>5. ASSUME NEW n \in Nat PROVE G(n + 1)[n] = G(n)[n]
  <2> DEFINE E == {i \in Nat : i <= n => G(n + 1)[i] = G(n)[i]}
  <2>1. part(G(n), n) /\ part(G(n + 1), n + 1)
    BY <1>4, n + 1 \in Nat
  <2>2. 0 \in E
    BY <2>1
  <2>3. ASSUME NEW i \in Nat, i \in E PROVE i + 1 \in E
    BY <2>1, <2>3
  <2>4. \A i \in Nat : i \in E
    <3> HIDE DEF E
    <3> QED BY <2>2, <2>3, NumbersInduct
  <2> QED BY <2>4
<1>6. h = [n \in Nat |-> IF n = 0 THEN b ELSE step(h[n - 1], n)]
  <2>1. ASSUME NEW n \in Nat, n # 0 PROVE G(n)[n] = step(G(n - 1)[n - 1], n)
    <3>1. G(n)[n] = step(G(n)[n - 1], n)
      BY <1>4, <2>1
    <3>2. n - 1 \in Nat /\ (n - 1) + 1 = n
      BY <2>1
    <3>3. G(n)[n - 1] = G(n - 1)[n - 1]
      BY <1>5, <3>2
    <3> QED BY <3>1, <3>3
  <2>2. G(0)[0] = b
    BY <1>4
  <2> QED BY <2>1, <2>2
<1> HIDE DEF h
<1> QED BY <1>6, Zenon DEF addService, Begun, b, step

Accumulator(acc) ==
    acc = [methods |-> acc.methods, relations |-> acc.relations, byName |-> acc.byName,
           err |-> acc.err]

Method(m) ==
    m # Nil /\ m.clientStreams \in BOOLEAN /\ m.serverStreams \in BOOLEAN /\ m.sideEffects \in BOOLEAN

(* Relation k is resolved by m: a unary method without side effects, that  *)
(* has it under a name in camel case that no field of its version of the   *)
(* message has, and a field for its values in their wrapper.               *)
Resolves(m, k) ==
    /\ m # Nil /\ kindOf(m) = "unary" /\ ~m.sideEffects
    /\ hasFields(m.pool, k[1]) /\ fieldWithCamelCaseName(fields[m.pool][k[1]], k[2]) = 0
    /\ hasFields(m.pool, resultField(m).type)
    /\ relationField(m) # Nil /\ relationField(m).name = m.relation
    /\ k[2] = camelCase(m.relation)

(* What is registered: no two methods of one name, and for every relation  *)
(* one that resolves it.                                                   *)
Registered(meths, rels) ==
    /\ \A m \in meths : Method(m)
    /\ \A m, r \in meths : m.name = r.name => m = r
    /\ \A k \in DOMAIN rels : Resolves(rels[k], k)

(* A turn of the loop keeps what is registered in order, also when it      *)
(* refuses the method's relation after it has added the method.            *)
LEMMA TurnKeepsOrder ==
    ASSUME NEW acc, NEW m, Method(m), Accumulator(acc), Registered(acc.methods, acc.relations)
    PROVE  LET next == addMethod(acc, m)
           IN  Accumulator(next) /\ Registered(next.methods, next.relations)
<1> DEFINE next == addMethod(acc, m)
           taken == acc.err \/ (\E r \in acc.methods : r.name = m.name)
                    \/ (acc.byName /\ ~m.linked)
           plain == m.relation = Nil
           good == m.relation # << >> /\ getRelationConfig(m)
                   /\ canAddRelation(acc.relations, m)
           rels == [k \in DOMAIN acc.relations \cup {relationKey(m)} |->
                       IF k = relationKey(m) THEN m ELSE acc.relations[k]]
<1>1. CASE taken
  <2>1. next = [acc EXCEPT !.err = TRUE]
    BY <1>1 DEF addMethod
  <2>2. next = [methods |-> acc.methods, relations |-> acc.relations, byName |-> acc.byName,
                err |-> TRUE]
    BY <2>1 DEF Accumulator
  <2> QED BY <2>2 DEF Accumulator
<1>2. ASSUME ~taken PROVE Registered(acc.methods \cup {m}, acc.relations)
  BY <1>2 DEF Registered
<1>3. CASE ~taken /\ plain
  <2>1. next = [acc EXCEPT !.methods = @ \cup {m}]
    BY <1>3 DEF addMethod
  <2>2. next = [methods |-> acc.methods \cup {m}, relations |-> acc.relations,
                byName |-> acc.byName, err |-> acc.err]
    BY <2>1 DEF Accumulator
  <2> QED BY <2>2, <1>2, <1>3 DEF Accumulator
<1>4. CASE ~taken /\ ~plain /\ ~good
  <2>1. next = [acc EXCEPT !.methods = @ \cup {m}, !.err = TRUE]
    BY <1>4 DEF addMethod
  <2>2. next = [methods |-> acc.methods \cup {m}, relations |-> acc.relations,
                byName |-> acc.byName, err |-> TRUE]
    BY <2>1 DEF Accumulator
  <2> QED BY <2>2, <1>2, <1>4 DEF Accumulator
<1>5. CASE ~taken /\ ~plain /\ good
  <2>1. next = [acc EXCEPT !.methods = @ \cup {m}, !.relations = rels]
    BY <1>5 DEF addMethod
  <2>2. next = [methods |-> acc.methods \cup {m}, relations |-> rels,
                byName |-> acc.byName, err |-> acc.err]
    <3> HIDE DEF rels
    <3> QED BY <2>1 DEF Accumulator
  <2>3. ASSUME NEW k \in DOMAIN rels PROVE Resolves(rels[k], k)
    <3>1. CASE k = relationKey(m)
      <4>1. rels[k] = m
        BY <3>1
      <4>2. k[1] = baseField(m).type /\ k[2] = relationKey(m)[2] /\ k[2] = camelCase(m.relation)
        BY <3>1 DEF relationKey
      <4>3. /\ kindOf(m) = "unary" /\ ~m.sideEffects /\ laidOut(m)
            /\ fieldWithCamelCaseName(fields[m.pool][baseField(m).type], relationKey(m)[2]) = 0
        BY <1>5 DEF getRelationConfig, canAddRelation
      <4>4. m # Nil
        BY DEF Method
      <4>5. Resolves(m, k)
        BY <4>2, <4>3, <4>4 DEF Resolves, laidOut, batchOf
      <4> QED BY <4>1, <4>5
    <3>2. CASE k # relationKey(m)
      <4>1. k \in DOMAIN acc.relations /\ rels[k] = acc.relations[k]
        BY <3>2
      <4> QED BY <4>1 DEF Registered
    <3> QED BY <3>1, <3>2
  <2>4. Registered(acc.methods \cup {m}, rels)
    <3> HIDE DEF rels
    <3> QED BY <2>3, <1>2, <1>5 DEF Registered
  <2> QED
    <3> HIDE DEF rels
    <3> QED BY <2>2, <2>4 DEF Accumulator
<1> HIDE DEF next, taken, plain, good
<1> QED BY <1>1, <1>3, <1>4, <1>5

(* addService keeps what is registered in order, however far it gets.      *)
LEMMA AddServiceKeepsOrder ==
    ASSUME NEW svc \in DOMAIN Services, NEW byName, NEW opts, Registered(methods, relations)
    PROVE  LET acc == addService(svc, byName, opts)[Len(Services[svc])]
           IN  Registered(acc.methods, acc.relations)
<1> DEFINE L == Len(Services[svc])
           A(n) == addService(svc, byName, opts)[n]
           S == {n \in Nat : n <= L => /\ Accumulator(A(n))
                                       /\ Registered(A(n).methods, A(n).relations)}
<1>1. L \in Nat /\ \A n \in 1 .. L : Method(Services[svc][n])
  <2>1. Services[svc] \in Seq(ToSet(Services[svc]))
    BY ServicesAssumption
  <2>2. L \in Nat /\ \A n \in 1 .. L : Services[svc][n] \in ToSet(Services[svc])
    BY <2>1
  <2> QED BY <2>2, ServicesAssumption DEF Method
<1>2. A(0) = Begun(byName, opts)
  BY LoopOfAddService
<1>3. ASSUME NEW n \in Nat PROVE A(n + 1) = addMethod(A(n), Services[svc][n + 1])
  <2>1. n + 1 \in Nat /\ n + 1 # 0 /\ (n + 1) - 1 = n
    OBVIOUS
  <2> QED BY <2>1, LoopOfAddService
<1> HIDE DEF A
<1>4. 0 \in S
  BY <1>2 DEF Begun, Accumulator
<1>5. ASSUME NEW n \in Nat, n \in S PROVE n + 1 \in S
  <2> SUFFICES ASSUME n + 1 <= L
               PROVE  Accumulator(A(n + 1)) /\ Registered(A(n + 1).methods, A(n + 1).relations)
    OBVIOUS
  <2>1. Accumulator(A(n)) /\ Registered(A(n).methods, A(n).relations)
    BY <1>1, <1>5
  <2>2. Method(Services[svc][n + 1])
    BY <1>1
  <2> QED BY <1>3, <2>1, <2>2, TurnKeepsOrder
<1>6. \A n \in Nat : n \in S
  <2> HIDE DEF S
  <2> QED BY <1>4, <1>5, NumbersInduct
<1>7. Registered(A(L).methods, A(L).relations)
  BY <1>1, <1>6
<1> QED BY <1>7 DEF A

-----------------------------------------------------------------------------
(* Traversals of masks.                                                    *)

(* A traversal is what its equation says: what is met within one name more *)
(* is what was met so far and what is below it.                            *)
LEMMA LoopOfWithin ==
    ASSUME NEW r
    PROVE  within(r) =
               [n \in Nat |-> IF n = 0 THEN {r}
                              ELSE within(r)[n - 1] \cup UNION {below(v) : v \in within(r)[n - 1]}]
<1> DEFINE b == {r}
           step(x) == x \cup UNION {below(v) : v \in x}
           part(g, n) == g = [i \in 0 .. n |-> IF i = 0 THEN b ELSE step(g[i - 1])]
           S == {n \in Nat : \E g : part(g, n)}
           G(n) == CHOOSE g : part(g, n)
           h == [n \in Nat |-> G(n)[n]]
<1> HIDE DEF b, step
<1>1. 0 \in S
  <2>1. part([i \in 0 .. 0 |-> b], 0)
    OBVIOUS
  <2> QED BY <2>1
<1>2. ASSUME NEW n \in Nat, n \in S PROVE n + 1 \in S
  <2>1. PICK g : part(g, n)
    BY <1>2
  <2> DEFINE k == [i \in 0 .. n + 1 |-> IF i = n + 1 THEN step(g[n]) ELSE g[i]]
  <2>2. \A i \in 0 .. n + 1 : k[i] = IF i = 0 THEN b ELSE step(k[i - 1])
    BY <2>1
  <2>3. part(k, n + 1)
    BY <2>2
  <2>4. \E x : part(x, n + 1)
    <3> HIDE DEF k, part
    <3> QED BY <2>3
  <2> QED BY <2>4
<1>3. \A n \in Nat : n \in S
  <2> HIDE DEF S
  <2> QED BY <1>1, <1>2, NumbersInduct
<1>4. \A n \in Nat : part(G(n), n)
  BY <1>3, Zenon
<1> HIDE DEF G
<1>5. ASSUME NEW n \in Nat PROVE G(n + 1)[n] = G(n)[n]
  <2> DEFINE E == {i \in Nat : i <= n => G(n + 1)[i] = G(n)[i]}
  <2>1. part(G(n), n) /\ part(G(n + 1), n + 1)
    BY <1>4, n + 1 \in Nat
  <2>2. 0 \in E
    BY <2>1
  <2>3. ASSUME NEW i \in Nat, i \in E PROVE i + 1 \in E
    BY <2>1, <2>3
  <2>4. \A i \in Nat : i \in E
    <3> HIDE DEF E
    <3> QED BY <2>2, <2>3, NumbersInduct
  <2> QED BY <2>4
<1>6. h = [n \in Nat |-> IF n = 0 THEN b ELSE step(h[n - 1])]
  <2>1. ASSUME NEW n \in Nat, n # 0 PROVE G(n)[n] = step(G(n - 1)[n - 1])
    <3>1. G(n)[n] = step(G(n)[n - 1])
      BY <1>4, <2>1
    <3>2. n - 1 \in Nat /\ (n - 1) + 1 = n
      BY <2>1
    <3>3. G(n)[n - 1] = G(n - 1)[n - 1]
      BY <1>5, <3>2
    <3> QED BY <3>1, <3>3
  <2>2. G(0)[0] = b
    BY <1>4
  <2> QED BY <2>1, <2>2
<1> HIDE DEF h
<1>7. within(r) = [n \in Nat |-> IF n = 0 THEN b ELSE step(within(r)[n - 1])]
  BY <1>6, Zenon DEF within, b, step
<1> QED BY <1>7 DEF b, step

(* The same, turn by turn.                                                 *)
LEMMA WithinOneMore ==
    ASSUME NEW r
    PROVE  /\ within(r)[0] = {r}
           /\ \A n \in Nat :
                 within(r)[n + 1] = within(r)[n] \cup UNION {below(v) : v \in within(r)[n]}
<1>1. within(r)[0] = {r}
  BY LoopOfWithin
<1>2. ASSUME NEW n \in Nat
      PROVE  within(r)[n + 1] = within(r)[n] \cup UNION {below(v) : v \in within(r)[n]}
  <2>1. n + 1 \in Nat /\ n + 1 # 0 /\ (n + 1) - 1 = n
    OBVIOUS
  <2> QED BY <2>1, LoopOfWithin
<1> QED BY <1>1, <1>2

(* What a traversal has met stays met.                                     *)
LEMMA MetStaysMet ==
    ASSUME NEW r, NEW n \in Nat
    PROVE  n <= MaxDepth => within(r)[n] \subseteq reached(r)
<1> DEFINE W(k) == within(r)[k]
           S == {k \in Nat : W(n) \subseteq W(n + k)}
<1>1. \A k \in Nat : W(k) \subseteq W(k + 1)
  BY WithinOneMore
<1> HIDE DEF W
<1>2. 0 \in S
  BY n + 0 = n
<1>3. ASSUME NEW k \in Nat, k \in S PROVE k + 1 \in S
  <2>1. n + k \in Nat /\ (n + k) + 1 = n + (k + 1)
    OBVIOUS
  <2>2. W(n) \subseteq W(n + k) /\ W(n + k) \subseteq W(n + (k + 1))
    BY <1>1, <1>3, <2>1
  <2> QED BY <2>2
<1>4. \A k \in Nat : k \in S
  <2> HIDE DEF S
  <2> QED BY <1>2, <1>3, NumbersInduct
<1>5. ASSUME n <= MaxDepth PROVE W(n) \subseteq W(MaxDepth)
  <2>1. MaxDepth - n \in Nat /\ n + (MaxDepth - n) = MaxDepth
    BY <1>5, RequestsAssumption
  <2> QED BY <1>4, <2>1
<1> QED BY <1>5 DEF W, reached

(* With nothing in its mask a message is all that is met.                  *)
LEMMA NothingAsked ==
    ASSUME NEW r, r.mask = << >>
    PROVE  reached(r) = {r}
<1> DEFINE W(k) == within(r)[k]
           S == {n \in Nat : W(n) = {r}}
<1>1. below(r) = {}
  BY DEF below, asks, namesIn
<1>2. 0 \in S
  BY WithinOneMore
<1>3. ASSUME NEW n \in Nat, n \in S PROVE n + 1 \in S
  <2>1. W(n + 1) = W(n) \cup UNION {below(v) : v \in W(n)}
    BY WithinOneMore
  <2> HIDE DEF W
  <2> QED BY <1>1, <1>3, <2>1
<1>4. \A n \in Nat : n \in S
  <2> HIDE DEF S
  <2> QED BY <1>2, <1>3, NumbersInduct
<1> QED BY <1>4, RequestsAssumption DEF reached

(* What is met, but for where the traversal starts, is below something     *)
(* that was met before.                                                    *)
LEMMA MetFromAbove ==
    ASSUME NEW r, NEW n \in Nat, NEW v \in within(r)[n + 1]
    PROVE  v = r \/ \E u \in within(r)[n] : v \in below(u)
<1> DEFINE W(k) == within(r)[k]
           from(k) == \A x \in W(k + 1) : x = r \/ \E u \in W(k) : x \in below(u)
           S == {k \in Nat : from(k)}
<1>0. W(0) = {r} /\ \A k \in Nat : W(k + 1) = W(k) \cup UNION {below(x) : x \in W(k)}
  BY WithinOneMore
<1> HIDE DEF W
<1>1. 0 \in S
  <2>1. W(0 + 1) = W(0) \cup UNION {below(x) : x \in W(0)}
    BY <1>0
  <2> QED BY <1>0, <2>1
<1>2. ASSUME NEW k \in Nat, k \in S PROVE k + 1 \in S
  <2> SUFFICES ASSUME NEW x \in W((k + 1) + 1)
               PROVE  x = r \/ \E u \in W(k + 1) : x \in below(u)
    OBVIOUS
  <2>1. x \in W(k + 1) \/ \E u \in W(k + 1) : x \in below(u)
    BY <1>0, k + 1 \in Nat
  <2>2. W(k) \subseteq W(k + 1)
    BY <1>0
  <2>3. ASSUME x \in W(k + 1) PROVE x = r \/ \E u \in W(k) : x \in below(u)
    BY <1>2, <2>3
  <2> QED BY <2>1, <2>2, <2>3
<1>3. \A k \in Nat : k \in S
  <2> HIDE DEF S
  <2> QED BY <1>1, <1>2, NumbersInduct
<1>4. from(n)
  BY <1>3
<1>5. v \in W(n + 1)
  BY DEF W
<1>6. v = r \/ \E u \in W(n) : v \in below(u)
  BY <1>4, <1>5
<1> QED BY <1>6 DEF W

(* A name in the mask of a message, and what is below it there.            *)
LEMMA NameOfMask ==
    ASSUME NEW v, NEW a \in asks(v)
    PROVE  /\ hasFields(v.pool, v.type) /\ a \in namesIn(v)
           /\ a.pool = v.pool /\ a.msg = v.type /\ a.path = Append(v.path, a.name)
           /\ \E i \in DOMAIN v.mask : a.name = v.mask[i].name /\ a.mask = v.mask[i].mask
<1>1. hasFields(v.pool, v.type) /\ a \in namesIn(v)
  BY DEF asks
<1> DEFINE spelt(i) == [path |-> Append(v.path, v.mask[i].name), pool |-> v.pool, msg |-> v.type,
                        name |-> v.mask[i].name, mask |-> v.mask[i].mask]
<1>2. PICK i \in DOMAIN v.mask : a = spelt(i)
  BY <1>1 DEF namesIn
<1>3. /\ a.pool = v.pool /\ a.msg = v.type /\ a.name = v.mask[i].name /\ a.mask = v.mask[i].mask
      /\ a.path = Append(v.path, v.mask[i].name)
  BY <1>2
<1> QED BY <1>1, <1>3

(* What validation goes on with at a name.                                 *)
Child(a) == message(a.path, poolOf(a), descriptorOf(a).type, a.mask)

(* Everything below a message is the child of a name in its mask.          *)
LEMMA BelowIsChild ==
    ASSUME NEW v
    PROVE  /\ \A u \in below(v) : \E a \in asks(v) : known(a) /\ u = Child(a)
           /\ \A a \in asks(v) : known(a) => Child(a) \in below(v)
BY DEF below, Child

(* The parts of a child.                                                   *)
LEMMA PartsOfChild ==
    ASSUME NEW a
    PROVE  /\ Child(a).path = a.path /\ Child(a).mask = a.mask
           /\ Child(a).pool = poolOf(a) /\ Child(a).type = descriptorOf(a).type
BY DEF Child, message

-----------------------------------------------------------------------------
(* Masks.                                                                  *)

(* The masks n + 1 names down are those in the masks n names down.         *)
LEMMA MasksOneMore ==
    ASSUME NEW mask
    PROVE  /\ masksAt(mask)[0] = {mask}
           /\ \A n \in Nat : masksAt(mask)[n + 1]
                                = UNION {{m[i].mask : i \in DOMAIN m} : m \in masksAt(mask)[n]}
<1> DEFINE b == {mask}
           step(x) == UNION {{m[i].mask : i \in DOMAIN m} : m \in x}
           part(g, n) == g = [i \in 0 .. n |-> IF i = 0 THEN b ELSE step(g[i - 1])]
           S == {n \in Nat : \E g : part(g, n)}
           G(n) == CHOOSE g : part(g, n)
           h == [n \in Nat |-> G(n)[n]]
<1> HIDE DEF b, step
<1>1. 0 \in S
  <2>1. part([i \in 0 .. 0 |-> b], 0)
    OBVIOUS
  <2> QED BY <2>1
<1>2. ASSUME NEW n \in Nat, n \in S PROVE n + 1 \in S
  <2>1. PICK g : part(g, n)
    BY <1>2
  <2> DEFINE k == [i \in 0 .. n + 1 |-> IF i = n + 1 THEN step(g[n]) ELSE g[i]]
  <2>2. \A i \in 0 .. n + 1 : k[i] = IF i = 0 THEN b ELSE step(k[i - 1])
    BY <2>1
  <2>3. part(k, n + 1)
    BY <2>2
  <2>4. \E x : part(x, n + 1)
    <3> HIDE DEF k, part
    <3> QED BY <2>3
  <2> QED BY <2>4
<1>3. \A n \in Nat : n \in S
  <2> HIDE DEF S
  <2> QED BY <1>1, <1>2, NumbersInduct
<1>4. \A n \in Nat : part(G(n), n)
  BY <1>3, Zenon
<1> HIDE DEF G
<1>5. ASSUME NEW n \in Nat PROVE G(n + 1)[n] = G(n)[n]
  <2> DEFINE E == {i \in Nat : i <= n => G(n + 1)[i] = G(n)[i]}
  <2>1. part(G(n), n) /\ part(G(n + 1), n + 1)
    BY <1>4, n + 1 \in Nat
  <2>2. 0 \in E
    BY <2>1
  <2>3. ASSUME NEW i \in Nat, i \in E PROVE i + 1 \in E
    BY <2>1, <2>3
  <2>4. \A i \in Nat : i \in E
    <3> HIDE DEF E
    <3> QED BY <2>2, <2>3, NumbersInduct
  <2> QED BY <2>4
<1>6. h = [n \in Nat |-> IF n = 0 THEN b ELSE step(h[n - 1])]
  <2>1. ASSUME NEW n \in Nat, n # 0 PROVE G(n)[n] = step(G(n - 1)[n - 1])
    <3>1. G(n)[n] = step(G(n)[n - 1])
      BY <1>4, <2>1
    <3>2. n - 1 \in Nat /\ (n - 1) + 1 = n
      BY <2>1
    <3>3. G(n)[n - 1] = G(n - 1)[n - 1]
      BY <1>5, <3>2
    <3> QED BY <3>1, <3>3
  <2>2. G(0)[0] = b
    BY <1>4
  <2> QED BY <2>1, <2>2
<1> HIDE DEF h
<1>7. masksAt(mask) = [n \in Nat |-> IF n = 0 THEN b ELSE step(masksAt(mask)[n - 1])]
  BY <1>6, Zenon DEF masksAt, b, step
<1>8. masksAt(mask)[0] = b
  BY <1>7
<1>9. ASSUME NEW n \in Nat PROVE masksAt(mask)[n + 1] = step(masksAt(mask)[n])
  <2>1. n + 1 \in Nat /\ n + 1 # 0 /\ (n + 1) - 1 = n
    OBVIOUS
  <2> QED BY <1>7, <2>1
<1> QED BY <1>8, <1>9 DEF b, step

(* A mask that gets no deeper than MaxDepth and has proper names.          *)
Bounded(mask) ==
    /\ masksAt(mask)[MaxDepth] \subseteq {<< >>}
    /\ \A n \in 0 .. MaxDepth : \A m \in masksAt(mask)[n] :
          \A i \in DOMAIN m : m[i].name \in Seq(STRING)

(* What is met has one of the masks of the mask that it was met by, and    *)
(* was met no later than that mask's depth.                                *)
LEMMA MetAtDepth ==
    ASSUME NEW r
    PROVE  \A n \in Nat : \A v \in within(r)[n] :
              \E k \in 0 .. n : v \in within(r)[k] /\ v.mask \in masksAt(r.mask)[k]
<1> DEFINE W(k) == within(r)[k]
           M(k) == masksAt(r.mask)[k]
           deep(n) == \A v \in W(n) : \E k \in 0 .. n : v \in W(k) /\ v.mask \in M(k)
           S == {n \in Nat : deep(n)}
<1>1. W(0) = {r} /\ \A k \in Nat : W(k + 1) = W(k) \cup UNION {below(x) : x \in W(k)}
  BY WithinOneMore
<1>2. M(0) = {r.mask} /\ \A n \in Nat : M(n + 1) = UNION {{m[i].mask : i \in DOMAIN m} : m \in M(n)}
  BY MasksOneMore
<1> HIDE DEF W, M
<1>3. 0 \in S
  BY <1>1, <1>2
<1>4. ASSUME NEW n \in Nat, n \in S PROVE n + 1 \in S
  <2> SUFFICES ASSUME NEW v \in W(n + 1)
               PROVE  \E k \in 0 .. n + 1 : v \in W(k) /\ v.mask \in M(k)
    OBVIOUS
  <2>1. CASE v \in W(n)
    BY <1>4, <2>1
  <2>2. ASSUME NEW u \in W(n), v \in below(u)
        PROVE  \E k \in 0 .. n + 1 : v \in W(k) /\ v.mask \in M(k)
    <3>1. PICK k \in 0 .. n : u \in W(k) /\ u.mask \in M(k)
      BY <1>4
    <3>2. PICK a \in asks(u) : v = Child(a)
      BY <2>2, BelowIsChild
    <3>3. PICK i \in DOMAIN u.mask : a.mask = u.mask[i].mask
      BY NameOfMask
    <3>4. v.mask = u.mask[i].mask
      BY <3>2, <3>3, PartsOfChild
    <3>5. k \in Nat /\ k + 1 \in 0 .. n + 1
      OBVIOUS
    <3>6. v \in W(k + 1)
      BY <1>1, <2>2, <3>1, <3>5
    <3>7. v.mask \in M(k + 1)
      BY <1>2, <3>1, <3>4, <3>5
    <3> QED BY <3>5, <3>6, <3>7
  <2> QED BY <1>1, <2>1, <2>2
<1>5. \A n \in Nat : n \in S
  <2> HIDE DEF S
  <2> QED BY <1>3, <1>4, NumbersInduct
<1> QED BY <1>5 DEF W, M

(* So a traversal of MaxDepth names has met everything there is to meet.   *)
LEMMA BelowIsMet ==
    ASSUME NEW r, Bounded(r.mask), NEW v \in reached(r)
    PROVE  below(v) \subseteq reached(r)
<1>0. MaxDepth \in Nat
  BY RequestsAssumption
<1>1. PICK k \in 0 .. MaxDepth : v \in within(r)[k] /\ v.mask \in masksAt(r.mask)[k]
  BY <1>0, MetAtDepth DEF reached
<1>2. CASE k = MaxDepth
  <2>1. v.mask = << >>
    BY <1>1, <1>2 DEF Bounded
  <2> QED BY <2>1 DEF below, asks, namesIn
<1>3. CASE k # MaxDepth
  <2>1. k \in Nat /\ k + 1 \in Nat /\ k + 1 <= MaxDepth
    BY <1>0, <1>3
  <2>2. below(v) \subseteq within(r)[k + 1]
    BY <1>1, <2>1, WithinOneMore
  <2> QED BY <2>1, <2>2, MetStaysMet
<1> QED BY <1>2, <1>3

(* And the names it met are proper names.                                  *)
LEMMA MetNames ==
    ASSUME NEW r, Bounded(r.mask), NEW v \in reached(r), NEW a \in asks(v)
    PROVE  a.name \in Seq(STRING)
<1>0. MaxDepth \in Nat
  BY RequestsAssumption
<1>1. PICK k \in 0 .. MaxDepth : v.mask \in masksAt(r.mask)[k]
  BY <1>0, MetAtDepth DEF reached
<1>2. PICK i \in DOMAIN v.mask : a.name = v.mask[i].name
  BY NameOfMask
<1> QED BY <1>1, <1>2 DEF Bounded


-----------------------------------------------------------------------------
(* Paths.                                                                  *)

IsSeq(p) == \E T : p \in Seq(T)

(* A longer path tells the path and the name it was made of.               *)
LEMMA LongerPath ==
    ASSUME NEW p, NEW x, IsSeq(p)
    PROVE  /\ IsSeq(Append(p, x))
           /\ Len(p) \in Nat /\ Len(Append(p, x)) = Len(p) + 1
           /\ Append(p, x)[Len(p) + 1] = x
           /\ \A k \in 1 .. Len(p) : Append(p, x)[k] = p[k]
<1>1. PICK T : p \in Seq(T)
  BY DEF IsSeq
<1> DEFINE U == T \cup {x}
<1>2. p \in Seq(U)
  BY <1>1, SeqMonotonic, T \subseteq U
<1>3. x \in U
  OBVIOUS
<1> HIDE DEF U
<1>4. Append(p, x) \in Seq(U)
  BY <1>2, <1>3
<1>5. IsSeq(Append(p, x))
  BY <1>4, Zenon DEF IsSeq
<1> QED BY <1>2, <1>3, <1>5

(* Sequences that are as long and have the same elements are the same.     *)
LEMMA SameSequence ==
    ASSUME NEW p, NEW q, IsSeq(p), IsSeq(q), Len(p) = Len(q),
           \A k \in 1 .. Len(p) : p[k] = q[k]
    PROVE  p = q
<1>1. PICK T : p \in Seq(T)
  BY DEF IsSeq
<1>2. PICK U : q \in Seq(U)
  BY DEF IsSeq
<1>3. p \in Seq(T \cup U) /\ q \in Seq(T \cup U)
  BY <1>1, <1>2, SeqMonotonic, T \subseteq T \cup U, U \subseteq T \cup U
<1> QED BY <1>3, SeqEqual

(* Paths that are the same after one more name were so before it.         *)
LEMMA SamePath ==
    ASSUME NEW p, NEW x, NEW q, NEW y, IsSeq(p), IsSeq(q), Append(p, x) = Append(q, y)
    PROVE  p = q /\ x = y
<1>1. Len(p) = Len(q)
  <2>1. Len(p) + 1 = Len(q) + 1 /\ Len(p) \in Nat /\ Len(q) \in Nat
    BY LongerPath
  <2> QED BY <2>1
<1>2. x = y /\ \A k \in 1 .. Len(p) : p[k] = q[k]
  BY <1>1, LongerPath
<1> QED BY <1>1, <1>2, SameSequence

(* p leads to, or past, where q goes through.                              *)
Under(p, q) == Len(p) <= Len(q) /\ \A k \in 1 .. Len(p) : p[k] = q[k]

(* That is what it means that p is a prefix of q.                          *)
LEMMA UnderIsPrefix ==
    ASSUME NEW p, NEW q, IsSeq(p), IsSeq(q), Under(p, q)
    PROVE  IsPrefix(p, q)
<1>1. PICK T : p \in Seq(T)
  BY DEF IsSeq
<1>2. PICK U : q \in Seq(U)
  BY DEF IsSeq
<1>3. Len(p) \in Nat /\ Len(q) \in Nat /\ Len(p) <= Len(q)
  BY <1>1, <1>2, LenProperties DEF Under
<1> DEFINE s == SubSeq(p, 1, Len(p))
           t == SubSeq(q, 1, Len(p))
<1>4. s \in Seq(T) /\ Len(s) = Len(p) /\ \A k \in 1 .. Len(p) : s[k] = p[k]
  BY <1>1, <1>3
<1>5. t \in Seq(U) /\ Len(t) = Len(p) /\ \A k \in 1 .. Len(p) : t[k] = q[k]
  BY <1>2, <1>3
<1> HIDE DEF s, t
<1>6. IsSeq(s) /\ IsSeq(t)
  BY <1>4, <1>5, Zenon DEF IsSeq
<1>7. \A k \in 1 .. Len(s) : s[k] = t[k]
  BY <1>4, <1>5 DEF Under
<1>8. s = t
  BY <1>4, <1>5, <1>6, <1>7, SameSequence
<1> QED BY <1>3, <1>8 DEF IsPrefix, s, t

(* Every path is a sequence.                                               *)
LEMMA PathsAreSequences ==
    ASSUME NEW r, r.path = << >>
    PROVE  \A n \in Nat : \A v \in within(r)[n] : IsSeq(v.path)
<1> DEFINE W(k) == within(r)[k]
           S == {n \in Nat : \A v \in W(n) : IsSeq(v.path)}
<1>1. W(0) = {r} /\ \A k \in Nat : W(k + 1) = W(k) \cup UNION {below(x) : x \in W(k)}
  BY WithinOneMore
<1> HIDE DEF W
<1>2. 0 \in S
  <2>1. << >> \in Seq({})
    OBVIOUS
  <2>2. IsSeq(<< >>)
    BY <2>1, Zenon DEF IsSeq
  <2> QED BY <1>1, <2>2
<1>3. ASSUME NEW n \in Nat, n \in S PROVE n + 1 \in S
  <2> SUFFICES ASSUME NEW v \in W(n + 1) PROVE IsSeq(v.path)
    OBVIOUS
  <2>1. v \in W(n) \/ \E u \in W(n) : v \in below(u)
    BY <1>1
  <2>2. ASSUME NEW u \in W(n), v \in below(u) PROVE IsSeq(v.path)
    <3>1. PICK a \in asks(u) : v = Child(a)
      BY <2>2, BelowIsChild
    <3>2. v.path = Append(u.path, a.name)
      BY <3>1, PartsOfChild, NameOfMask
    <3>3. IsSeq(u.path)
      BY <1>3
    <3> QED BY <3>2, <3>3, LongerPath
  <2> QED BY <1>3, <2>1, <2>2
<1>4. \A n \in Nat : n \in S
  <2> HIDE DEF S
  <2> QED BY <1>2, <1>3, NumbersInduct
<1> QED BY <1>4 DEF W

(* The path to a name, and that to the message it was asked of.            *)
LEMMA PathOfName ==
    ASSUME NEW r, r.path = << >>, NEW v \in reached(r), NEW a \in asks(v)
    PROVE  /\ IsSeq(v.path) /\ IsSeq(a.path) /\ a.path = Append(v.path, a.name)
           /\ Len(v.path) \in Nat /\ Len(a.path) = Len(v.path) + 1
           /\ a.path[Len(a.path)] = a.name
           /\ \A k \in 1 .. Len(v.path) : a.path[k] = v.path[k]
           /\ Under(v.path, a.path)
<1>1. IsSeq(v.path)
  BY PathsAreSequences, RequestsAssumption DEF reached
<1>2. a.path = Append(v.path, a.name)
  BY NameOfMask
<1>3. /\ IsSeq(a.path) /\ Len(v.path) \in Nat /\ Len(a.path) = Len(v.path) + 1
      /\ a.path[Len(v.path) + 1] = a.name
      /\ \A k \in 1 .. Len(v.path) : a.path[k] = v.path[k]
  BY <1>1, <1>2, LongerPath
<1>4. Under(v.path, a.path)
  BY <1>3 DEF Under
<1> QED BY <1>1, <1>2, <1>3, <1>4

(* In a valid mask a name occurs once.                                     *)
LEMMA NameOnce ==
    ASSUME NEW v, validMask(v), NEW a \in asks(v), NEW b \in asks(v), a.name = b.name
    PROVE  a = b
<1>1. hasFields(v.pool, v.type) /\ a \in namesIn(v) /\ b \in namesIn(v)
  BY NameOfMask
<1> DEFINE spelt(i) == [path |-> Append(v.path, v.mask[i].name), pool |-> v.pool, msg |-> v.type,
                        name |-> v.mask[i].name, mask |-> v.mask[i].mask]
<1>2. PICK i \in DOMAIN v.mask : a = spelt(i)
  BY <1>1 DEF namesIn
<1>3. PICK j \in DOMAIN v.mask : b = spelt(j)
  BY <1>1 DEF namesIn
<1>4. v.mask[i].name = v.mask[j].name
  BY <1>2, <1>3
<1>5. i = j
  BY <1>1, <1>4 DEF validMask
<1> QED BY <1>2, <1>3, <1>5

(* In a mask that is valid throughout, a path leads to one place.          *)
LEMMA PathsLeadToOne ==
    ASSUME NEW r, r.path = << >>, computeSchema(r)
    PROVE  \A u, v \in reached(r) : u.path = v.path => u = v
<1> DEFINE W(k) == within(r)[k]
           one(n) == \A u, v \in W(n) : u.path = v.path => u = v
           S == {n \in Nat : n <= MaxDepth => one(n)}
<1>1. W(0) = {r}
  BY WithinOneMore
<1>2. \A n \in Nat : \A v \in W(n + 1) : v = r \/ \E u \in W(n) : v \in below(u)
  BY MetFromAbove
<1>3. \A n \in Nat : \A v \in W(n) : IsSeq(v.path)
  BY PathsAreSequences
<1>4. \A n \in Nat : n <= MaxDepth => \A v \in W(n) : validMask(v)
  BY MetStaysMet DEF computeSchema
<1> HIDE DEF W
<1>5. 0 \in S
  BY <1>1
<1>6. ASSUME NEW n \in Nat, n \in S PROVE n + 1 \in S
  <2> SUFFICES ASSUME n + 1 <= MaxDepth, NEW u \in W(n + 1), NEW v \in W(n + 1), u.path = v.path
               PROVE  u = v
    OBVIOUS
  <2>0. MaxDepth \in Nat /\ n <= MaxDepth /\ one(n)
    BY <1>6, RequestsAssumption
  <2>1. ASSUME NEW w \in W(n), NEW x \in below(w) PROVE x.path # << >>
    <3>1. PICK a \in asks(w) : x = Child(a)
      BY BelowIsChild
    <3>2. x.path = Append(w.path, a.name)
      BY <3>1, PartsOfChild, NameOfMask
    <3>3. Len(<< >>) = 0
      OBVIOUS
    <3>4. IsSeq(w.path)
      BY <1>3
    <3>5. Len(x.path) = Len(w.path) + 1 /\ Len(w.path) \in Nat
      BY <3>2, <3>4, LongerPath
    <3> QED BY <3>3, <3>5
  <2>3. ASSUME NEW w \in W(n), NEW x \in W(n), u \in below(w), v \in below(x)
        PROVE  u = v
    <3>1. PICK a \in asks(w) : u = Child(a)
      BY <2>3, BelowIsChild
    <3>2. PICK b \in asks(x) : v = Child(b)
      BY <2>3, BelowIsChild
    <3>3. Append(w.path, a.name) = Append(x.path, b.name)
      <4>1. u.path = Append(w.path, a.name)
        BY <3>1, PartsOfChild, NameOfMask
      <4>2. v.path = Append(x.path, b.name)
        BY <3>2, PartsOfChild, NameOfMask
      <4> QED BY <4>1, <4>2
    <3>4. w.path = x.path /\ a.name = b.name
      <4>1. IsSeq(w.path) /\ IsSeq(x.path)
        BY <1>3
      <4> DEFINE p == w.path  q == x.path  y == a.name  z == b.name
      <4>2. Append(p, y) = Append(q, z) /\ IsSeq(p) /\ IsSeq(q)
        BY <3>3, <4>1
      <4> HIDE DEF p, q, y, z
      <4>3. p = q /\ y = z
        BY <4>2, SamePath
      <4> QED BY <4>3 DEF p, q, y, z
    <3>5. w = x
      BY <3>4, <2>0
    <3>6. validMask(w)
      BY <1>4, <2>0
    <3>7. a = b
      BY <3>4, <3>5, <3>6, NameOnce
    <3> QED BY <3>1, <3>2, <3>7
  <2>4. u = r \/ \E w \in W(n) : u \in below(w)
    BY <1>2
  <2>5. v = r \/ \E w \in W(n) : v \in below(w)
    BY <1>2
  <2> QED BY <2>1, <2>3, <2>4, <2>5
<1>7. \A n \in Nat : n \in S
  <2> HIDE DEF S
  <2> QED BY <1>5, <1>6, NumbersInduct
<1>8. one(MaxDepth)
  BY <1>7, RequestsAssumption
<1> QED BY <1>8 DEF W, reached

(* A name that is asked for is asked of a message that was met.            *)
LEMMA AskedOfOne ==
    ASSUME NEW r, NEW a \in asked(r)
    PROVE  \E v \in reached(r) : a \in asks(v)
BY DEF asked

(* So a path to a name leads to one name.                                  *)
LEMMA PathsLeadToOneName ==
    ASSUME NEW r, r.path = << >>, computeSchema(r),
           NEW a \in asked(r), NEW b \in asked(r), a.path = b.path
    PROVE  a = b
<1>1. PICK u \in reached(r) : a \in asks(u)
  BY AskedOfOne
<1>2. PICK v \in reached(r) : b \in asks(v)
  BY AskedOfOne
<1>3. IsSeq(u.path) /\ a.path = Append(u.path, a.name)
  BY <1>1, PathOfName
<1>4. IsSeq(v.path) /\ b.path = Append(v.path, b.name)
  BY <1>2, PathOfName
<1>5. u.path = v.path /\ a.name = b.name
  <2> DEFINE p == u.path  q == v.path  y == a.name  z == b.name
  <2>1. Append(p, y) = Append(q, z) /\ IsSeq(p) /\ IsSeq(q)
    BY <1>3, <1>4
  <2> HIDE DEF p, q, y, z
  <2>2. p = q /\ y = z
    BY <2>1, SamePath
  <2> QED BY <2>2 DEF p, q, y, z
<1>6. u = v /\ validMask(u)
  BY <1>5, PathsLeadToOne DEF computeSchema
<1> QED BY <1>1, <1>2, <1>5, <1>6, NameOnce

(* Everything that leads to a path is a message with a name in its mask    *)
(* that leads on to it.                                                    *)
LeadsOn(r, path) ==
    \A u \in reached(r) : Under(u.path, path) /\ Len(u.path) < Len(path)
                             => \E c \in asks(u) : Under(c.path, path)

(* What holds for the path to a message holds for the names in its mask.   *)
LEMMA LeadsOnToName ==
    ASSUME NEW r, r.path = << >>, computeSchema(r), NEW x \in reached(r), LeadsOn(r, x.path),
           NEW b \in asks(x)
    PROVE  LeadsOn(r, b.path)
<1> SUFFICES ASSUME NEW u \in reached(r), Under(u.path, b.path), Len(u.path) < Len(b.path)
             PROVE  \E c \in asks(u) : Under(c.path, b.path)
  BY DEF LeadsOn
<1>1. /\ IsSeq(x.path) /\ IsSeq(b.path) /\ Len(x.path) \in Nat /\ Len(b.path) = Len(x.path) + 1
      /\ \A k \in 1 .. Len(x.path) : b.path[k] = x.path[k]
  BY PathOfName
<1>2. IsSeq(u.path) /\ Len(u.path) \in Nat
  <2>1. IsSeq(u.path)
    BY PathsAreSequences, RequestsAssumption DEF reached
  <2> QED BY <2>1, LongerPath
<1>3. Under(u.path, x.path)
  BY <1>1, <1>2 DEF Under
<1>4. CASE Len(u.path) = Len(x.path)
  <2>1. u.path = x.path
    BY <1>1, <1>2, <1>3, <1>4, SameSequence DEF Under
  <2>2. u = x
    BY <2>1, PathsLeadToOne
  <2>3. Under(b.path, b.path)
    BY <1>1 DEF Under
  <2> QED BY <2>2, <2>3
<1>5. CASE Len(u.path) # Len(x.path)
  <2>1. Len(u.path) < Len(x.path)
    BY <1>1, <1>2, <1>3, <1>5 DEF Under
  <2>2. PICK c \in asks(u) : Under(c.path, x.path)
    BY <1>3, <2>1 DEF LeadsOn
  <2>3. Len(c.path) \in Nat
    <3>1. Len(c.path) = Len(u.path) + 1
      BY PathOfName
    <3> QED BY <1>2, <3>1
  <2>4. Under(c.path, b.path)
    BY <1>1, <2>2, <2>3 DEF Under
  <2> QED BY <2>4
<1> QED BY <1>4, <1>5

(* So it holds, in a mask that is valid throughout, for all names that are *)
(* asked for.                                                              *)
LEMMA WayOn ==
    ASSUME NEW r, r.path = << >>, computeSchema(r), NEW a \in asked(r)
    PROVE  LeadsOn(r, a.path)
<1> DEFINE W(k) == within(r)[k]
           S == {n \in Nat : n <= MaxDepth => \A w \in W(n) : LeadsOn(r, w.path)}
<1>0. MaxDepth \in Nat
  BY RequestsAssumption
<1>1. \A n \in Nat : n <= MaxDepth => W(n) \subseteq reached(r)
  BY MetStaysMet
<1>2. W(0) = {r} /\ \A n \in Nat : \A w \in W(n + 1) : w = r \/ \E u \in W(n) : w \in below(u)
  BY WithinOneMore, MetFromAbove
<1>3. LeadsOn(r, r.path)
  <2> SUFFICES ASSUME NEW u \in reached(r) PROVE ~(Len(u.path) < Len(r.path))
    BY DEF LeadsOn
  <2>1. IsSeq(u.path)
    BY PathsAreSequences, RequestsAssumption DEF reached
  <2>2. Len(u.path) \in Nat /\ Len(r.path) = 0
    BY <2>1, LongerPath
  <2> QED BY <2>2
<1> HIDE DEF W
<1>4. 0 \in S
  BY <1>2, <1>3
<1>5. ASSUME NEW n \in Nat, n \in S PROVE n + 1 \in S
  <2> SUFFICES ASSUME n + 1 <= MaxDepth, NEW w \in W(n + 1) PROVE LeadsOn(r, w.path)
    OBVIOUS
  <2>0. n <= MaxDepth
    BY <1>0
  <2>1. ASSUME NEW x \in W(n), w \in below(x) PROVE LeadsOn(r, w.path)
    <3>1. PICK b \in asks(x) : w = Child(b)
      BY <2>1, BelowIsChild
    <3>2. x \in reached(r) /\ LeadsOn(r, x.path)
      BY <1>1, <1>5, <2>0
    <3>3. LeadsOn(r, b.path)
      BY <3>2, LeadsOnToName
    <3> QED BY <3>1, <3>3, PartsOfChild
  <2> QED BY <1>2, <1>3, <2>1
<1>6. \A n \in Nat : n \in S
  <2> HIDE DEF S
  <2> QED BY <1>4, <1>5, NumbersInduct
<1>7. \A w \in reached(r) : LeadsOn(r, w.path)
  BY <1>0, <1>6 DEF W, reached
<1>8. PICK x \in reached(r) : a \in asks(x)
  BY AskedOfOne
<1> QED BY <1>7, <1>8, LeadsOnToName

-----------------------------------------------------------------------------
(* Names in camel case and in snake case.                                  *)

(* The partial results of FlattenSeq.                                      *)
Flattening(ss, g, n) ==
    g = [i \in 1 .. n |-> IF i = 1 THEN ss[i] ELSE g[i - 1] \o ss[i]]

(* FlattenSeq is what its recursion says.                                  *)
LEMMA FlattenLoop ==
    ASSUME NEW ss, Len(ss) \in Nat, Len(ss) # 0
    PROVE  \E g : Flattening(ss, g, Len(ss)) /\ FlattenSeq(ss) = g[Len(ss)]
<1> DEFINE S == {n \in Nat : n # 0 => \E g : Flattening(ss, g, n)}
<1>1. 0 \in S
  OBVIOUS
<1>2. ASSUME NEW n \in Nat, n \in S PROVE n + 1 \in S
  <2>1. CASE n = 0
    <3> DEFINE k == [i \in 1 .. 1 |-> ss[i]]
    <3>1. Flattening(ss, k, 1)
      BY DEF Flattening
    <3>2. \E g : Flattening(ss, g, 1)
      <4> HIDE DEF k
      <4> QED BY <3>1
    <3> QED BY <2>1, <3>2
  <2>2. CASE n # 0
    <3>1. PICK g : Flattening(ss, g, n)
      BY <1>2, <2>2
    <3> DEFINE k == [i \in 1 .. n + 1 |-> IF i = n + 1 THEN g[n] \o ss[n + 1] ELSE g[i]]
    <3>2. \A i \in 1 .. n + 1 : k[i] = IF i = 1 THEN ss[i] ELSE k[i - 1] \o ss[i]
      <4> SUFFICES ASSUME NEW i \in 1 .. n + 1
                   PROVE  k[i] = IF i = 1 THEN ss[i] ELSE k[i - 1] \o ss[i]
        OBVIOUS
      <4>1. CASE i = n + 1
        <5>1. i # 1 /\ i - 1 = n /\ n \in 1 .. n + 1 /\ n # n + 1
          BY <2>2, <4>1
        <5>2. k[i - 1] = g[n] /\ k[i] = g[n] \o ss[i]
          BY <4>1, <5>1
        <5> QED BY <5>1, <5>2
      <4>2. CASE i # n + 1
        <5>1. i \in 1 .. n /\ (i # 1 => i - 1 \in 1 .. n + 1 /\ i - 1 # n + 1)
          BY <4>2
        <5>2. k[i] = g[i] /\ (i # 1 => k[i - 1] = g[i - 1])
          BY <4>2, <5>1
        <5>3. g[i] = IF i = 1 THEN ss[i] ELSE g[i - 1] \o ss[i]
          BY <3>1, <5>1 DEF Flattening
        <5> QED BY <5>2, <5>3
      <4> QED BY <4>1, <4>2
    <3>3. Flattening(ss, k, n + 1)
      BY <3>2 DEF Flattening
    <3>4. \E x : Flattening(ss, x, n + 1)
      <4> HIDE DEF k
      <4> QED BY <3>3
    <3> QED BY <3>4
  <2> QED BY <2>1, <2>2
<1>3. \A n \in Nat : n \in S
  <2> HIDE DEF S
  <2> QED BY <1>1, <1>2, NumbersInduct
<1>4. \E g : Flattening(ss, g, Len(ss))
  BY <1>3
<1> DEFINE f == CHOOSE g : Flattening(ss, g, Len(ss))
<1>5. Flattening(ss, f, Len(ss))
  BY <1>4, Zenon
<1>6. FlattenSeq(ss) = f[Len(ss)]
  BY Zenon DEF FlattenSeq, Flattening
<1> HIDE DEF f
<1> QED BY <1>5, <1>6

(* Flattening a longer sequence of sequences appends the last one.         *)
LEMMA FlattenMore ==
    ASSUME NEW T, NEW ss \in Seq(Seq(T)), NEW s \in Seq(T)
    PROVE  FlattenSeq(Append(ss, s)) = FlattenSeq(ss) \o s
<1> DEFINE L == Len(ss)
           tt == Append(ss, s)
<1>1. /\ L \in Nat /\ Len(tt) = L + 1 /\ tt[L + 1] = s
      /\ \A i \in 1 .. L : tt[i] = ss[i]
  BY AppendProperties, LenProperties
<1> HIDE DEF tt
<1>2. PICK g : Flattening(tt, g, L + 1) /\ FlattenSeq(tt) = g[L + 1]
  BY <1>1, FlattenLoop
<1>3. CASE L = 0
  <2>1. ss = << >>
    BY <1>3, EmptySeq
  <2>2. FlattenSeq(ss) = << >>
    BY <2>1 DEF FlattenSeq
  <2>3. g[1] = tt[1]
    BY <1>2, <1>3 DEF Flattening
  <2>4. << >> \o s = s
    BY ConcatEmptySeq
  <2> QED BY <1>1, <1>2, <1>3, <2>2, <2>3, <2>4 DEF tt
<1>4. CASE L # 0
  <2>1. PICK h : Flattening(ss, h, L) /\ FlattenSeq(ss) = h[L]
    BY <1>1, <1>4, FlattenLoop
  <2> DEFINE E == {i \in Nat : i \in 1 .. L => g[i] = h[i]}
  <2>2. 0 \in E
    BY <1>1
  <2>3. ASSUME NEW i \in Nat, i \in E PROVE i + 1 \in E
    <3> SUFFICES ASSUME i + 1 \in 1 .. L PROVE g[i + 1] = h[i + 1]
      OBVIOUS
    <3>1. CASE i = 0
      BY <1>1, <1>2, <2>1, <3>1 DEF Flattening
    <3>2. CASE i # 0
      <4>1. i \in 1 .. L /\ i + 1 \in 1 .. L + 1 /\ (i + 1) - 1 = i /\ i + 1 # 1
        <5> HIDE DEF L
        <5> QED BY <1>1, <3>2
      <4>2. g[i + 1] = g[i] \o tt[i + 1]
        BY <1>2, <4>1 DEF Flattening
      <4>3. h[i + 1] = h[i] \o ss[i + 1]
        BY <2>1, <4>1 DEF Flattening
      <4> QED BY <1>1, <2>3, <4>1, <4>2, <4>3
    <3> QED BY <3>1, <3>2
  <2>4. \A i \in Nat : i \in E
    <3> HIDE DEF E
    <3> QED BY <2>2, <2>3, NumbersInduct
  <2>5. g[L] = h[L]
    BY <1>1, <1>4, <2>4
  <2>6. L + 1 \in 1 .. L + 1 /\ L + 1 # 1 /\ (L + 1) - 1 = L
    BY <1>1, <1>4
  <2>7. g[L + 1] = g[L] \o tt[L + 1]
    BY <1>2, <2>6 DEF Flattening
  <2> QED BY <1>1, <1>2, <2>1, <2>5, <2>7 DEF tt
<1> QED BY <1>3, <1>4
Chars == STRING \cup {"_", "a", "b", "A", "B"}

(* What a character of a name becomes.                                     *)
camelPart(str, i) ==
    IF str[i] = "_" THEN << >>
    ELSE <<IF i > 1 /\ str[i - 1] = "_" THEN toUpper(str[i]) ELSE str[i]>>

snakePart(str, i) ==
    IF str[i] # toLower(str[i]) THEN <<"_", toLower(str[i])>> ELSE <<str[i]>>

(* The parts are sequences of characters.                                  *)
LEMMA PartsAreSequences ==
    ASSUME NEW str \in Seq(Chars)
    PROVE  /\ [i \in DOMAIN str |-> camelPart(str, i)] \in Seq(Seq(Chars))
           /\ [i \in DOMAIN str |-> snakePart(str, i)] \in Seq(Seq(Chars))
<1>1. \A c \in Chars : toUpper(c) \in Chars /\ toLower(c) \in Chars
  BY DEF Chars, toUpper, toLower
<1>2. "_" \in Chars
  BY DEF Chars
<1> HIDE DEF Chars
<1>3. Len(str) \in Nat /\ DOMAIN str = 1 .. Len(str) /\ \A i \in 1 .. Len(str) : str[i] \in Chars
  BY LenProperties, ElementOfSeq
<1>4. \A c \in Chars : <<c>> \in Seq(Chars) /\ \A d \in Chars : <<c, d>> \in Seq(Chars)
  OBVIOUS
<1>5. << >> \in Seq(Chars)
  OBVIOUS
<1>6. \A i \in 1 .. Len(str) : camelPart(str, i) \in Seq(Chars) /\ snakePart(str, i) \in Seq(Chars)
  BY <1>1, <1>2, <1>3, <1>4, <1>5 DEF camelPart, snakePart
<1> HIDE DEF camelPart, snakePart
<1>7. /\ [i \in 1 .. Len(str) |-> camelPart(str, i)] \in [1 .. Len(str) -> Seq(Chars)]
      /\ [i \in 1 .. Len(str) |-> snakePart(str, i)] \in [1 .. Len(str) -> Seq(Chars)]
  BY <1>6
<1>8. \A n \in Nat : [1 .. n -> Seq(Chars)] \subseteq Seq(Seq(Chars))
  OBVIOUS
<1> QED BY <1>3, <1>7, <1>8

(* The camel case of a longer name.                                        *)
LEMMA CamelMore ==
    ASSUME NEW t \in Seq(Chars), NEW c \in Chars
    PROVE  camelCase(Append(t, c)) =
               camelCase(t) \o (IF c = "_" THEN << >>
                                ELSE <<IF Len(t) > 0 /\ t[Len(t)] = "_" THEN toUpper(c) ELSE c>>)
<1> DEFINE u == Append(t, c)
           n == Len(t)
           pt == [i \in DOMAIN t |-> camelPart(t, i)]
           pu == [i \in DOMAIN u |-> camelPart(u, i)]
<1> HIDE DEF Chars
<1>1. /\ u \in Seq(Chars) /\ n \in Nat /\ Len(u) = n + 1 /\ u[n + 1] = c
      /\ DOMAIN t = 1 .. n /\ DOMAIN u = 1 .. n + 1
      /\ \A i \in 1 .. n : u[i] = t[i]
  BY AppendProperties, LenProperties
<1> HIDE DEF u, n
<1>2. pt \in Seq(Seq(Chars)) /\ pu \in Seq(Seq(Chars))
  BY <1>1, PartsAreSequences
<1> DEFINE s == camelPart(u, n + 1)
<1>3. DOMAIN pt = 1 .. n /\ DOMAIN pu = 1 .. n + 1
  BY <1>1
<1>4. Len(pt) = n /\ Len(pu) = n + 1
  BY <1>1, <1>2, <1>3, LenProperties
<1>5. \A i \in 1 .. n : pu[i] = pt[i]
  <2> SUFFICES ASSUME NEW i \in 1 .. n PROVE camelPart(u, i) = camelPart(t, i)
    BY <1>1
  <2>1. u[i] = t[i] /\ (i > 1 => u[i - 1] = t[i - 1])
    BY <1>1
  <2> QED BY <1>1, <2>1 DEF camelPart
<1>6. pu[n + 1] = s
  BY <1>1
<1>7. s \in Seq(Chars)
  BY <1>1, <1>2, <1>4, <1>6, ElementOfSeq
<1>8. s = IF c = "_" THEN << >> ELSE <<IF n > 0 /\ t[n] = "_" THEN toUpper(c) ELSE c>>
  <2>1. (n + 1) - 1 = n /\ (n + 1 > 1 <=> n > 0) /\ (n > 0 => u[n] = t[n])
    BY <1>1
  <2> QED BY <1>1, <2>1 DEF camelPart
<1>9. camelCase(t) = FlattenSeq(pt) /\ camelCase(u) = FlattenSeq(pu)
  BY DEF camelCase, camelPart
<1> HIDE DEF pt, pu, s
<1>10. pu = Append(pt, s)
  <2>1. /\ Append(pt, s) \in Seq(Seq(Chars)) /\ Len(Append(pt, s)) = n + 1
        /\ Append(pt, s)[n + 1] = s
        /\ \A i \in 1 .. n : Append(pt, s)[i] = pt[i]
    BY <1>2, <1>4, <1>7, AppendProperties
  <2>2. \A i \in 1 .. n + 1 : pu[i] = Append(pt, s)[i]
    BY <1>1, <1>5, <1>6, <2>1
  <2> QED BY <1>2, <1>4, <2>1, <2>2, SeqEqual
<1>11. FlattenSeq(pu) = FlattenSeq(pt) \o s
  BY <1>2, <1>7, <1>10, FlattenMore
<1> QED BY <1>8, <1>9, <1>11 DEF u, n

(* The snake case of a longer name.                                        *)
LEMMA SnakeMore ==
    ASSUME NEW t \in Seq(Chars), NEW c \in Chars
    PROVE  snakeCase(Append(t, c)) =
               snakeCase(t) \o (IF c # toLower(c) THEN <<"_", toLower(c)>> ELSE <<c>>)
<1> DEFINE u == Append(t, c)
           n == Len(t)
           pt == [i \in DOMAIN t |-> snakePart(t, i)]
           pu == [i \in DOMAIN u |-> snakePart(u, i)]
<1> HIDE DEF Chars
<1>1. /\ u \in Seq(Chars) /\ n \in Nat /\ Len(u) = n + 1 /\ u[n + 1] = c
      /\ DOMAIN t = 1 .. n /\ DOMAIN u = 1 .. n + 1
      /\ \A i \in 1 .. n : u[i] = t[i]
  BY AppendProperties, LenProperties
<1> HIDE DEF u, n
<1>2. pt \in Seq(Seq(Chars)) /\ pu \in Seq(Seq(Chars))
  BY <1>1, PartsAreSequences
<1> DEFINE s == snakePart(u, n + 1)
<1>3. DOMAIN pt = 1 .. n /\ DOMAIN pu = 1 .. n + 1
  BY <1>1
<1>4. Len(pt) = n /\ Len(pu) = n + 1
  BY <1>1, <1>2, <1>3, LenProperties
<1>5. \A i \in 1 .. n : pu[i] = pt[i]
  <2> SUFFICES ASSUME NEW i \in 1 .. n PROVE snakePart(u, i) = snakePart(t, i)
    BY <1>1
  <2> QED BY <1>1 DEF snakePart
<1>6. pu[n + 1] = s
  BY <1>1
<1>7. s \in Seq(Chars)
  BY <1>1, <1>2, <1>4, <1>6, ElementOfSeq
<1>8. s = IF c # toLower(c) THEN <<"_", toLower(c)>> ELSE <<c>>
  BY <1>1 DEF snakePart
<1>9. snakeCase(t) = FlattenSeq(pt) /\ snakeCase(u) = FlattenSeq(pu)
  BY DEF snakeCase, snakePart
<1> HIDE DEF pt, pu, s
<1>10. pu = Append(pt, s)
  <2>1. /\ Append(pt, s) \in Seq(Seq(Chars)) /\ Len(Append(pt, s)) = n + 1
        /\ Append(pt, s)[n + 1] = s
        /\ \A i \in 1 .. n : Append(pt, s)[i] = pt[i]
    BY <1>2, <1>4, <1>7, AppendProperties
  <2>2. \A i \in 1 .. n + 1 : pu[i] = Append(pt, s)[i]
    BY <1>1, <1>5, <1>6, <2>1
  <2> QED BY <1>2, <1>4, <2>1, <2>2, SeqEqual
<1>11. FlattenSeq(pu) = FlattenSeq(pt) \o s
  BY <1>2, <1>7, <1>10, FlattenMore
<1> QED BY <1>8, <1>9, <1>11 DEF u


(* A sequence and its last element.                                        *)
LEMMA LastOfAppend ==
    ASSUME NEW T, NEW q \in Seq(T), NEW e \in T
    PROVE  /\ Append(q, e) \in Seq(T)
           /\ Len(q) \in Nat /\ Len(Append(q, e)) = Len(q) + 1 /\ Len(Append(q, e)) > 0
           /\ Append(q, e)[Len(Append(q, e))] = e
<1>1. Append(q, e) \in Seq(T) /\ Len(Append(q, e)) = Len(q) + 1 /\ Append(q, e)[Len(q) + 1] = e
  BY AppendProperties
<1>2. Len(q) \in Nat
  BY LenProperties
<1> DEFINE r == Append(q, e)
<1>3. r \in Seq(T) /\ Len(r) = Len(q) + 1 /\ r[Len(q) + 1] = e
  BY <1>1
<1> HIDE DEF r
<1>4. Len(r) > 0 /\ r[Len(r)] = e
  BY <1>2, <1>3
<1> QED BY <1>1, <1>2, <1>4 DEF r

(* Two elements at the end of a sequence.                                  *)
LEMMA TwoMore ==
    ASSUME NEW T, NEW q \in Seq(T), NEW d \in T, NEW e \in T
    PROVE  q \o <<d, e>> = Append(Append(q, d), e)
<1>1. <<d>> \in Seq(T) /\ <<e>> \in Seq(T)
  OBVIOUS
<1>2. q \o <<d>> = Append(q, d)
  BY AppendIsConcat
<1>3. Append(q, d) \in Seq(T)
  BY LastOfAppend
<1>4. Append(q, d) \o <<e>> = Append(Append(q, d), e)
  BY <1>3, AppendIsConcat
<1>5. (q \o <<d>>) \o <<e>> = q \o (<<d>> \o <<e>>)
  BY <1>1, ConcatAssociative
<1>6. <<d>> \o <<e>> = <<d, e>>
  <2> DEFINE s == <<d>> \o <<e>>  t == <<d, e>>
  <2>1. Len(<<d>>) = 1 /\ Len(<<e>>) = 1 /\ <<d>>[1] = d /\ <<e>>[1] = e
    OBVIOUS
  <2>2. s \in Seq(T) /\ Len(s) = 2 /\ s[1] = d /\ s[2] = e
    BY <1>1, <2>1, ConcatProperties
  <2>3. t \in Seq(T) /\ Len(t) = 2 /\ t[1] = d /\ t[2] = e
    OBVIOUS
  <2> HIDE DEF s, t
  <2>4. \A i \in 1 .. 2 : s[i] = t[i]
    BY <2>2, <2>3
  <2>5. s = t
    BY <2>2, <2>3, <2>4, SeqEqual
  <2> QED BY <2>5 DEF s, t
<1> QED BY <1>2, <1>4, <1>5, <1>6

(* A character in camel case is not an underscore, and one that is not an  *)
(* underscore is found again.                                              *)
LEMMA CaseOfLetters ==
    ASSUME NEW c, c # "_"
    PROVE  /\ toUpper(c) # "_" /\ toLower(c) # "_"
           /\ c # toLower(c) => toUpper(toLower(c)) = c /\ toUpper(c) = c
<1>1. c = "A" \/ c = "B" \/ toLower(c) = c
  BY DEF toLower
<1>2. c = "a" \/ c = "b" \/ toUpper(c) = c
  BY DEF toUpper
<1>3. /\ toLower("A") = "a" /\ toLower("B") = "b" /\ toUpper("a") = "A" /\ toUpper("b") = "B"
      /\ toUpper("A") = "A" /\ toUpper("B") = "B"
  BY DEF toLower, toUpper
<1> QED BY <1>1, <1>2, <1>3

(* The empty name stays empty.                                             *)
LEMMA CaseOfNothing == camelCase(<< >>) = << >> /\ snakeCase(<< >>) = << >>
<1> DEFINE e == << >>
           p == [i \in DOMAIN e |-> camelPart(e, i)]
           q == [i \in DOMAIN e |-> snakePart(e, i)]
<1> HIDE DEF Chars
<1>1. e \in Seq(Chars) /\ DOMAIN e = 1 .. 0
  BY LenProperties, EmptySeq
<1> HIDE DEF e
<1>2. p \in Seq(Seq(Chars)) /\ q \in Seq(Seq(Chars))
  BY <1>1, PartsAreSequences
<1>3. camelCase(e) = FlattenSeq(p) /\ snakeCase(e) = FlattenSeq(q)
  BY DEF camelCase, camelPart, snakeCase, snakePart
<1>4. DOMAIN p = 1 .. 0 /\ DOMAIN q = 1 .. 0
  BY <1>1
<1> HIDE DEF p, q
<1>5. Len(p) = 0 /\ p = << >> /\ Len(q) = 0 /\ q = << >>
  BY <1>2, <1>4, LenProperties, EmptySeq
<1>6. FlattenSeq(p) = << >> /\ FlattenSeq(q) = << >>
  BY <1>5 DEF FlattenSeq
<1> QED BY <1>3, <1>6 DEF e

NoUnderscore(str) == str \in Seq(Chars) /\ \A i \in 1 .. Len(str) : str[i] # "_"

(* The camel case of any name has no underscore.                           *)
LEMMA CamelHasNoUnderscore ==
    ASSUME NEW str \in Seq(Chars)
    PROVE  NoUnderscore(camelCase(str))
<1> DEFINE S == {n \in Nat : \A s \in Seq(Chars) : Len(s) = n => NoUnderscore(camelCase(s))}
<1>1. 0 \in S
  <2> SUFFICES ASSUME NEW s \in Seq(Chars), Len(s) = 0 PROVE NoUnderscore(camelCase(s))
    OBVIOUS
  <2> HIDE DEF Chars
  <2>1. s = << >>
    BY EmptySeq
  <2>2. << >> \in Seq(Chars) /\ Len(<< >>) = 0
    BY EmptySeq
  <2>3. \A i \in 1 .. 0 : FALSE
    OBVIOUS
  <2>4. NoUnderscore(<< >>)
    BY <2>2, <2>3, Zenon DEF NoUnderscore
  <2> QED BY <2>1, <2>4, CaseOfNothing
<1>2. ASSUME NEW n \in Nat, n \in S PROVE n + 1 \in S
  <2> SUFFICES ASSUME NEW s \in Seq(Chars), Len(s) = n + 1 PROVE NoUnderscore(camelCase(s))
    OBVIOUS
  <2> HIDE DEF Chars
  <2>1. PICK t \in Seq(Chars), c \in Chars : s = Append(t, c)
    <3>1. s # << >>
      BY EmptySeq
    <3> QED BY <3>1, SequenceEmptyOrAppend
  <2>2. Len(t) = n
    BY <2>1, AppendProperties, LenProperties
  <2>3. NoUnderscore(camelCase(t))
    BY <1>2, <2>2
  <2> DEFINE d == IF Len(t) > 0 /\ t[Len(t)] = "_" THEN toUpper(c) ELSE c
             y == camelCase(t)
  <2>4. CASE c = "_"
    <3>1. camelCase(s) = y \o << >>
      BY <2>1, <2>4, CamelMore
    <3>2. y \o << >> = y
      BY <2>3, ConcatEmptySeq DEF NoUnderscore
    <3> QED BY <2>3, <3>1, <3>2
  <2>5. CASE c # "_"
    <3>1. camelCase(s) = y \o <<d>>
      BY <2>1, <2>5, CamelMore
    <3>2. d \in Chars /\ d # "_"
      <4>1. toUpper(c) \in Chars
        BY DEF Chars, toUpper
      <4> QED BY <2>5, <4>1, CaseOfLetters
    <3> HIDE DEF y, d
    <3>3. y \in Seq(Chars) /\ \A i \in 1 .. Len(y) : y[i] # "_"
      BY <2>3 DEF NoUnderscore, y
    <3>4. y \o <<d>> = Append(y, d)
      BY <3>2, <3>3, AppendIsConcat
    <3>5. /\ Append(y, d) \in Seq(Chars) /\ Len(Append(y, d)) = Len(y) + 1 /\ Len(y) \in Nat
          /\ Append(y, d)[Len(y) + 1] = d
          /\ \A i \in 1 .. Len(y) : Append(y, d)[i] = y[i]
      <4>1. Append(y, d) \in Seq(Chars)
        BY <3>2, <3>3, AppendProperties
      <4>2. IsSeq(y)
        BY <3>3, Zenon DEF IsSeq
      <4> QED BY <4>1, <4>2, LongerPath
    <3>6. NoUnderscore(Append(y, d))
      <4> DEFINE z == Append(y, d)
      <4>1. /\ z \in Seq(Chars) /\ Len(z) = Len(y) + 1 /\ Len(y) \in Nat /\ z[Len(y) + 1] = d
            /\ \A i \in 1 .. Len(y) : z[i] = y[i]
        BY <3>5
      <4> HIDE DEF z
      <4>2. ASSUME NEW i \in 1 .. Len(y) + 1 PROVE z[i] # "_"
        <5>1. i \in 1 .. Len(y) \/ i = Len(y) + 1
          BY <4>1
        <5>2. CASE i \in 1 .. Len(y)
          <6>1. z[i] = y[i] /\ y[i] # "_"
            BY <3>3, <4>1, <5>2
          <6> QED BY <6>1
        <5>3. CASE i = Len(y) + 1
          BY <3>2, <4>1, <5>3
        <5> QED BY <5>1, <5>2, <5>3
      <4>3. NoUnderscore(z)
        BY <4>1, <4>2, Zenon DEF NoUnderscore
      <4> QED BY <4>3 DEF z
    <3> QED BY <3>1, <3>4, <3>6
  <2> QED BY <2>4, <2>5
<1>3. \A n \in Nat : n \in S
  <2> HIDE DEF S
  <2> QED BY <1>1, <1>2, NumbersInduct
<1>4. Len(str) \in Nat
  <2> HIDE DEF Chars
  <2> QED BY LenProperties
<1> QED BY <1>3, <1>4

(* A name without underscores is in camel case.                            *)
LEMMA CamelKeeps ==
    ASSUME NEW str, NoUnderscore(str)
    PROVE  camelCase(str) = str
<1> DEFINE S == {n \in Nat : \A s \in Seq(Chars) : Len(s) = n /\ NoUnderscore(s) => camelCase(s) = s}
<1>1. 0 \in S
  <2> SUFFICES ASSUME NEW s \in Seq(Chars), Len(s) = 0 PROVE camelCase(s) = s
    OBVIOUS
  <2> HIDE DEF Chars
  <2>1. s = << >>
    BY EmptySeq
  <2> QED BY <2>1, CaseOfNothing
<1>2. ASSUME NEW n \in Nat, n \in S PROVE n + 1 \in S
  <2> SUFFICES ASSUME NEW s \in Seq(Chars), Len(s) = n + 1, NoUnderscore(s) PROVE camelCase(s) = s
    OBVIOUS
  <2> HIDE DEF Chars
  <2>1. PICK t \in Seq(Chars), c \in Chars : s = Append(t, c)
    <3>1. s # << >>
      BY EmptySeq
    <3> QED BY <3>1, SequenceEmptyOrAppend
  <2>2. /\ Len(t) = n /\ s[n + 1] = c /\ \A i \in 1 .. n : s[i] = t[i]
    BY <2>1, AppendProperties, LenProperties
  <2>3. c # "_" /\ \A i \in 1 .. n : t[i] # "_"
    <3>1. \A i \in 1 .. n + 1 : s[i] # "_"
      BY DEF NoUnderscore
    <3>2. n + 1 \in 1 .. n + 1 /\ \A i \in 1 .. n : i \in 1 .. n + 1
      OBVIOUS
    <3> QED BY <2>2, <3>1, <3>2, Zenon
  <2>4. camelCase(t) = t
    <3>1. NoUnderscore(t)
      BY <2>2, <2>3, Zenon DEF NoUnderscore
    <3> QED BY <1>2, <2>2, <3>1
  <2>5. ~(Len(t) > 0 /\ t[Len(t)] = "_")
    <3>1. n > 0 => n \in 1 .. n
      OBVIOUS
    <3> QED BY <2>2, <2>3, <3>1
  <2>6. camelCase(s) = t \o <<c>>
    BY <2>1, <2>3, <2>4, <2>5, CamelMore
  <2> QED BY <2>1, <2>6, AppendIsConcat
<1>3. \A n \in Nat : n \in S
  <2> HIDE DEF S
  <2> QED BY <1>1, <1>2, NumbersInduct
<1>4. Len(str) \in Nat /\ str \in Seq(Chars)
  <2> HIDE DEF Chars
  <2> QED BY LenProperties DEF NoUnderscore
<1> QED BY <1>3, <1>4

EndsLow(s) == Len(s) > 0 /\ s[Len(s)] = "_"

(* A name and its snake case have the same camel case.                     *)
LEMMA CamelOfSnake ==
    ASSUME NEW str \in Seq(Chars)
    PROVE  camelCase(snakeCase(str)) = camelCase(str)
<1> DEFINE P(s) == /\ snakeCase(s) \in Seq(Chars)
                   /\ EndsLow(snakeCase(s)) <=> EndsLow(s)
                   /\ camelCase(snakeCase(s)) = camelCase(s)
           S == {n \in Nat : \A s \in Seq(Chars) : Len(s) = n => P(s)}
<1>1. 0 \in S
  <2> SUFFICES ASSUME NEW s \in Seq(Chars), Len(s) = 0 PROVE P(s)
    OBVIOUS
  <2> HIDE DEF Chars
  <2>1. s = << >>
    BY EmptySeq
  <2> QED BY <2>1, CaseOfNothing
<1>2. ASSUME NEW n \in Nat, n \in S PROVE n + 1 \in S
  <2> SUFFICES ASSUME NEW s \in Seq(Chars), Len(s) = n + 1 PROVE P(s)
    <3> HIDE DEF P
    <3> QED OBVIOUS
  <2>0. "_" \in Chars /\ \A c \in Chars : toLower(c) \in Chars
    BY DEF Chars, toLower
  <2> HIDE DEF Chars
  <2>1. PICK t \in Seq(Chars), c \in Chars : s = Append(t, c)
    <3>1. s # << >>
      BY EmptySeq
    <3> QED BY <3>1, SequenceEmptyOrAppend
  <2>2. Len(t) = n
    BY <2>1, AppendProperties, LenProperties
  <2>3. P(t)
    BY <1>2, <2>2
  <2> DEFINE z == snakeCase(t)
             end == IF c = "_" THEN << >>
                    ELSE <<IF EndsLow(t) THEN toUpper(c) ELSE c>>
  <2>4. z \in Seq(Chars) /\ (EndsLow(z) <=> EndsLow(t)) /\ camelCase(z) = camelCase(t)
    BY <2>3
  <2>5. camelCase(s) = camelCase(t) \o end
    BY <2>1, CamelMore DEF EndsLow
  <2>6. EndsLow(s) <=> c = "_"
    BY <2>1, LastOfAppend DEF EndsLow
  <2> HIDE DEF z
  <2>7. CASE c = toLower(c)
    <3>1. snakeCase(s) = z \o <<c>>
      BY <2>1, <2>7, SnakeMore DEF z
    <3>2. z \o <<c>> = Append(z, c)
      BY <2>4, AppendIsConcat
    <3>3. camelCase(Append(z, c)) = camelCase(z) \o end
      BY <2>4, CamelMore DEF EndsLow
    <3>4. Append(z, c) \in Seq(Chars) /\ (EndsLow(Append(z, c)) <=> c = "_")
      BY <2>4, LastOfAppend DEF EndsLow
    <3> HIDE DEF end
    <3> QED BY <2>4, <2>5, <2>6, <3>1, <3>2, <3>3, <3>4
  <2>8. CASE c # toLower(c)
    <3> DEFINE l == toLower(c)
               z1 == Append(z, "_")
               z2 == Append(z1, l)
    <3>0. c # "_"
      BY <2>8 DEF toLower
    <3>1. l \in Chars /\ l # "_" /\ toUpper(l) = c /\ toUpper(c) = c
      <4>1. toLower(c) # "_" /\ toUpper(toLower(c)) = c /\ toUpper(c) = c
        <5>1. c # toLower(c) /\ c # "_"
          BY <2>8, <3>0
        <5>2. toLower(c) # "_"
          BY <5>1, CaseOfLetters
        <5>3. toUpper(toLower(c)) = c
          BY <5>1, CaseOfLetters
        <5>4. toUpper(c) = c
          BY <5>1, CaseOfLetters
        <5> QED BY <5>2, <5>3, <5>4
      <4> QED BY <2>0, <4>1
    <3>2. snakeCase(s) = z \o <<"_", l>>
      BY <2>1, <2>8, SnakeMore DEF z
    <3>3. end = <<c>>
      BY <3>0, <3>1
    <3> HIDE DEF l, end
    <3>4. z1 \in Seq(Chars) /\ EndsLow(z1)
      BY <2>0, <2>4, LastOfAppend DEF EndsLow
    <3>5. z \o <<"_", l>> = z2
      <4> DEFINE low == "_"
      <4>1. low \in Chars
        BY <2>0
      <4> HIDE DEF low
      <4>2. z \o <<low, l>> = Append(Append(z, low), l)
        <5>1. z \in Seq(Chars) /\ l \in Chars
          BY <2>4, <3>1
        <5>2. ASSUME NEW q \in Seq(Chars), NEW d \in Chars, NEW e \in Chars
              PROVE  q \o <<d, e>> = Append(Append(q, d), e)
          BY TwoMore
        <5> QED BY <4>1, <5>1, <5>2
      <4> QED BY <4>2 DEF low
    <3>6. camelCase(z1) = camelCase(t)
      <4>1. camelCase(z1) = camelCase(z) \o << >>
        BY <2>0, <2>4, CamelMore
      <4>2. camelCase(t) \in Seq(Chars)
        BY CamelHasNoUnderscore DEF NoUnderscore
      <4>3. camelCase(t) \o << >> = camelCase(t)
        BY <4>2, ConcatEmptySeq
      <4> QED BY <2>4, <4>1, <4>3
    <3> HIDE DEF z1
    <3>7. camelCase(z2) = camelCase(z1) \o <<toUpper(l)>>
      BY <3>1, <3>4, CamelMore DEF EndsLow
    <3>8. z2 \in Seq(Chars) /\ ~EndsLow(z2)
      BY <3>1, <3>4, LastOfAppend DEF EndsLow
    <3> HIDE DEF z2
    <3> QED BY <2>5, <2>6, <3>0, <3>1, <3>2, <3>3, <3>5, <3>6, <3>7, <3>8
  <2> QED BY <2>7, <2>8
<1>3. \A n \in Nat : n \in S
  <2> HIDE DEF S
  <2> QED BY <1>1, <1>2, NumbersInduct
<1>4. Len(str) \in Nat
  <2> HIDE DEF Chars
  <2> QED BY LenProperties
<1> QED BY <1>3, <1>4

(* So camel case is what it was after another.                             *)
LEMMA CamelOfCamel ==
    ASSUME NEW str \in Seq(Chars)
    PROVE  camelCase(camelCase(str)) = camelCase(str)
BY CamelHasNoUnderscore, CamelKeeps

(* Names are made of characters.                                           *)
LEMMA NamesHaveChars ==
    ASSUME NEW str \in Seq(STRING) PROVE str \in Seq(Chars)
<1>1. STRING \subseteq Chars
  BY DEF Chars
<1> QED BY <1>1, SeqMonotonic

-----------------------------------------------------------------------------
(* Looking a field up.                                                     *)

(* The least number of a set is one of its numbers.                        *)
LEMMA LeastIsThere ==
    ASSUME NEW S \in SUBSET Nat, S # {} PROVE Min(S) \in S
<1> DEFINE less == {p \in Nat \X Nat : p[1] < p[2]}
<1>1. IsWellFoundedOn(less, Nat)
  BY NatLessThanWellFounded DEF OpToRel
<1> HIDE DEF less
<1>2. PICK x \in S : \A y \in S : ~(<<y, x>> \in less)
  BY <1>1, WFMin
<1>3. ASSUME NEW y \in S PROVE x <= y
  <2>1. x \in Nat /\ y \in Nat
    OBVIOUS
  <2>2. <<y, x>> \in Nat \X Nat /\ <<y, x>> \notin less
    BY <1>2, <2>1
  <2>3. ~(y < x)
    BY <2>2 DEF less
  <2> QED BY <2>1, <2>3
<1> QED BY <1>3 DEF Min

(* A field that is found by a name has the same camel case; and one is     *)
(* found if there is one whose camel case it is.                           *)
LEMMA FoundByName ==
    ASSUME NEW F, F \in Seq(ToSet(F)), \A k \in DOMAIN F : F[k].name \in Seq(STRING),
           NEW name \in Seq(Chars)
    PROVE  LET i == fieldWithCamelCaseName(F, name)
           IN  /\ i # 0 => i \in DOMAIN F /\ camelCase(F[i].name) = camelCase(name)
               /\ (\E k \in DOMAIN F : camelCase(F[k].name) = name) => i # 0
<1> DEFINE E == {k \in 1 .. Len(F) : F[k].name = snakeCase(name)}
           C == {k \in 1 .. Len(F) : camelCase(F[k].name) = name}
           i == fieldWithCamelCaseName(F, name)
<1>1. Len(F) \in Nat /\ DOMAIN F = 1 .. Len(F)
  BY LenProperties
<1>2. /\ E \in SUBSET Nat /\ C \in SUBSET Nat /\ 0 \notin E /\ 0 \notin C
      /\ E \subseteq DOMAIN F /\ C \subseteq DOMAIN F
  BY <1>1
<1>3. i = LET exact == IF E # {} THEN Min(E) ELSE 0
          IN  IF exact # 0 THEN exact ELSE IF C # {} THEN Min(C) ELSE 0
  BY DEF fieldWithCamelCaseName, SelectInSeq
<1>4. \A k \in E : camelCase(F[k].name) = camelCase(name)
  BY CamelOfSnake
<1>5. \A k \in C : camelCase(F[k].name) = camelCase(name)
  <2> SUFFICES ASSUME NEW k \in C PROVE camelCase(F[k].name) = camelCase(name)
    OBVIOUS
  <2>1. F[k].name \in Seq(STRING) /\ camelCase(F[k].name) = name
    BY <1>1
  <2>2. camelCase(camelCase(F[k].name)) = camelCase(F[k].name)
    BY <2>1, CamelOfCamel, NamesHaveChars
  <2> QED BY <2>1, <2>2
<1>6. (\E k \in DOMAIN F : camelCase(F[k].name) = name) => C # {}
  BY <1>1
<1> HIDE DEF E, C
<1>7. CASE E # {}
  BY <1>2, <1>3, <1>4, <1>7, LeastIsThere
<1>8. CASE E = {} /\ C # {}
  BY <1>2, <1>3, <1>5, <1>8, LeastIsThere
<1>9. CASE E = {} /\ C = {}
  BY <1>3, <1>6, <1>9
<1> QED BY <1>7, <1>8, <1>9

(* The fields of a message, and their names.                               *)
LEMMA FieldsOfMessage ==
    ASSUME fields \in Descriptors, NEW pool, NEW msg, hasFields(pool, msg)
    PROVE  /\ fields[pool][msg] \in Seq(ToSet(fields[pool][msg]))
           /\ \A k \in DOMAIN fields[pool][msg] :
                 fields[pool][msg][k] # Nil /\ fields[pool][msg][k].name \in Seq(STRING)
BY DescriptorsAssumption DEF hasFields

(* The field with tag number 1 is one of the message's fields.             *)
LEMMA FirstIsThere ==
    ASSUME fields \in Descriptors, NEW pool, NEW msg, hasFields(pool, msg), firstField(pool, msg) # Nil
    PROVE  firstField(pool, msg) \in ToSet(fields[pool][msg])
<1> DEFINE F == fields[pool][msg]
           E == {k \in 1 .. Len(F) : F[k].number = 1}
           i == SelectInSeq(F, LAMBDA f : f.number = 1)
<1>1. F \in Seq(ToSet(F))
  BY FieldsOfMessage
<1>2. firstField(pool, msg) = IF i = 0 THEN Nil ELSE F[i]
  BY DEF firstField
<1> HIDE DEF F
<1>3. Len(F) \in Nat /\ DOMAIN F = 1 .. Len(F)
  BY <1>1, LenProperties
<1>4. i = IF E # {} THEN Min(E) ELSE 0
  BY DEF SelectInSeq
<1>5. E \in SUBSET Nat /\ E \subseteq DOMAIN F
  BY <1>3
<1> HIDE DEF E
<1>6. i # 0 => i \in DOMAIN F
  BY <1>4, <1>5, LeastIsThere
<1> HIDE DEF i
<1>7. firstField(pool, msg) \in ToSet(F)
  BY <1>2, <1>6 DEF ToSet
<1> QED BY <1>7 DEF F

(* What a name is found to mean is a field of the same camel case; and one *)
(* is found if there is one whose camel case it is.                        *)
LEMMA FieldOfName ==
    ASSUME fields \in Descriptors, NEW a, hasFields(a.pool, a.msg), a.name \in Seq(STRING)
    PROVE  /\ fieldOf(a) # Nil => \E i \in DOMAIN fields[a.pool][a.msg] :
                                     /\ fieldOf(a) = fields[a.pool][a.msg][i]
                                     /\ camelCase(fields[a.pool][a.msg][i].name) = camelCase(a.name)
           /\ (\E k \in DOMAIN fields[a.pool][a.msg] :
                  camelCase(fields[a.pool][a.msg][k].name) = a.name) => fieldOf(a) # Nil
<1> DEFINE F == fields[a.pool][a.msg]
           i == fieldWithCamelCaseName(F, a.name)
<1>1. F \in Seq(ToSet(F)) /\ \A k \in DOMAIN F : F[k] # Nil /\ F[k].name \in Seq(STRING)
  BY FieldsOfMessage
<1>2. fieldOf(a) = IF i = 0 THEN Nil ELSE F[i]
  BY DEF fieldOf
<1> DEFINE name == a.name
<1>3. name \in Seq(Chars)
  BY NamesHaveChars
<1> HIDE DEF F, name
<1>4. /\ i # 0 => i \in DOMAIN F /\ camelCase(F[i].name) = camelCase(name)
      /\ (\E k \in DOMAIN F : camelCase(F[k].name) = name) => i # 0
  BY <1>1, <1>3, FoundByName DEF name
<1> HIDE DEF i
<1>5. /\ fieldOf(a) # Nil => \E k \in DOMAIN F : fieldOf(a) = F[k] /\ camelCase(F[k].name) = camelCase(name)
      /\ (\E k \in DOMAIN F : camelCase(F[k].name) = name) => fieldOf(a) # Nil
  BY <1>1, <1>2, <1>4
<1> QED BY <1>5 DEF F, name

(* A name that means a relation is in camel case.                          *)
LEMMA RelationOfName ==
    ASSUME fields \in Descriptors, Registered(methods, relations), NEW a, relationOf(a) # Nil
    PROVE  /\ <<a.msg, a.name>> \in DOMAIN relations
           /\ Resolves(relationOf(a), <<a.msg, a.name>>)
           /\ camelCase(a.name) = a.name
<1> DEFINE k == <<a.msg, a.name>>
           m == relationOf(a)
<1>1. k \in DOMAIN relations /\ m = relations[k]
  BY DEF relationOf
<1>2. Resolves(m, k)
  BY <1>1 DEF Registered
<1>3. a.name = camelCase(m.relation)
  BY <1>2 DEF Resolves
<1>4. hasFields(m.pool, resultField(m).type) /\ relationField(m) # Nil /\ relationField(m).name = m.relation
  BY <1>2 DEF Resolves
<1>5. relationField(m) \in ToSet(fields[m.pool][resultField(m).type])
  BY <1>4, FirstIsThere DEF relationField
<1>6. relationField(m).name \in Seq(STRING)
  BY <1>4, <1>5, FieldsOfMessage DEF ToSet
<1>7. camelCase(camelCase(m.relation)) = camelCase(m.relation)
  BY <1>4, <1>6, CamelOfCamel, NamesHaveChars
<1> QED BY <1>1, <1>2, <1>3, <1>7

(* If camel case tells fields apart, names of the same camel case mean the *)
(* same: two fields have not the same, and a relation is not looked for    *)
(* where there is a field.                                                 *)
LEMMA NamesMeanOne ==
    ASSUME fields \in Descriptors, Registered(methods, relations), CamelCaseTells,
           NEW a, NEW b, a.pool = b.pool, a.msg = b.msg, hasFields(a.pool, a.msg),
           a.name \in Seq(STRING), b.name \in Seq(STRING), camelCase(a.name) = camelCase(b.name),
           known(a), known(b)
    PROVE  descriptorOf(a) = descriptorOf(b) /\ poolOf(a) = poolOf(b)
<1> DEFINE F == fields[a.pool][a.msg]
<1>1. /\ fieldOf(a) # Nil => \E i \in DOMAIN F : fieldOf(a) = F[i] /\ camelCase(F[i].name) = camelCase(a.name)
      /\ (\E k \in DOMAIN F : camelCase(F[k].name) = a.name) => fieldOf(a) # Nil
  BY FieldOfName
<1>2. /\ fieldOf(b) # Nil => \E i \in DOMAIN F : fieldOf(b) = F[i] /\ camelCase(F[i].name) = camelCase(b.name)
      /\ (\E k \in DOMAIN F : camelCase(F[k].name) = b.name) => fieldOf(b) # Nil
  BY FieldOfName
<1>3. fieldOf(a) = Nil => relationOf(a) # Nil /\ camelCase(a.name) = a.name
  BY RelationOfName DEF known
<1>4. fieldOf(b) = Nil => relationOf(b) # Nil /\ camelCase(b.name) = b.name
  BY RelationOfName DEF known
<1>5. \A i, j \in DOMAIN F : camelCase(F[i].name) = camelCase(F[j].name) => i = j
  BY DEF CamelCaseTells, hasFields
<1> HIDE DEF F
<1>6. CASE fieldOf(a) # Nil
  <2>1. fieldOf(b) # Nil
    BY <1>1, <1>2, <1>4, <1>6
  <2>2. fieldOf(a) = fieldOf(b)
    BY <1>1, <1>2, <1>5, <1>6, <2>1
  <2> QED BY <1>6, <2>1, <2>2 DEF descriptorOf, poolOf
<1>7. CASE fieldOf(a) = Nil
  <2>1. fieldOf(b) = Nil
    BY <1>1, <1>2, <1>3, <1>7
  <2>2. a.name = b.name
    BY <1>3, <1>4, <1>7, <2>1
  <2>3. relationOf(a) = relationOf(b)
    BY <2>2 DEF relationOf
  <2> QED BY <1>7, <2>1, <2>3 DEF descriptorOf, poolOf
<1> QED BY <1>6, <1>7

(* Paths of the same names in camel case.                                  *)
SameNames(p, q) == Len(p) = Len(q) /\ \A k \in 1 .. Len(p) : camelCase(p[k]) = camelCase(q[k])

(* So they lead to messages of the same type.                              *)
LEMMA NamesLeadToOne ==
    ASSUME fields \in Descriptors, Registered(methods, relations), CamelCaseTells,
           NEW r, r.path = << >>, Bounded(r.mask), computeSchema(r)
    PROVE  \A u, v \in reached(r) : SameNames(u.path, v.path) => u.pool = v.pool /\ u.type = v.type
<1> DEFINE W(k) == within(r)[k]
           one(n) == \A u, v \in W(n) : SameNames(u.path, v.path) => u.pool = v.pool /\ u.type = v.type
           S == {n \in Nat : n <= MaxDepth => one(n)}
<1>0. MaxDepth \in Nat
  BY RequestsAssumption
<1>1. W(0) = {r} /\ \A n \in Nat : \A v \in W(n + 1) : v = r \/ \E u \in W(n) : v \in below(u)
  BY WithinOneMore, MetFromAbove
<1>2. \A n \in Nat : n <= MaxDepth => W(n) \subseteq reached(r)
  BY MetStaysMet
<1> HIDE DEF W
<1>3. ASSUME NEW w \in reached(r), NEW v \in below(w)
      PROVE  \E a \in asks(w) : /\ v.pool = poolOf(a) /\ v.type = descriptorOf(a).type
                                /\ known(a) /\ a.name \in Seq(STRING) /\ a.pool = w.pool /\ a.msg = w.type
                                /\ hasFields(w.pool, w.type)
                                /\ Len(w.path) \in Nat /\ Len(v.path) = Len(w.path) + 1
                                /\ v.path[Len(v.path)] = a.name
                                /\ \A k \in 1 .. Len(w.path) : v.path[k] = w.path[k]
  <2>1. PICK a \in asks(w) : known(a) /\ v = Child(a)
    BY BelowIsChild
  <2>2. v.path = a.path /\ v.pool = poolOf(a) /\ v.type = descriptorOf(a).type
    BY <2>1, PartsOfChild
  <2>3. /\ Len(w.path) \in Nat /\ Len(a.path) = Len(w.path) + 1 /\ a.path[Len(a.path)] = a.name
        /\ \A k \in 1 .. Len(w.path) : a.path[k] = w.path[k]
    BY PathOfName
  <2>4. hasFields(w.pool, w.type) /\ a.pool = w.pool /\ a.msg = w.type
    BY NameOfMask
  <2>5. a.name \in Seq(STRING)
    BY MetNames
  <2> QED BY <2>1, <2>2, <2>3, <2>4, <2>5
<1>4. 0 \in S
  BY <1>1
<1>5. ASSUME NEW n \in Nat, n \in S PROVE n + 1 \in S
  <2> SUFFICES ASSUME n + 1 <= MaxDepth, NEW u \in W(n + 1), NEW v \in W(n + 1),
                      SameNames(u.path, v.path)
               PROVE  u.pool = v.pool /\ u.type = v.type
    OBVIOUS
  <2>0. n <= MaxDepth /\ one(n) /\ W(n) \subseteq reached(r)
    BY <1>0, <1>2, <1>5
  <2>1. Len(r.path) = 0
    OBVIOUS
  <2>2. ASSUME NEW w \in W(n), NEW x \in W(n), u \in below(w), v \in below(x)
        PROVE  u.pool = v.pool /\ u.type = v.type
    <3>1. PICK a \in asks(w) :
              /\ u.pool = poolOf(a) /\ u.type = descriptorOf(a).type
              /\ known(a) /\ a.name \in Seq(STRING) /\ a.pool = w.pool /\ a.msg = w.type
              /\ hasFields(w.pool, w.type)
              /\ Len(w.path) \in Nat /\ Len(u.path) = Len(w.path) + 1
              /\ u.path[Len(u.path)] = a.name
              /\ \A k \in 1 .. Len(w.path) : u.path[k] = w.path[k]
      BY <1>3, <2>0, <2>2
    <3>2. PICK b \in asks(x) :
              /\ v.pool = poolOf(b) /\ v.type = descriptorOf(b).type
              /\ known(b) /\ b.name \in Seq(STRING) /\ b.pool = x.pool /\ b.msg = x.type
              /\ Len(x.path) \in Nat /\ Len(v.path) = Len(x.path) + 1
              /\ v.path[Len(v.path)] = b.name
              /\ \A k \in 1 .. Len(x.path) : v.path[k] = x.path[k]
      BY <1>3, <2>0, <2>2
    <3>3. Len(u.path) = Len(v.path) /\ \A k \in 1 .. Len(u.path) : camelCase(u.path[k]) = camelCase(v.path[k])
      BY DEF SameNames
    <3>4. Len(w.path) = Len(x.path)
      BY <3>1, <3>2, <3>3
    <3>5. ASSUME NEW k \in 1 .. Len(w.path) PROVE camelCase(w.path[k]) = camelCase(x.path[k])
      <4>1. k \in 1 .. Len(u.path) /\ k \in 1 .. Len(x.path)
        BY <3>1, <3>4
      <4> QED BY <3>1, <3>2, <3>3, <4>1
    <3>6. SameNames(w.path, x.path)
      BY <3>4, <3>5 DEF SameNames
    <3>7. w.pool = x.pool /\ w.type = x.type
      BY <2>0, <3>6
    <3>8. camelCase(a.name) = camelCase(b.name)
      <4>1. Len(u.path) \in 1 .. Len(u.path)
        BY <3>1
      <4> QED BY <3>1, <3>2, <3>3, <4>1
    <3>9. descriptorOf(a) = descriptorOf(b) /\ poolOf(a) = poolOf(b)
      BY <3>1, <3>2, <3>7, <3>8, NamesMeanOne
    <3> QED BY <3>1, <3>2, <3>9
  <2>3. ASSUME NEW w \in W(n), NEW x \in below(w) PROVE Len(x.path) \in Nat /\ Len(x.path) # 0
    BY <1>3, <2>0
  <2>4. u = r \/ \E w \in W(n) : u \in below(w)
    BY <1>1
  <2>5. v = r \/ \E w \in W(n) : v \in below(w)
    BY <1>1
  <2>6. Len(u.path) = Len(v.path)
    BY DEF SameNames
  <2> QED BY <2>1, <2>2, <2>3, <2>4, <2>5, <2>6
<1>6. \A n \in Nat : n \in S
  <2> HIDE DEF S
  <2> QED BY <1>4, <1>5, NumbersInduct
<1>7. one(MaxDepth)
  BY <1>0, <1>6
<1> QED BY <1>7 DEF W, reached

(* And to names of one descriptor.                                         *)
LEMMA NamesLeadToOneDescriptor ==
    ASSUME fields \in Descriptors, Registered(methods, relations), CamelCaseTells,
           NEW r, r.path = << >>, Bounded(r.mask), computeSchema(r),
           NEW a \in asked(r), NEW b \in asked(r), SameNames(a.path, b.path)
    PROVE  descriptorOf(a) = descriptorOf(b)
<1>1. PICK u \in reached(r) : a \in asks(u)
  BY AskedOfOne
<1>2. PICK v \in reached(r) : b \in asks(v)
  BY AskedOfOne
<1>3. /\ Len(u.path) \in Nat /\ Len(a.path) = Len(u.path) + 1 /\ a.path[Len(a.path)] = a.name
      /\ \A k \in 1 .. Len(u.path) : a.path[k] = u.path[k]
  BY <1>1, PathOfName
<1>4. /\ Len(v.path) \in Nat /\ Len(b.path) = Len(v.path) + 1 /\ b.path[Len(b.path)] = b.name
      /\ \A k \in 1 .. Len(v.path) : b.path[k] = v.path[k]
  BY <1>2, PathOfName
<1>5. Len(a.path) = Len(b.path) /\ \A k \in 1 .. Len(a.path) : camelCase(a.path[k]) = camelCase(b.path[k])
  BY DEF SameNames
<1>6. Len(u.path) = Len(v.path)
  BY <1>3, <1>4, <1>5
<1>7. ASSUME NEW k \in 1 .. Len(u.path) PROVE camelCase(u.path[k]) = camelCase(v.path[k])
  <2>1. k \in 1 .. Len(a.path) /\ k \in 1 .. Len(v.path)
    BY <1>3, <1>6
  <2> QED BY <1>3, <1>4, <1>5, <2>1
<1>8. SameNames(u.path, v.path)
  BY <1>6, <1>7 DEF SameNames
<1>9. u.pool = v.pool /\ u.type = v.type
  BY <1>8, NamesLeadToOne
<1>10. camelCase(a.name) = camelCase(b.name)
  <2>1. Len(a.path) \in 1 .. Len(a.path)
    BY <1>3
  <2> QED BY <1>3, <1>4, <1>5, <2>1
<1>11. /\ hasFields(u.pool, u.type) /\ a.pool = u.pool /\ a.msg = u.type
       /\ b.pool = v.pool /\ b.msg = v.type
  BY <1>1, <1>2, NameOfMask
<1>12. known(a) /\ known(b)
  BY <1>1, <1>2, <1>11, <1>9 DEF computeSchema, validMask
<1>13. a.name \in Seq(STRING) /\ b.name \in Seq(STRING)
  BY <1>1, <1>2, MetNames
<1> QED BY <1>9, <1>10, <1>11, <1>12, <1>13, NamesMeanOne

-----------------------------------------------------------------------------
(* The inductive invariant.                                                *)

(* A name that is asked for is in the response, or in something that is    *)
(* missing, or is still on the way: a patch or a message leads to it.      *)
Stands(a) ==
    \/ \E e \in response : e.path = a.path \/ (e.missing /\ Under(e.path, a.path))
    \/ \E p \in patches : Under(p.path, a.path)
    \/ \E v \in todo : Under(v.path, a.path) /\ Len(v.path) < Len(a.path)

(* How far the answer of message r has got: what formatting and stitching  *)
(* are at was met by validation, and they went by the same descriptors.    *)
AnswersTo(r) ==
    /\ \A v \in todo : v \in reached(r) /\ hasFields(v.pool, v.type)
    /\ \A p \in patches : p \in asked(r) /\ isRelation(p)
    /\ \A e \in response : \E a \in asked(r) : e.path = a.path /\ e.field = descriptorOf(a)
    /\ called \subseteq {relations[k] : k \in DOMAIN relations}
    /\ \A a \in asked(r) : Stands(a)

(* Request q was accepted, and r answers it.                               *)
Taken(q, r) == accepted(q) /\ Bounded(q.mask) /\ r = output(q) /\ AnswersTo(r)

Inv ==
    /\ fields \in Descriptors
    /\ pc \in {"config", "serving"}
    /\ Registered(methods, relations)
    /\ err = Nil
    /\ req = Nil => todo = {} /\ patches = {} /\ response = {} /\ called = {}
    /\ req # Nil => pc = "serving" /\ \E q, r : q = req /\ Taken(q, r)

(* While nothing is registered, validation finds what it found.            *)
LEMMA ConfigStays ==
    ASSUME UNCHANGED <<fields, methods, relations>>, NEW x
    PROVE  /\ hasFields(x.pool, x.type)' = hasFields(x.pool, x.type)
           /\ (isRelation(x)' <=> isRelation(x)) /\ descriptorOf(x)' = descriptorOf(x)
           /\ reached(x)' = reached(x) /\ asked(x)' = asked(x)
           /\ (accepted(x)' <=> accepted(x)) /\ output(x)' = output(x)
<1>1. fields' = fields /\ methods' = methods /\ relations' = relations
  OBVIOUS
<1>2. ASSUME NEW y
      PROVE  /\ fieldOf(y)' = fieldOf(y) /\ relationOf(y)' = relationOf(y)
             /\ hasFields(y.pool, y.type)' = hasFields(y.pool, y.type)
  BY <1>1 DEF fieldOf, relationOf, hasFields
<1>3. ASSUME NEW y PROVE descriptorOf(y)' = descriptorOf(y)
  BY <1>1 DEF descriptorOf, fieldOf, relationOf, relationField, resultField, firstField, SelectInSeq
<1>12. ASSUME NEW y PROVE /\ known(y)' <=> known(y)
                          /\ poolOf(y)' = poolOf(y)
                          /\ isRelation(y)' <=> isRelation(y)
  <2>1. known(y)' <=> known(y)
    BY <1>1 DEF known, fieldOf, relationOf
  <2>2. poolOf(y)' = poolOf(y)
    BY <1>1 DEF poolOf, fieldOf, relationOf
  <2>3. isRelation(y)' <=> isRelation(y)
    BY <1>1 DEF isRelation, fieldOf
  <2> QED BY <2>1, <2>2, <2>3
<1>4. ASSUME NEW y PROVE asks(y)' = asks(y)
  BY <1>1 DEF asks, hasFields
<1>5. ASSUME NEW y PROVE reached(y)' = reached(y)
  <2>1. within(y)' = within(y)
    BY <1>1 DEF within, below, asks, hasFields, known, poolOf, descriptorOf, fieldOf, relationOf,
                relationField, resultField, firstField, SelectInSeq
  <2> QED BY <2>1 DEF reached
<1>6. ASSUME NEW y PROVE asked(y)' = asked(y)
  BY <1>4, <1>5 DEF asked
<1>7. ASSUME NEW y PROVE validMask(y)' <=> validMask(y)
  BY <1>1 DEF validMask, hasFields, asks, known, descriptorOf, fieldOf, relationOf, keyAllowed,
              relationField, resultField, firstField, SelectInSeq
<1>8. ASSUME NEW y PROVE computeSchema(y)' <=> computeSchema(y)
  BY <1>5, <1>7 DEF computeSchema
<1>9. ASSUME NEW y PROVE methodOf(y)' = methodOf(y)
  BY <1>1 DEF methodOf
<1>10. output(x)' = output(x)
  BY <1>9 DEF output
<1>11. accepted(x)' <=> accepted(x)
  <2>1. computeSchema(output(x))' <=> computeSchema(output(x))
    <3>1. PICK y : y = output(x)
      OBVIOUS
    <3>2. output(x)' = y
      BY <1>10, <3>1
    <3>3. computeSchema(y)' <=> computeSchema(y)
      BY <1>8
    <3> QED BY <3>1, <3>2, <3>3 DEF computeSchema
  <2> QED BY <1>1, <1>9, <2>1 DEF accepted
<1> QED BY <1>2, <1>3, <1>5, <1>6, <1>10, <1>11, <1>12

(* The message that answers a request that was taken.                      *)
LEMMA TakenIsValid ==
    ASSUME NEW q, NEW r, Taken(q, r)
    PROVE  r.path = << >> /\ Bounded(r.mask) /\ computeSchema(r) /\ r \in reached(r)
<1>1. r = output(q) /\ accepted(q) /\ Bounded(q.mask)
  BY DEF Taken
<1>2. r.path = << >> /\ r.mask = q.mask
  BY <1>1 DEF output, message
<1>3. computeSchema(r)
  BY <1>1 DEF accepted
<1>4. r \in reached(r)
  <2>1. r \in within(r)[0]
    BY WithinOneMore
  <2> QED BY <2>1, MetStaysMet, RequestsAssumption
<1> QED BY <1>1, <1>2, <1>3, <1>4

(* A name that leads to another leads on to it by its child.               *)
LEMMA MovesOn ==
    ASSUME NEW r, r.path = << >>, Bounded(r.mask), computeSchema(r),
           NEW a \in asked(r), NEW c \in asked(r), Under(c.path, a.path)
    PROVE  /\ known(c) /\ Child(c) \in reached(r)
           /\ \/ c.path = a.path
              \/ /\ hasFields(Child(c).pool, Child(c).type)
                 /\ Under(Child(c).path, a.path) /\ Len(Child(c).path) < Len(a.path)
<1>1. PICK v \in reached(r) : c \in asks(v)
  BY AskedOfOne
<1>2. known(c)
  BY <1>1, NameOfMask DEF computeSchema, validMask
<1>3. Child(c) \in reached(r)
  BY <1>1, <1>2, BelowIsChild, BelowIsMet
<1>4. PICK u \in reached(r) : a \in asks(u)
  BY AskedOfOne
<1>5. IsSeq(a.path) /\ IsSeq(c.path) /\ Len(a.path) \in Nat /\ Len(c.path) \in Nat
  <2>1. IsSeq(a.path) /\ IsSeq(c.path)
    BY <1>1, <1>4, PathOfName
  <2> QED BY <2>1, LongerPath
<1>6. CASE Len(c.path) = Len(a.path)
  <2>1. c.path = a.path
    BY <1>5, <1>6, SameSequence DEF Under
  <2> QED BY <1>2, <1>3, <2>1
<1>7. CASE Len(c.path) # Len(a.path)
  <2>1. Len(c.path) < Len(a.path)
    BY <1>5, <1>7 DEF Under
  <2>2. Child(c).path = c.path
    BY PartsOfChild
  <2>3. LeadsOn(r, a.path)
    BY WayOn
  <2>4. PICK b \in asks(Child(c)) : TRUE
    BY <1>3, <2>1, <2>2, <2>3 DEF LeadsOn
  <2>5. hasFields(Child(c).pool, Child(c).type)
    BY <2>4, NameOfMask
  <2> QED BY <1>2, <1>3, <2>1, <2>2, <2>5
<1> QED BY <1>6, <1>7

(* What is asked of the message that answers is under it.                  *)
LEMMA StartsAt ==
    ASSUME NEW q, NEW r, r = output(q), accepted(q), Bounded(q.mask), NEW a \in asked(r)
    PROVE  hasFields(r.pool, r.type) /\ Under(r.path, a.path) /\ Len(r.path) < Len(a.path)
<1>1. r.path = << >> /\ r.mask = q.mask /\ computeSchema(r)
  BY DEF output, message, accepted
<1>2. r \in reached(r)
  <2>1. r \in within(r)[0]
    BY WithinOneMore
  <2> QED BY <2>1, MetStaysMet, RequestsAssumption
<1>3. PICK u \in reached(r) : a \in asks(u)
  BY AskedOfOne
<1>4. Len(a.path) = Len(u.path) + 1 /\ Len(u.path) \in Nat
  BY <1>1, <1>3, PathOfName
<1>5. Len(r.path) = 0
  BY <1>1
<1>6. Under(r.path, a.path) /\ Len(r.path) < Len(a.path)
  BY <1>4, <1>5 DEF Under
<1>7. PICK b \in asks(r) : TRUE
  BY <1>1, <1>2, <1>6, WayOn DEF LeadsOn
<1> QED BY <1>6, <1>7, NameOfMask

(* Everything that is named in a message that is formatted is asked for.   *)
LEMMA NamesAreAsked ==
    ASSUME NEW r, AnswersTo(r), NEW v \in todo
    PROVE  namesIn(v) = asks(v) /\ namesIn(v) \subseteq asked(r)
BY DEF AnswersTo, asks, asked

(* What a child is, for a field and for a relation.                        *)
LEMMA ChildOf ==
    ASSUME NEW a
    PROVE  /\ ~isRelation(a) => /\ descriptorOf(a) = fieldOf(a)
                                /\ Child(a) = message(a.path, a.pool, fieldOf(a).type, a.mask)
           /\ isRelation(a) => /\ descriptorOf(a) = relationField(configOf(a))
                               /\ Child(a) = message(a.path, configOf(a).pool,
                                                     relationField(configOf(a)).type, a.mask)
BY DEF isRelation, descriptorOf, poolOf, Child, configOf

(* What is registered in order stays so while the fields are what they are.*)
LEMMA RegisteredStays ==
    ASSUME fields' = fields, Registered(methods', relations')
    PROVE  Registered(methods, relations)'
<1>1. ASSUME NEW m PROVE relationField(m)' = relationField(m) /\ resultField(m)' = resultField(m)
  BY DEF relationField, resultField, firstField, SelectInSeq
<1>2. ASSUME NEW m, NEW k, Resolves(m, k) PROVE Resolves(m, k)'
  BY <1>1, <1>2 DEF Resolves, hasFields
<1>3. ASSUME NEW k \in DOMAIN relations' PROVE Resolves(relations[k], k)'
  <2>1. PICK m : m = relations'[k]
    OBVIOUS
  <2>2. Resolves(m, k)
    BY <2>1 DEF Registered
  <2>3. Resolves(m, k)'
    BY <1>2, <2>2
  <2> QED BY <2>1, <2>3 DEF Resolves
<1> QED BY <1>3 DEF Registered

(* How far the answer gets with a step that registers nothing.             *)
LEMMA AnswersNext ==
    ASSUME UNCHANGED <<fields, methods, relations>>, NEW r,
           \A v \in todo' : v \in reached(r) /\ hasFields(v.pool, v.type),
           \A p \in patches' : p \in asked(r) /\ isRelation(p),
           \A e \in response' : \E a \in asked(r) : e.path = a.path /\ e.field = descriptorOf(a),
           called' \subseteq {relations[k] : k \in DOMAIN relations},
           \A a \in asked(r) :
              \/ \E e \in response' : e.path = a.path \/ (e.missing /\ Under(e.path, a.path))
              \/ \E p \in patches' : Under(p.path, a.path)
              \/ \E v \in todo' : Under(v.path, a.path) /\ Len(v.path) < Len(a.path)
    PROVE  AnswersTo(r)'
<1>1. reached(r)' = reached(r) /\ asked(r)' = asked(r)
  BY ConfigStays
<1>2. ASSUME NEW x PROVE /\ hasFields(x.pool, x.type)' = hasFields(x.pool, x.type)
                         /\ isRelation(x)' <=> isRelation(x)
                         /\ descriptorOf(x)' = descriptorOf(x)
  BY ConfigStays
<1>3. \A v \in todo' : v \in reached(r)' /\ hasFields(v.pool, v.type)'
  BY <1>1, <1>2
<1>4. \A p \in patches' : p \in asked(r)' /\ isRelation(p)'
  BY <1>1, <1>2
<1>5. \A e \in response' : \E a \in asked(r)' : e.path = a.path /\ e.field = descriptorOf(a)'
  BY <1>1, <1>2
<1>6. called' \subseteq {relations[k] : k \in DOMAIN relations}'
  OBVIOUS
<1>7. \A a \in asked(r)' : Stands(a)'
  BY <1>1 DEF Stands
<1> QED BY <1>3, <1>4, <1>5, <1>6, <1>7 DEF AnswersTo

(* A request that was taken stays so while it is answered.                 *)
LEMMA TakenNext ==
    ASSUME UNCHANGED <<fields, methods, relations>>, NEW q, NEW r,
           accepted(q), Bounded(q.mask), r = output(q), AnswersTo(r)'
    PROVE  Taken(q, r)'
<1>1. accepted(q)' /\ output(q)' = r
  BY ConfigStays
<1> QED BY <1>1 DEF Taken, Bounded

(* Formatting finds the names of the messages at hand in validation's, and *)
(* what it leaves for later as well.                                       *)
LEMMA FormatKeepsInv ==
    ASSUME Inv, Format
    PROVE  Inv'
<1>1. req # Nil
  BY DEF Inv, Format
<1>2. PICK q, r : q = req /\ Taken(q, r)
  BY <1>1 DEF Inv
<1>3. AnswersTo(r) /\ accepted(q) /\ Bounded(q.mask) /\ r = output(q)
  BY <1>2 DEF Taken
<1>4. r.path = << >> /\ Bounded(r.mask) /\ computeSchema(r)
  BY <1>2, TakenIsValid
<1> DEFINE names == UNION {namesIn(v) : v \in todo}
           found == {a \in names : ~isRelation(a)}
           entry(a, missing) == formatted(a.path, fieldOf(a), a \in missing)
           child(a) == message(a.path, a.pool, fieldOf(a).type, a.mask)
<1>5. PICK missing \in SUBSET found :
          /\ response' = response \cup {entry(a, missing) : a \in found}
          /\ todo' = normal({child(a) : a \in found \ missing})
          /\ patches' = patches \cup (names \ found)
  BY DEF Format
<1>6. UNCHANGED <<fields, methods, relations, pc, req, called, err>>
  BY DEF Format, config
<1>7. names \subseteq asked(r) /\ \A v \in todo : asks(v) \subseteq names
  BY <1>3, NamesAreAsked
<1>8. \A a \in found : /\ a \in names /\ ~isRelation(a) /\ descriptorOf(a) = fieldOf(a)
                       /\ child(a) = Child(a)
  BY ChildOf
<1>9. \A a \in names \ found : isRelation(a)
  OBVIOUS
<1>10. \A a \in found : entry(a, missing).path = a.path /\ entry(a, missing).field = fieldOf(a)
                        /\ entry(a, missing).missing = (a \in missing)
  BY DEF formatted
<1> HIDE DEF names, found, entry, child
<1>11. \A v \in todo' : \E a \in found \ missing : v = child(a) /\ hasFields(v.pool, v.type)
  BY <1>5 DEF normal
<1>12. \A a \in found \ missing : hasFields(child(a).pool, child(a).type) => child(a) \in todo'
  BY <1>5 DEF normal
<1>13. ASSUME NEW a \in asked(r), NEW c \in asked(r), Under(c.path, a.path)
       PROVE  /\ known(c) /\ Child(c) \in reached(r)
              /\ \/ c.path = a.path
                 \/ /\ hasFields(Child(c).pool, Child(c).type)
                    /\ Under(Child(c).path, a.path) /\ Len(Child(c).path) < Len(a.path)
  BY <1>4, <1>13, MovesOn
<1>14. ASSUME NEW v \in todo' PROVE v \in reached(r) /\ hasFields(v.pool, v.type)
  <2>1. PICK a \in found \ missing : v = child(a) /\ hasFields(v.pool, v.type)
    BY <1>11
  <2>2. a \in asked(r) /\ v = Child(a)
    BY <1>7, <1>8, <2>1
  <2>3. PICK u \in reached(r) : a \in asks(u)
    BY <2>2, AskedOfOne
  <2>4. known(a)
    BY <1>8 DEF known, isRelation
  <2>5. Child(a) \in reached(r)
    BY <1>4, <2>3, <2>4, BelowIsChild, BelowIsMet
  <2> QED BY <2>1, <2>2, <2>5
<1>15. \A p \in patches' : p \in asked(r) /\ isRelation(p)
  BY <1>3, <1>5, <1>7, <1>9 DEF AnswersTo
<1>16. ASSUME NEW e \in response'
       PROVE  \E a \in asked(r) : e.path = a.path /\ e.field = descriptorOf(a)
  <2>1. CASE e \in response
    BY <1>3, <2>1 DEF AnswersTo
  <2>2. ASSUME NEW a \in found, e = entry(a, missing)
        PROVE  \E b \in asked(r) : e.path = b.path /\ e.field = descriptorOf(b)
    BY <1>7, <1>8, <1>10, <2>2
  <2> QED BY <1>5, <2>1, <2>2
<1>17. ASSUME NEW a \in asked(r)
       PROVE  \/ \E e \in response' : e.path = a.path \/ (e.missing /\ Under(e.path, a.path))
              \/ \E p \in patches' : Under(p.path, a.path)
              \/ \E v \in todo' : Under(v.path, a.path) /\ Len(v.path) < Len(a.path)
  <2>1. Stands(a)
    BY <1>3 DEF AnswersTo
  <2>2. response \subseteq response' /\ patches \subseteq patches'
    BY <1>5
  <2>3. ASSUME NEW v \in todo, Under(v.path, a.path), Len(v.path) < Len(a.path)
        PROVE  \/ \E e \in response' : e.path = a.path \/ (e.missing /\ Under(e.path, a.path))
               \/ \E p \in patches' : Under(p.path, a.path)
               \/ \E w \in todo' : Under(w.path, a.path) /\ Len(w.path) < Len(a.path)
    <3>1. v \in reached(r)
      BY <1>3 DEF AnswersTo
    <3>2. PICK c \in asks(v) : Under(c.path, a.path)
      BY <1>4, <2>3, <3>1, WayOn DEF LeadsOn
    <3>3. c \in names /\ c \in asked(r)
      BY <1>7
    <3>4. CASE c \notin found
      <4>1. c \in patches'
        BY <1>5, <3>3, <3>4
      <4> QED BY <3>2, <4>1
    <3>5. CASE c \in found
      <4>1. entry(c, missing) \in response'
        BY <1>5, <3>5
      <4>2. CASE c.path = a.path
        BY <1>10, <3>5, <4>1, <4>2
      <4>3. CASE c \in missing
        <5>1. entry(c, missing).missing
          BY <1>10, <3>5, <4>3
        <5>2. Under(entry(c, missing).path, a.path)
          BY <1>10, <3>2, <3>5
        <5> QED BY <4>1, <5>1, <5>2
      <4>4. CASE c.path # a.path /\ c \notin missing
        <5>1. /\ hasFields(Child(c).pool, Child(c).type)
              /\ Under(Child(c).path, a.path) /\ Len(Child(c).path) < Len(a.path)
          BY <1>13, <3>2, <3>3, <4>4
        <5>2. Child(c) \in todo'
          BY <1>8, <1>12, <3>5, <4>4, <5>1
        <5> QED BY <5>1, <5>2
      <4> QED BY <4>2, <4>3, <4>4
    <3> QED BY <3>4, <3>5
  <2> QED BY <2>1, <2>2, <2>3 DEF Stands
<1>18. called' \subseteq {relations[k] : k \in DOMAIN relations}
  BY <1>3, <1>6 DEF AnswersTo
<1>19. AnswersTo(r)'
  BY <1>6, <1>14, <1>15, <1>16, <1>17, <1>18, AnswersNext
<1>20. Taken(q, r)'
  BY <1>3, <1>6, <1>19, TakenNext
<1>21. Registered(methods, relations)'
  BY <1>6, RegisteredStays DEF Inv
<1>22. req' = q /\ req' # Nil
  BY <1>1, <1>2, <1>6
<1>23. fields' \in Descriptors /\ err' = Nil /\ pc' = "serving"
  BY <1>1, <1>6 DEF Inv
<1> QED BY <1>20, <1>21, <1>22, <1>23 DEF Inv

(* Stitching knows every relation, and what it resolves is what validation *)
(* went on with.                                                           *)
LEMMA StitchKeepsInv ==
    ASSUME Inv, Stitch
    PROVE  Inv'
<1>1. req # Nil
  BY DEF Inv, Stitch
<1>2. PICK q, r : q = req /\ Taken(q, r)
  BY <1>1 DEF Inv
<1>3. AnswersTo(r) /\ accepted(q) /\ Bounded(q.mask) /\ r = output(q)
  BY <1>2 DEF Taken
<1>4. r.path = << >> /\ Bounded(r.mask) /\ computeSchema(r)
  BY <1>2, TakenIsValid
<1> DEFINE entry(p, missing) == formatted(p.path, relationField(configOf(p)), p \in missing)
           child(p) == message(p.path, configOf(p).pool, relationField(configOf(p)).type, p.mask)
<1>5. ASSUME NEW a \in asked(r), NEW c \in asked(r), Under(c.path, a.path)
      PROVE  /\ known(c) /\ Child(c) \in reached(r)
             /\ \/ c.path = a.path
                \/ /\ hasFields(Child(c).pool, Child(c).type)
                   /\ Under(Child(c).path, a.path) /\ Len(Child(c).path) < Len(a.path)
  BY <1>4, <1>5, MovesOn
<1>6. ASSUME NEW p \in patches
      PROVE  /\ p \in asked(r) /\ Child(p) \in reached(r)
             /\ configOf(p) # Nil /\ configOf(p) \in {relations[k] : k \in DOMAIN relations}
             /\ descriptorOf(p) = relationField(configOf(p)) /\ child(p) = Child(p)
  <2>1. p \in asked(r) /\ isRelation(p)
    BY <1>3 DEF AnswersTo
  <2>2. PICK v \in reached(r) : p \in asks(v)
    BY <2>1, AskedOfOne
  <2>3. known(p)
    BY <1>4, <2>2, NameOfMask DEF computeSchema, validMask
  <2>4. Child(p) \in reached(r)
    BY <1>4, <2>2, <2>3, BelowIsChild, BelowIsMet
  <2>5. configOf(p) # Nil
    BY <2>1, <2>3 DEF known, isRelation, configOf
  <2>6. configOf(p) \in {relations[k] : k \in DOMAIN relations}
    BY <2>5 DEF configOf, relationOf
  <2> QED BY <2>1, <2>4, <2>5, <2>6, ChildOf
<1>7. PICK missing \in SUBSET patches :
          /\ response' = response \cup {entry(p, missing) : p \in patches}
          /\ todo' = normal({child(p) : p \in patches \ missing})
  BY <1>6 DEF Stitch
<1>8. called' = called \cup {configOf(p) : p \in patches}
  BY <1>6 DEF Stitch
<1>9. todo = {} /\ patches' = {} /\ UNCHANGED <<fields, methods, relations, pc, req, err>>
  BY <1>6 DEF Stitch, config
<1>10. \A p \in patches : /\ entry(p, missing).path = p.path
                          /\ entry(p, missing).field = relationField(configOf(p))
                          /\ entry(p, missing).missing = (p \in missing)
  BY DEF formatted
<1> HIDE DEF entry, child
<1>11. \A v \in todo' : \E p \in patches \ missing : v = child(p) /\ hasFields(v.pool, v.type)
  BY <1>7 DEF normal
<1>12. \A p \in patches \ missing : hasFields(child(p).pool, child(p).type) => child(p) \in todo'
  BY <1>7 DEF normal
<1>13. \A v \in todo' : v \in reached(r) /\ hasFields(v.pool, v.type)
  BY <1>6, <1>11
<1>14. \A p \in patches' : p \in asked(r) /\ isRelation(p)
  BY <1>9
<1>15. ASSUME NEW e \in response'
       PROVE  \E a \in asked(r) : e.path = a.path /\ e.field = descriptorOf(a)
  <2>1. CASE e \in response
    BY <1>3, <2>1 DEF AnswersTo
  <2>2. ASSUME NEW p \in patches, e = entry(p, missing)
        PROVE  \E b \in asked(r) : e.path = b.path /\ e.field = descriptorOf(b)
    BY <1>6, <1>10, <2>2
  <2> QED BY <1>7, <2>1, <2>2
<1>16. ASSUME NEW a \in asked(r)
       PROVE  \/ \E e \in response' : e.path = a.path \/ (e.missing /\ Under(e.path, a.path))
              \/ \E p \in patches' : Under(p.path, a.path)
              \/ \E v \in todo' : Under(v.path, a.path) /\ Len(v.path) < Len(a.path)
  <2>1. Stands(a)
    BY <1>3 DEF AnswersTo
  <2>2. response \subseteq response'
    BY <1>7
  <2>3. ASSUME NEW c \in patches, Under(c.path, a.path)
        PROVE  \/ \E e \in response' : e.path = a.path \/ (e.missing /\ Under(e.path, a.path))
               \/ \E w \in todo' : Under(w.path, a.path) /\ Len(w.path) < Len(a.path)
    <3>1. entry(c, missing) \in response'
      BY <1>7
    <3>2. CASE c.path = a.path
      BY <1>10, <3>1, <3>2
    <3>3. CASE c \in missing
      <4>1. entry(c, missing).missing
        BY <1>10, <3>3
      <4>2. Under(entry(c, missing).path, a.path)
        BY <1>10, <2>3
      <4> QED BY <3>1, <4>1, <4>2
    <3>4. CASE c.path # a.path /\ c \notin missing
      <4>1. /\ hasFields(Child(c).pool, Child(c).type)
            /\ Under(Child(c).path, a.path) /\ Len(Child(c).path) < Len(a.path)
        BY <1>5, <1>6, <2>3, <3>4
      <4>2. Child(c) \in todo'
        BY <1>6, <1>12, <3>4, <4>1
      <4> QED BY <4>1, <4>2
    <3> QED BY <3>2, <3>3, <3>4
  <2> QED BY <1>9, <2>1, <2>2, <2>3 DEF Stands
<1>17. called' \subseteq {relations[k] : k \in DOMAIN relations}
  BY <1>3, <1>6, <1>8 DEF AnswersTo
<1>18. AnswersTo(r)'
  BY <1>9, <1>13, <1>14, <1>15, <1>16, <1>17, AnswersNext
<1>19. Taken(q, r)'
  BY <1>3, <1>9, <1>18, TakenNext
<1>20. Registered(methods, relations)'
  BY <1>9, RegisteredStays DEF Inv
<1>21. req' = q /\ req' # Nil
  BY <1>1, <1>2, <1>9
<1>22. fields' \in Descriptors /\ err' = Nil /\ pc' = "serving"
  BY <1>1, <1>9 DEF Inv
<1> QED BY <1>19, <1>20, <1>21, <1>22 DEF Inv

(* A request is handled or refused.                                        *)
LEMMA HandleKeepsInv ==
    ASSUME Inv, NEW q \in Requests, Handle(q)
    PROVE  Inv'
<1>1. /\ UNCHANGED <<fields, methods, relations, pc, patches, response, called, err>>
      /\ pc = "serving" /\ req = Nil
  BY DEF Handle, config
<1>2. Registered(methods, relations)'
  BY <1>1, RegisteredStays DEF Inv
<1>3. CASE ~accepted(q)
  <2>1. req' = Nil /\ todo' = todo
    BY <1>1, <1>3 DEF Handle
  <2> QED BY <1>1, <1>2, <2>1 DEF Inv
<1>4. CASE accepted(q)
  <2>1. PICK r : r = output(q)
    OBVIOUS
  <2>2. req' = q /\ todo' = normal({r})
    BY <1>4, <2>1 DEF Handle
  <2>3. q # Nil /\ Bounded(q.mask)
    BY RequestsAssumption DEF Bounded
  <2>4. r \in reached(r)
    <3>1. r \in within(r)[0]
      BY WithinOneMore
    <3> QED BY <3>1, MetStaysMet, RequestsAssumption
  <2>5. \A v \in todo' : v \in reached(r) /\ hasFields(v.pool, v.type)
    BY <2>2, <2>4 DEF normal
  <2>6. patches' = {} /\ response' = {} /\ called' = {} /\ err' = Nil
    BY <1>1 DEF Inv
  <2>7. ASSUME NEW a \in asked(r)
        PROVE  \E v \in todo' : Under(v.path, a.path) /\ Len(v.path) < Len(a.path)
    <3>1. hasFields(r.pool, r.type) /\ Under(r.path, a.path) /\ Len(r.path) < Len(a.path)
      BY <1>4, <2>1, <2>3, StartsAt
    <3>2. r \in todo'
      BY <2>2, <3>1 DEF normal
    <3> QED BY <3>1, <3>2
  <2>8. AnswersTo(r)'
    BY <1>1, <2>5, <2>6, <2>7, AnswersNext
  <2>9. Taken(q, r)'
    BY <1>1, <1>4, <2>1, <2>3, <2>8, TakenNext
  <2> QED BY <1>1, <1>2, <2>2, <2>3, <2>6, <2>9 DEF Inv
<1> QED BY <1>3, <1>4

(* Init and every step keep the invariant.                                 *)
LEMMA InvHolds == Spec => []Inv
<1>1. Init => Inv
  BY DEF Init, Inv, Registered
<1>2. Inv /\ [Next]_vars => Inv'
  <2> SUFFICES ASSUME Inv, [Next]_vars PROVE Inv'
    OBVIOUS
  <2>1. ASSUME NEW svc \in DOMAIN Services, NEW byName \in BOOLEAN, NEW opts \in Options,
               AddService(svc, byName, opts)
        PROVE  Inv'
    <3>1. Registered(methods', relations')
      BY <2>1, AddServiceKeepsOrder DEF Inv, AddService
    <3>2. UNCHANGED <<fields, pc, req, todo, patches, response, called, err>> /\ pc = "config"
      BY <2>1 DEF AddService, answering
    <3>3. Registered(methods, relations)'
      BY <3>1, <3>2, RegisteredStays
    <3>4. req = Nil
      BY <3>2 DEF Inv
    <3> QED BY <3>2, <3>3, <3>4 DEF Inv
  <2>2. CASE AsHandler
    <3>1. /\ UNCHANGED <<fields, methods, relations, req, todo, patches, response, called, err>>
          /\ pc' = "serving" /\ req = Nil
      BY <2>2 DEF AsHandler, answering, Inv
    <3>2. Registered(methods, relations)'
      BY <3>1, RegisteredStays DEF Inv
    <3> QED BY <3>1, <3>2 DEF Inv
  <2>3. ASSUME NEW q \in Requests, Handle(q) PROVE Inv'
    BY <2>3, HandleKeepsInv
  <2>4. CASE Format
    BY <2>4, FormatKeepsInv
  <2>5. CASE Stitch
    BY <2>5, StitchKeepsInv
  <2>6. CASE Answer
    <3>1. /\ UNCHANGED <<fields, methods, relations, pc>> /\ req' = Nil /\ err' = Nil
          /\ todo' = {} /\ patches' = {} /\ response' = {} /\ called' = {}
      BY <2>6 DEF Answer, config
    <3>2. Registered(methods, relations)'
      BY <3>1, RegisteredStays DEF Inv
    <3> QED BY <3>1, <3>2 DEF Inv
  <2>7. CASE UNCHANGED vars
    <3>1. UNCHANGED <<fields, methods, relations, pc, req, todo, patches, response, called, err>>
      BY <2>7 DEF vars, config, answering
    <3>2. Registered(methods, relations)'
      BY <3>1, RegisteredStays DEF Inv
    <3>3. CASE req = Nil
      BY <3>1, <3>2, <3>3 DEF Inv
    <3>4. CASE req # Nil
      <4>1. PICK q, r : q = req /\ Taken(q, r)
        BY <3>4 DEF Inv
      <4>2. AnswersTo(r) /\ accepted(q) /\ Bounded(q.mask) /\ r = output(q)
        BY <4>1 DEF Taken
      <4>3. AnswersTo(r)'
        BY <3>1, <4>2, AnswersNext DEF AnswersTo, Stands
      <4>4. Taken(q, r)'
        BY <3>1, <4>2, <4>3, TakenNext
      <4> QED BY <3>1, <3>2, <3>4, <4>1, <4>4 DEF Inv
    <3> QED BY <3>3, <3>4
  <2> QED BY <2>1, <2>2, <2>3, <2>4, <2>5, <2>6, <2>7 DEF Next, Configure
<1> QED BY <1>1, <1>2, PTL DEF Spec

-----------------------------------------------------------------------------
(* What is accepted can be answered.                                       *)

(* stitch never meets a relation it does not know: formatting goes through *)
(* a mask by the fields it finds, and takes what is no field for a         *)
(* relation; validation went through it by descriptors, and refused every  *)
(* mask that names, at any depth, what is neither.                         *)
THEOREM AcceptedIsAnswerableHolds == Spec => []AcceptedIsAnswerable
<1>1. Inv => AcceptedIsAnswerable
  BY DEF Inv, AcceptedIsAnswerable
<1> QED BY <1>1, InvHolds, PTL

(* A Fetch calls nothing with side effects: neither the method it names    *)
(* nor a resolver in any round, whatever services were added, and however  *)
(* far adding those got that were refused.                                 *)
THEOREM FetchIsSafeHolds == Spec => []FetchIsSafe
<1>1. Inv => FetchIsSafe
  <2> SUFFICES ASSUME Inv, req # Nil
               PROVE  /\ req.op = "Fetch" => ~methodOf(req.method).sideEffects
                      /\ \A m \in called : ~m.sideEffects /\ kindOf(m) = "unary"
    BY DEF FetchIsSafe
  <2>1. PICK q, r : q = req /\ Taken(q, r)
    BY DEF Inv
  <2>2. accepted(q) /\ called \subseteq {relations[k] : k \in DOMAIN relations}
    BY <2>1 DEF Taken, AnswersTo
  <2>3. req.op = "Fetch" => ~methodOf(req.method).sideEffects
    BY <2>1, <2>2 DEF accepted
  <2>4. ASSUME NEW m \in called PROVE ~m.sideEffects /\ kindOf(m) = "unary"
    <3>1. PICK k \in DOMAIN relations : m = relations[k]
      BY <2>2
    <3> QED BY <3>1 DEF Inv, Registered, Resolves
  <2> QED BY <2>3, <2>4
<1> QED BY <1>1, InvHolds, PTL

(* The response is read by its schema.  Every field was formatted by the   *)
(* descriptor that the schema has its type from, and a mask that is valid  *)
(* has one name for a path.  Names are told by their camel case where that *)
(* tells fields apart.  And whatever was asked for has been formatted, or  *)
(* something that it is in is missing, once nothing is on the way.         *)
THEOREM ResponseFitsSchemaHolds == Spec => []ResponseFitsSchema
<1>1. Inv => ResponseFitsSchema
  <2> SUFFICES ASSUME Inv, req # Nil PROVE ResponseFitsSchema
    BY DEF ResponseFitsSchema
  <2>1. PICK q, r : q = req /\ Taken(q, r)
    BY DEF Inv
  <2>2. AnswersTo(r) /\ r = output(req)
    BY <2>1 DEF Taken
  <2>3. r.path = << >> /\ Bounded(r.mask) /\ computeSchema(r)
    BY <2>1, TakenIsValid
  <2> DEFINE camel(path) == [k \in DOMAIN path |-> camelCase(path[k])]
             shown(a) == [path |-> a.path, names |-> camel(a.path),
                          type |-> computeFieldType(descriptorOf(a))]
             schema == schemaOf(r)
  <2>4. schema = {shown(a) : a \in asked(r)}
    BY DEF schemaOf, schemaName
  <2>5. \A a : /\ shown(a).path = a.path /\ shown(a).names = camel(a.path)
               /\ shown(a).type = computeFieldType(descriptorOf(a))
    OBVIOUS
  <2> HIDE DEF shown, schema
  <2>6. ASSUME NEW e \in response
        PROVE  /\ \E s \in schema : s.path = e.path /\ s.names = camel(e.path)
               /\ \A s \in schema :
                     s.path = e.path \/ (s.names = camel(e.path) /\ CamelCaseTells)
                     => s.type = computeFieldType(e.field)
    <3>1. PICK a \in asked(r) : e.path = a.path /\ e.field = descriptorOf(a)
      BY <2>2 DEF AnswersTo
    <3>2. shown(a) \in schema /\ shown(a).path = e.path /\ shown(a).names = camel(e.path)
      BY <2>4, <2>5, <3>1
    <3>3. ASSUME NEW s \in schema, s.path = e.path \/ (s.names = camel(e.path) /\ CamelCaseTells)
          PROVE  s.type = computeFieldType(e.field)
      <4>1. PICK b \in asked(r) : s = shown(b)
        BY <2>4
      <4>2. s.path = b.path /\ s.names = camel(b.path) /\ s.type = computeFieldType(descriptorOf(b))
        BY <2>5, <4>1
      <4>3. CASE s.path = e.path
        <5>1. a = b
          BY <2>3, <3>1, <4>2, <4>3, PathsLeadToOneName
        <5> QED BY <3>1, <4>2, <5>1
      <4>4. CASE s.names = camel(e.path) /\ CamelCaseTells
        <5>1. IsSeq(a.path) /\ IsSeq(b.path)
          <6>1. PICK u \in reached(r) : a \in asks(u)
            BY AskedOfOne
          <6>2. PICK v \in reached(r) : b \in asks(v)
            BY AskedOfOne
          <6> QED BY <2>3, <6>1, <6>2, PathOfName
        <5>2. camel(a.path) = camel(b.path)
          BY <3>1, <4>2, <4>4
        <5>3. SameNames(a.path, b.path)
          <6> DEFINE p == a.path  t == b.path
          <6>1. IsSeq(p) /\ IsSeq(t) /\ camel(p) = camel(t)
            BY <5>1, <5>2
          <6> HIDE DEF p, t
          <6>2. DOMAIN p = DOMAIN t /\ \A k \in DOMAIN p : camelCase(p[k]) = camelCase(t[k])
            <7>1. DOMAIN camel(p) = DOMAIN p /\ DOMAIN camel(t) = DOMAIN t
              OBVIOUS
            <7>2. DOMAIN p = DOMAIN t
              BY <6>1, <7>1
            <7>3. ASSUME NEW k \in DOMAIN p PROVE camelCase(p[k]) = camelCase(t[k])
              <8>1. camel(p)[k] = camelCase(p[k]) /\ camel(t)[k] = camelCase(t[k])
                BY <7>2
              <8> QED BY <6>1, <8>1
            <7> QED BY <7>2, <7>3
          <6>3. DOMAIN p = 1 .. Len(p) /\ DOMAIN t = 1 .. Len(t) /\ Len(p) \in Nat /\ Len(t) \in Nat
            BY <6>1, LenProperties DEF IsSeq
          <6>4. Len(p) = Len(t)
            <7> DEFINE x == Len(p)  y == Len(t)
            <7>1. 1 .. x = 1 .. y /\ x \in Nat /\ y \in Nat
              BY <6>2, <6>3
            <7> HIDE DEF x, y
            <7>2. x < y => y \in 1 .. y /\ y \notin 1 .. x
              BY <7>1
            <7>3. y < x => x \in 1 .. x /\ x \notin 1 .. y
              BY <7>1
            <7>4. x = y
              BY <7>1, <7>2, <7>3
            <7> QED BY <7>4 DEF x, y
          <6>5. SameNames(p, t)
            BY <6>2, <6>3, <6>4 DEF SameNames
          <6> QED BY <6>5 DEF p, t
        <5>4. descriptorOf(a) = descriptorOf(b)
          BY <2>3, <4>4, <5>3, NamesLeadToOneDescriptor DEF Inv
        <5> QED BY <3>1, <4>2, <5>4
      <4> QED BY <3>3, <4>3, <4>4
    <3> QED BY <3>2, <3>3
  <2>7. ASSUME todo = {}, patches = {}, NEW s \in schema
        PROVE  \E e \in response : e.path = s.path \/ (e.missing /\ IsPrefix(e.path, s.path))
    <3>1. PICK a \in asked(r) : s = shown(a)
      BY <2>4
    <3>2. s.path = a.path
      BY <2>5, <3>1
    <3>3. PICK e \in response : e.path = a.path \/ (e.missing /\ Under(e.path, a.path))
      BY <2>2, <2>7 DEF AnswersTo, Stands
    <3>4. PICK b \in asked(r) : e.path = b.path
      BY <2>2 DEF AnswersTo
    <3>5. IsSeq(e.path) /\ IsSeq(a.path)
      <4>1. PICK u \in reached(r) : a \in asks(u)
        BY AskedOfOne
      <4>2. PICK v \in reached(r) : b \in asks(v)
        BY AskedOfOne
      <4> QED BY <2>3, <3>4, <4>1, <4>2, PathOfName
    <3>6. Under(e.path, a.path) => IsPrefix(e.path, a.path)
      BY <3>5, UnderIsPrefix
    <3>7. CASE e.path = a.path
      BY <3>2, <3>7
    <3>8. CASE e.missing /\ Under(e.path, a.path)
      BY <3>2, <3>6, <3>8
    <3> QED BY <3>3, <3>7, <3>8
  <2> QED BY <2>2, <2>6, <2>7 DEF ResponseFitsSchema, schema
<1> QED BY <1>1, InvHolds, PTL

(* The admin pages list a method under an operation that accepts it, and   *)
(* leave out only methods that every operation refuses: a method is found  *)
(* by its name, as no other is registered under it.                        *)
THEOREM ListedAsAcceptedHolds == Spec => []ListedAsAccepted
<1>1. Inv => ListedAsAccepted
  <2> SUFFICES ASSUME Inv, NEW m \in methods
               PROVE  LET takes(op) == accepted([op |-> op, method |-> m.name, mask |-> << >>])
                      IN  IF listed(m) # Nil THEN takes(listed(m))
                          ELSE \A op \in {"Fetch", "Do", "Listen"} : ~takes(op)
    BY DEF ListedAsAccepted
  <2> DEFINE takes(op) == accepted([op |-> op, method |-> m.name, mask |-> << >>])
  <2>1. methodOf(m.name) = m
    BY DEF methodOf, Inv, Registered
  <2>2. ASSUME NEW op
        PROVE  computeSchema(output([op |-> op, method |-> m.name, mask |-> << >>]))
    <3> DEFINE r == output([op |-> op, method |-> m.name, mask |-> << >>])
    <3>1. r.mask = << >>
      BY DEF output, message
    <3> HIDE DEF r
    <3>2. reached(r) = {r}
      BY <3>1, NothingAsked
    <3>3. validMask(r)
      BY <3>1 DEF validMask, asks, namesIn
    <3>4. computeSchema(r)
      BY <3>2, <3>3 DEF computeSchema
    <3> QED BY <3>4 DEF r
  <2>3. ASSUME NEW op
        PROVE  takes(op) <=> /\ kindOf(m) = IF op = "Listen" THEN "server stream" ELSE "unary"
                             /\ op = "Fetch" => ~m.sideEffects
    BY <2>1, <2>2 DEF accepted
  <2>4. Method(m)
    BY DEF Inv, Registered
  <2> HIDE DEF takes
  <2>5. Nil \notin {"Fetch", "Do", "Listen"}
    BY RequestsAssumption
  <2>6. CASE m.clientStreams
    <3>1. listed(m) = Nil
      BY <2>6 DEF listed
    <3>2. kindOf(m) \notin {"server stream", "unary"}
      BY <2>4, <2>6 DEF kindOf, Method
    <3> QED BY <2>3, <3>1, <3>2 DEF takes
  <2>7. CASE ~m.clientStreams /\ m.serverStreams
    <3>1. listed(m) = "Listen" /\ kindOf(m) = "server stream"
      BY <2>4, <2>7 DEF listed, kindOf, Method
    <3> QED BY <2>3, <2>5, <3>1 DEF takes
  <2>8. CASE ~m.clientStreams /\ ~m.serverStreams
    <3>1. kindOf(m) = "unary"
      BY <2>8 DEF kindOf
    <3>2. listed(m) = IF m.sideEffects THEN "Do" ELSE "Fetch"
      BY <2>4, <2>8 DEF listed, Method
    <3> QED BY <2>3, <2>5, <3>1, <3>2 DEF takes
  <2> QED BY <2>4, <2>6, <2>7, <2>8 DEF Method
<1> QED BY <1>1, InvHolds, PTL

(* The camel case of a field's name finds a field of that camel case, and  *)
(* a relation hides a field only if the version of the message that its    *)
(* service has is without it.                                              *)
THEOREM EveryFieldSelectableHolds == Spec => []EveryFieldSelectable
<1>1. Inv => EveryFieldSelectable
  <2> SUFFICES ASSUME Inv, NEW p \in DOMAIN fields, NEW m \in DOMAIN fields[p],
                      NEW i \in DOMAIN fields[p][m]
               PROVE  LET name  == camelCase(fields[p][m][i].name)
                          found == fieldWithCamelCaseName(fields[p][m], name)
                      IN  /\ found # 0 /\ camelCase(fields[p][m][found].name) = name
                          /\ <<m, name>> \in DOMAIN relations =>
                                LET theirs == fields[relations[<<m, name>>].pool][m]
                                IN  \A k \in DOMAIN theirs : camelCase(theirs[k].name) # name
    BY DEF EveryFieldSelectable
  <2> DEFINE F == fields[p][m]
             name == camelCase(F[i].name)
             found == fieldWithCamelCaseName(F, name)
  <2>0. fields \in Descriptors /\ hasFields(p, m)
    BY DEF Inv, hasFields
  <2>1. F \in Seq(ToSet(F)) /\ \A k \in DOMAIN F : F[k].name \in Seq(STRING)
    BY <2>0, FieldsOfMessage
  <2>2. name \in Seq(Chars) /\ camelCase(name) = name
    BY <2>1, CamelHasNoUnderscore, CamelOfCamel, NamesHaveChars DEF NoUnderscore
  <2>3. found # 0 /\ camelCase(F[found].name) = name
    <3>1. /\ found # 0 => found \in DOMAIN F /\ camelCase(F[found].name) = camelCase(name)
          /\ (\E k \in DOMAIN F : camelCase(F[k].name) = name) => found # 0
      <4> HIDE DEF F
      <4>1. /\ F \in Seq(ToSet(F)) /\ \A k \in DOMAIN F : F[k].name \in Seq(STRING)
            /\ name \in Seq(Chars)
        BY <2>1, <2>2
      <4> HIDE DEF name
      <4> QED BY <4>1, FoundByName
    <3>2. \E k \in DOMAIN F : camelCase(F[k].name) = name
      OBVIOUS
    <3> QED BY <2>2, <3>1, <3>2
  <2>4. ASSUME <<m, name>> \in DOMAIN relations
        PROVE  LET theirs == fields[relations[<<m, name>>].pool][m]
               IN  \A k \in DOMAIN theirs : camelCase(theirs[k].name) # name
    <3> HIDE DEF name
    <3> DEFINE r == relations[<<m, name>>]
               G == fields[r.pool][m]
    <3>1. Resolves(r, <<m, name>>)
      BY <2>4 DEF Inv, Registered
    <3>2. hasFields(r.pool, m) /\ fieldWithCamelCaseName(G, name) = 0
      BY <3>1 DEF Resolves
    <3>3. G \in Seq(ToSet(G)) /\ \A k \in DOMAIN G : G[k].name \in Seq(STRING)
      BY <2>0, <3>2, FieldsOfMessage
    <3> HIDE DEF G
    <3>4. name \in Seq(Chars)
      BY <2>2
    <3>5. \A k \in DOMAIN G : camelCase(G[k].name) # name
      BY <3>2, <3>3, <3>4, FoundByName
    <3> QED BY <3>5 DEF G
  <2> QED BY <2>3, <2>4 DEF F, name, found
<1> QED BY <1>1, InvHolds, PTL

-----------------------------------------------------------------------------
(* Values in JSON.                                                         *)

(* Numbers that a double has exactly.                                      *)
LEMMA ExactNumbers ==
    ASSUME NEW x \in Int, abs(x) <= 2 ^ Mantissa
    PROVE  float64(x) = x /\ asDuration(x) = x
<1> DEFINE m == 2 ^ Mantissa
           d == 2 ^ (Bits64 - 1)
<1>1. m \in Nat /\ d \in Nat /\ m < d
  BY ValuesAssumption
<1>2. abs(x) <= m
  OBVIOUS
<1>3. float64(x) = x
  BY DEF float64
<1> HIDE DEF m, d
<1>4. -d <= x /\ x < d
  BY <1>1, <1>2 DEF abs
<1>5. asDuration(x) = IF x >= d THEN d - 1 ELSE IF x < -d THEN -d ELSE x
  BY DEF asDuration, d
<1> QED BY <1>1, <1>3, <1>4, <1>5

(* Numbers of 32 bits are among them.                                      *)
LEMMA SmallNumbers ==
    ASSUME NEW kind \in int32Kinds \cup uint32Kinds \cup {"enum"}, NEW x, scalarValue(kind, x)
    PROVE  x \in Int /\ float64(x) = x
<1> DEFINE a == 2 ^ (Bits32 - 1)
           b == 2 ^ Bits32
           m == 2 ^ Mantissa
<1>1. a \in Nat /\ b \in Nat /\ m \in Nat /\ a < b /\ b < m
  BY ValuesAssumption
<1>2. x \in -a .. a - 1 \/ x \in 0 .. b - 1
  BY DEF scalarValue, int32Kinds, uint32Kinds, int64Kinds, uint64Kinds
<1> HIDE DEF a, b, m
<1>3. x \in Int /\ abs(x) <= m
  BY <1>1, <1>2 DEF abs
<1> QED BY <1>3, ExactNumbers DEF m

(* A scalar is read as it was, and its JSON is no struct.                  *)
LEMMA ScalarRead ==
    ASSUME NEW kind \in scalarKinds, NEW x, scalarValue(kind, x)
    PROVE  /\ (kind = "NullValue" => x = 0) =>
                 readScalar(computeScalarFieldType(kind), formatScalar(kind, x)) = x
           /\ formatScalar(kind, x)[1] # "struct"
<1> USE DEF int32Kinds, uint32Kinds, int64Kinds, uint64Kinds
<1>1. CASE kind \in int32Kinds \cup uint32Kinds
  <2>1. formatScalar(kind, x) = number(x)
    BY <1>1, SmallNumbers DEF formatScalar
  <2>2. computeScalarFieldType(kind) \in {"INT32", "UINT32"}
    BY <1>1 DEF computeScalarFieldType
  <2> QED BY <2>1, <2>2 DEF readScalar, number
<1>2. CASE kind \in int64Kinds \cup uint64Kinds
  <2>1. formatScalar(kind, x) = string(<<"dec", x>>)
    BY <1>2 DEF formatScalar, formatInt64
  <2>2. computeScalarFieldType(kind) \in {"INT64", "UINT64"}
    BY <1>2 DEF computeScalarFieldType
  <2> QED BY <2>1, <2>2 DEF readScalar, string
<1>3. CASE kind \in {"float", "double"}
  <2>1. formatScalar(kind, x) = formatFloat(x)
    BY <1>3 DEF formatScalar
  <2>2. computeScalarFieldType(kind) \in {"FLOAT", "DOUBLE"}
    BY <1>3 DEF computeScalarFieldType
  <2>3. IF x[1] = "num" THEN x = <<"num", x[2]>> ELSE x = <<x[1]>>
    BY <1>3 DEF scalarValue
  <2> QED BY <2>1, <2>2, <2>3 DEF readScalar, formatFloat, number, text, string
<1>4. CASE kind = "bool"
  <2>1. formatScalar(kind, x) = boolean(x)
    BY <1>4 DEF formatScalar
  <2>2. computeScalarFieldType(kind) = "BOOL"
    BY <1>4 DEF computeScalarFieldType
  <2> QED BY <2>1, <2>2 DEF readScalar, boolean
<1>5. CASE kind \in {"string", "bytes"}
  <2>1. formatScalar(kind, x) = IF kind = "string" THEN text(x) ELSE string(<<"b64", x>>)
    BY <1>5 DEF formatScalar
  <2>2. computeScalarFieldType(kind) = IF kind = "string" THEN "STRING" ELSE "BYTES"
    BY <1>5 DEF computeScalarFieldType
  <2> QED BY <1>5, <2>1, <2>2 DEF readScalar, text, string
<1>6. CASE kind = "NullValue"
  <2>1. formatScalar(kind, x) = null
    BY <1>6 DEF formatScalar
  <2>2. computeScalarFieldType(kind) = "NULL"
    BY <1>6 DEF computeScalarFieldType
  <2> QED BY <1>6, <2>1, <2>2 DEF readScalar, null
<1>7. CASE kind = "enum"
  <2>1. formatScalar(kind, x) = IF x \in DOMAIN EnumNames THEN text(EnumNames[x]) ELSE number(x)
    BY <1>7, SmallNumbers DEF formatScalar
  <2>2. computeScalarFieldType(kind) = "ENUM"
    BY <1>7 DEF computeScalarFieldType
  <2>3. CASE x \in DOMAIN EnumNames
    <3>1. (CHOOSE n \in DOMAIN EnumNames : EnumNames[n] = EnumNames[x]) = x
      BY <2>3, ValuesAssumption
    <3> QED BY <1>7, <2>1, <2>2, <2>3, <3>1 DEF readScalar, text, string
  <2>4. CASE x \notin DOMAIN EnumNames
    BY <1>7, <2>1, <2>2, <2>4 DEF readScalar, number
  <2> QED BY <2>3, <2>4
<1> QED BY <1>1, <1>2, <1>3, <1>4, <1>5, <1>6, <1>7 DEF scalarKinds

(* So is what a well-known type holds, unless it is an Any; and the JSON   *)
(* is a struct only where it may have any names.                           *)
LEMMA SimpleRead ==
    ASSUME NEW type \in wellKnownTypes \ {"Any"}, NEW x, simpleValue(type, x)
    PROVE  /\ tellingSimple(type, x) => readSimple(type, formatSimple(type, x)) = x
           /\ type \notin {"Struct", "Value"} => formatSimple(type, x)[1] # "struct"
<1>1. CASE type \in DOMAIN wrapped
  <2> DEFINE kind == wrapped[type]
  <2>1. kind \in scalarKinds \ {"NullValue"}
    BY <1>1 DEF wrapped, scalarKinds, int32Kinds, uint32Kinds, int64Kinds, uint64Kinds
  <2>2. formatSimple(type, x) = formatScalar(kind, x)
    BY <1>1 DEF formatSimple, wrapped
  <2>3. scalarValue(kind, x)
    BY <1>1 DEF simpleValue, wrapped
  <2>4. \A js : readSimple(type, js) = readScalar(computeScalarFieldType(kind), js)
    BY <1>1 DEF readSimple, wrapped
  <2> HIDE DEF kind
  <2> QED BY <2>1, <2>2, <2>3, <2>4, ScalarRead
<1>2. CASE type = "FieldMask"
  <2> DEFINE camel == [i \in DOMAIN x |-> [k \in DOMAIN x[i] |-> camelCase(x[i][k])]]
             back == [i \in DOMAIN camel |-> [k \in DOMAIN camel[i] |-> snakeCase(camel[i][k])]]
  <2>1. formatSimple(type, x) = <<"string", <<"paths", camel>>>>
    BY <1>2 DEF formatSimple, wrapped, formatFieldMask, string
  <2>2. isFunction(x) /\ \A i \in DOMAIN x : isFunction(x[i])
    BY <1>2 DEF simpleValue, wrapped
  <2>3. ASSUME tellingSimple(type, x) PROVE back = x
    <3>1. \A i \in DOMAIN x : \A k \in DOMAIN x[i] : snakeCase(camelCase(x[i][k])) = x[i][k]
      BY <1>2, <2>3 DEF tellingSimple
    <3>2. ASSUME NEW i \in DOMAIN x PROVE back[i] = x[i]
      <4>1. back[i] = [k \in DOMAIN x[i] |-> snakeCase(camelCase(x[i][k]))]
        OBVIOUS
      <4>2. back[i] = [k \in DOMAIN x[i] |-> x[i][k]]
        BY <3>1, <4>1
      <4> QED BY <2>2, <4>2 DEF isFunction
    <3>3. back = [i \in DOMAIN x |-> back[i]]
      OBVIOUS
    <3> HIDE DEF back
    <3> QED BY <2>2, <3>2, <3>3 DEF isFunction
  <2>4. readSimple(type, formatSimple(type, x)) = back
    <3> HIDE DEF camel
    <3> QED BY <1>2, <2>1 DEF readSimple, wrapped
  <2> HIDE DEF back, camel
  <2> QED BY <2>1, <2>3, <2>4
<1>3. CASE type = "Timestamp"
  BY <1>3 DEF formatSimple, readSimple, wrapped, string
<1>4. CASE type = "Duration"
  <2>1. formatSimple(type, x) = string(<<"secs", float64(asDuration(x))>>)
    BY <1>4 DEF formatSimple, wrapped
  <2>2. x \in Int
    BY <1>4 DEF simpleValue, wrapped
  <2>3. tellingSimple(type, x) => float64(asDuration(x)) = x
    BY <1>4, <2>2, ExactNumbers DEF tellingSimple
  <2> QED BY <1>4, <2>1, <2>3 DEF readSimple, wrapped, string
<1>5. CASE type \in {"Value", "ListValue", "Struct"}
  BY <1>5 DEF formatSimple, readSimple, wrapped, list, struct
<1> QED BY <1>1, <1>2, <1>3, <1>4, <1>5 DEF wellKnownTypes, wrapped

(* An Any is read as it was.                                               *)
LEMMA AnyRead ==
    ASSUME NEW x, isValue("Any", x), telling("Any", x)
    PROVE  readAny(formatAny(x)) = x
<1> DEFINE val == protojson(x)
           names == IF val[1] = "struct" THEN val[2] ELSE named([value |-> val])
           s == with(names, key("@type"), text(x[1]))
<1>1. x = <<x[1], x[2]>> /\ x[1] \notin {"Any", "Struct", "Value"}
  BY DEF isValue, telling
<1>2. val = messageJSON(x)
  BY <1>1 DEF protojson
<1>3. formatAny(x) = struct(s)
  BY DEF formatAny
<1> HIDE DEF val, names
<1>4. DOMAIN s = DOMAIN names \cup {key("@type")} /\ s[key("@type")] = text(x[1])
      /\ \A n \in DOMAIN names \ {key("@type")} : s[n] = names[n]
  BY DEF with
<1> HIDE DEF s
<1>5. readAny(formatAny(x)) =
          <<x[1], IF x[1] \in wellKnownTypes THEN readSimple(x[1], s[key("value")])
                  ELSE [k \in DOMAIN s \ {key("@type")} |-> s[k]]>>
  BY <1>3, <1>4 DEF readAny, struct, text, string
<1>6. CASE x[1] \in wellKnownTypes
  <2>1. simpleValue(x[1], x[2])
    BY <1>6 DEF isValue
  <2>2. val[1] # "struct" /\ readSimple(x[1], val) = x[2]
    <3>1. CASE x[1] = "Duration"
      <4>1. val = string(<<"secs", x[2]>>)
        BY <1>2, <3>1 DEF messageJSON
      <4>2. readSimple("Duration", val) = val[2][2]
        BY DEF readSimple, wrapped
      <4> QED BY <3>1, <4>1, <4>2 DEF string
    <3>2. CASE x[1] # "Duration"
      <4>1. val = formatSimple(x[1], x[2])
        BY <1>2, <1>6, <3>2 DEF messageJSON
      <4>2. tellingSimple(x[1], x[2])
        <5>1. CASE x[1] = "FieldMask"
          BY <5>1 DEF telling
        <5>2. CASE x[1] # "FieldMask"
          <6>1. x[1] # "NullValue"
            BY <1>6 DEF wellKnownTypes
          <6> QED BY <3>2, <5>2, <6>1 DEF tellingSimple
        <5> QED BY <5>1, <5>2
      <4> QED BY <1>1, <1>6, <2>1, <4>1, <4>2, SimpleRead
    <3> QED BY <3>1, <3>2
  <2>3. names = named([value |-> val])
    BY <2>2 DEF names
  <2>4. DOMAIN names = {key("value")} /\ names[key("value")] = val
    BY <2>3 DEF named, key
  <2>5. s[key("value")] = val
    BY <1>4, <2>4 DEF key
  <2> QED BY <1>1, <1>5, <1>6, <2>2, <2>5
<1>7. CASE x[1] \notin wellKnownTypes
  <2>1. isFunction(x[2]) /\ key("@type") \notin DOMAIN x[2]
    BY <1>7 DEF isValue
  <2>2. val = struct(x[2])
    <3>1. x[1] # "Duration"
      BY <1>7 DEF wellKnownTypes
    <3> QED BY <1>2, <1>7, <3>1 DEF messageJSON
  <2>3. names = x[2]
    BY <2>2 DEF struct, names
  <2>4. [k \in DOMAIN s \ {key("@type")} |-> s[k]] = x[2]
    <3>1. DOMAIN s \ {key("@type")} = DOMAIN x[2] /\ \A k \in DOMAIN x[2] : s[k] = x[2][k]
      BY <1>4, <2>1, <2>3
    <3> QED BY <2>1, <3>1 DEF isFunction
  <2> QED BY <1>1, <1>5, <1>7, <2>4
<1> QED BY <1>6, <1>7

(* A value of a field, or of a list or a map, is read as it was.           *)
LEMMA ElemRead ==
    ASSUME NEW f, f.type \in scalarKinds \cup wellKnownTypes, NEW x, isValue(f.type, x)
    PROVE  LET js == formatSingularValue(f.type, x)
           IN  /\ telling(f.type, x) => readElem(computeFieldType(f).elem, js) = x
               /\ f.type \notin {"Struct", "Value", "Any"} => js[1] # "struct"
<1> DEFINE type == f.type
           js == formatSingularValue(type, x)
           elem == computeFieldType(f).elem
<1>1. CASE type \in scalarKinds
  <2>1. ~isMessage(type) /\ type # "Any"
    BY <1>1 DEF isMessage, scalarKinds, int32Kinds, uint32Kinds, int64Kinds, uint64Kinds
  <2>2. js = formatScalar(type, x) /\ elem = computeScalarFieldType(type)
    BY <2>1 DEF formatSingularValue, computeFieldType
  <2>3. scalarValue(type, x)
    BY <2>1 DEF isValue
  <2>4. computeScalarFieldType(type) \notin wellKnownTypes
    BY <1>1 DEF computeScalarFieldType, wellKnownTypes, scalarKinds, int32Kinds, uint32Kinds,
                int64Kinds, uint64Kinds
  <2>5. readElem(elem, js) = readScalar(computeScalarFieldType(type), js)
    BY <2>2, <2>4 DEF readElem
  <2>6. telling(type, x) => (type = "NullValue" => x = 0)
    BY <2>1 DEF telling, tellingSimple
  <2> HIDE DEF js, elem, type
  <2> QED BY <1>1, <2>2, <2>3, <2>5, <2>6, ScalarRead DEF js, elem, type
<1>2. CASE type \in wellKnownTypes
  <2>1. isMessage(type)
    BY <1>2 DEF isMessage, wellKnownTypes, scalarKinds, int32Kinds, uint32Kinds, int64Kinds, uint64Kinds
  <2>2. elem = type
    BY <2>1 DEF computeFieldType
  <2>3. CASE type = "Any"
    <3>1. js = formatAny(x)
      BY <2>1, <2>3 DEF formatSingularValue
    <3>2. readElem(elem, js) = readAny(js)
      BY <1>2, <2>2, <2>3 DEF readElem, readMessage
    <3>3. isValue("Any", x) /\ (telling(type, x) => telling("Any", x))
      BY <2>3
    <3> HIDE DEF js, elem
    <3> QED BY <2>3, <3>1, <3>2, <3>3, AnyRead DEF js, elem
  <2>4. CASE type # "Any"
    <3>1. js = formatSimple(type, x)
      BY <2>1, <2>4 DEF formatSingularValue
    <3>2. readElem(elem, js) = readSimple(type, js)
      BY <1>2, <2>2, <2>4 DEF readElem, readMessage
    <3>3. simpleValue(type, x) /\ (telling(type, x) => tellingSimple(type, x))
      BY <2>1, <2>4 DEF isValue, telling
    <3> HIDE DEF js, elem, type
    <3> QED BY <1>2, <2>4, <3>1, <3>2, <3>3, SimpleRead DEF js, elem, type
  <2> QED BY <2>3, <2>4
<1> QED BY <1>1, <1>2

(* A key of a map is read as it was, and is the marker of errors only      *)
(* where keys are strings.                                                 *)
LEMMA KeyRead ==
    ASSUME NEW kind \in mapKeyKinds, NEW k, isValue(kind, k)
    PROVE  /\ readKey(computeScalarFieldType(kind), formatMapKeyValue(kind, k)) = k
           /\ formatMapKeyValue(kind, k) = marker => computeScalarFieldType(kind) = "STRING"
<1> USE DEF int32Kinds, uint32Kinds, int64Kinds, uint64Kinds, mapKeyKinds
<1>1. CASE kind = "bool"
  <2>1. k \in BOOLEAN
    BY <1>1 DEF isValue, isMessage, scalarKinds, scalarValue
  <2>2. computeScalarFieldType(kind) = "BOOL"
    BY <1>1 DEF computeScalarFieldType
  <2>3. formatMapKeyValue(kind, k) = <<"text", IF k THEN "true" ELSE "false">>
    BY <1>1 DEF formatMapKeyValue
  <2>4. formatMapKeyValue(kind, k) # marker
    BY <2>3 DEF marker, key
  <2>5. readKey("BOOL", <<"text", "true">>) = TRUE /\ readKey("BOOL", <<"text", "false">>) = FALSE
    BY DEF readKey
  <2>6. CASE k = TRUE
    <3>1. formatMapKeyValue(kind, k) = <<"text", "true">>
      BY <2>3, <2>6, Zenon
    <3>2. readKey(computeScalarFieldType(kind), formatMapKeyValue(kind, k)) = TRUE
      BY <2>2, <2>5, <3>1, Zenon
    <3> QED BY <2>4, <2>6, <3>2, Zenon
  <2>7. CASE k = FALSE
    <3>1. formatMapKeyValue(kind, k) = <<"text", "false">>
      BY <2>3, <2>7, Zenon
    <3>2. readKey(computeScalarFieldType(kind), formatMapKeyValue(kind, k)) = FALSE
      BY <2>2, <2>5, <3>1, Zenon
    <3> QED BY <2>4, <2>7, <3>2, Zenon
  <2> QED BY <2>1, <2>6, <2>7, Zenon
<1>2. CASE kind = "string"
  <2>1. computeScalarFieldType(kind) = "STRING" /\ formatMapKeyValue(kind, k) = <<"text", k>>
    BY <1>2 DEF computeScalarFieldType, formatMapKeyValue
  <2> QED BY <2>1 DEF readKey
<1>3. CASE kind \notin {"bool", "string"}
  <2>1. formatMapKeyValue(kind, k) = <<"dec", k>>
    BY <1>3 DEF formatMapKeyValue
  <2>2. computeScalarFieldType(kind) # "BOOL"
    BY <1>3 DEF computeScalarFieldType
  <2> QED BY <2>1, <2>2 DEF readKey, marker, key
<1> QED BY <1>1, <1>2, <1>3

(* A map is read as it was, key by key, as no two keys are written alike.  *)
LEMMA MapRead ==
    ASSUME NEW f, f.card = "map", f.key \in mapKeyKinds, f.type \in scalarKinds \cup wellKnownTypes,
           NEW x, isFunction(x), \A k \in DOMAIN x : isValue(f.key, k) /\ isValue(f.type, x[k])
    PROVE  LET js == formatValue(f, x)
           IN  /\ (\A k \in DOMAIN x : telling(f.type, x[k])) => read(computeFieldType(f), js) = x
               /\ marker \in DOMAIN js[2] => computeFieldType(f).key = "STRING"
<1> DEFINE str(k) == formatMapKeyValue(f.key, k)
           back(s) == readKey(computeScalarFieldType(f.key), s)
           fmt(v) == formatSingularValue(f.type, v)
           elem(j) == readElem(computeFieldType(f).elem, j)
           obj == [s \in {str(k) : k \in DOMAIN x} |-> fmt(x[CHOOSE k \in DOMAIN x : str(k) = s])]
           map == [k \in {back(s) : s \in DOMAIN obj} |->
                      elem(obj[CHOOSE s \in DOMAIN obj : back(s) = k])]
           ks == computeScalarFieldType(f.key)
<1>1. formatValue(f, x) = <<"struct", obj>>
  BY DEF formatValue, struct
<1>2. computeFieldType(f).card = "map" /\ computeFieldType(f).key = ks
  BY DEF computeFieldType
<1>3. read(computeFieldType(f), <<"struct", obj>>) = map
  <2> HIDE DEF obj
  <2> QED BY <1>2 DEF read, map
<1>4. ASSUME NEW k \in DOMAIN x PROVE back(str(k)) = k /\ (str(k) = marker => ks = "STRING")
  BY KeyRead
<1>5. ASSUME NEW k \in DOMAIN x, telling(f.type, x[k]) PROVE elem(fmt(x[k])) = x[k]
  BY <1>5, ElemRead
<1> HIDE DEF str, back, fmt, elem, ks
<1>6. DOMAIN obj = {str(k) : k \in DOMAIN x}
  OBVIOUS
<1>7. ASSUME NEW k \in DOMAIN x PROVE str(k) \in DOMAIN obj /\ obj[str(k)] = fmt(x[k])
  <2> DEFINE c == CHOOSE j \in DOMAIN x : str(j) = str(k)
  <2>1. c \in DOMAIN x /\ str(c) = str(k)
    OBVIOUS
  <2>2. obj[str(k)] = fmt(x[c])
    OBVIOUS
  <2> HIDE DEF c, obj
  <2>3. c = k
    BY <1>4, <2>1
  <2> QED BY <1>6, <2>2, <2>3
<1> HIDE DEF obj
<1>8. ASSUME \A k \in DOMAIN x : telling(f.type, x[k]) PROVE map = x
  <2>1. {back(s) : s \in DOMAIN obj} = DOMAIN x
    BY <1>4, <1>6
  <2>2. ASSUME NEW k \in DOMAIN x PROVE map[k] = x[k]
    <3> DEFINE c == CHOOSE s \in DOMAIN obj : back(s) = k
    <3>1. c \in DOMAIN obj /\ back(c) = k
      BY <1>4, <1>7
    <3>2. map[k] = elem(obj[c])
      BY <2>1
    <3> HIDE DEF c, map
    <3>3. PICK j \in DOMAIN x : c = str(j)
      BY <1>6, <3>1
    <3>4. c = str(k)
      BY <1>4, <3>1, <3>3
    <3> QED BY <1>5, <1>7, <1>8, <3>2, <3>4
  <2>3. map = [k \in DOMAIN x |-> map[k]]
    BY <2>1
  <2> HIDE DEF map
  <2> QED BY <2>2, <2>3 DEF isFunction
<1>9. marker \in DOMAIN obj => ks = "STRING"
  BY <1>4, <1>6
<1> HIDE DEF map
<1> QED BY <1>1, <1>2, <1>3, <1>8, <1>9

(* A list is read as it was, and so is a field that is neither; and only   *)
(* maps and the types of any JSON are structs.                             *)
LEMMA ListRead ==
    ASSUME NEW f, f.card = "list", f.type \in scalarKinds \cup wellKnownTypes,
           NEW x, isFunction(x), \A i \in DOMAIN x : isValue(f.type, x[i])
    PROVE  LET js == formatValue(f, x)
           IN  /\ (\A i \in DOMAIN x : telling(f.type, x[i])) => read(computeFieldType(f), js) = x
               /\ js[1] # "struct"
<1> DEFINE fmt(v) == formatSingularValue(f.type, v)
           elem(j) == readElem(computeFieldType(f).elem, j)
           arr == [i \in DOMAIN x |-> fmt(x[i])]
           out == [i \in DOMAIN arr |-> elem(arr[i])]
<1>1. formatValue(f, x) = <<"list", arr>>
  BY DEF formatValue, list
<1>2. computeFieldType(f).card = "list"
  BY DEF computeFieldType
<1>3. read(computeFieldType(f), <<"list", arr>>) = out
  <2> HIDE DEF arr
  <2> QED BY <1>2 DEF read, out
<1>4. ASSUME NEW i \in DOMAIN x, telling(f.type, x[i]) PROVE elem(fmt(x[i])) = x[i]
  BY <1>4, ElemRead
<1> HIDE DEF fmt, elem
<1>5. DOMAIN out = DOMAIN x /\ \A i \in DOMAIN x : out[i] = elem(fmt(x[i]))
  OBVIOUS
<1>6. out = [i \in DOMAIN x |-> out[i]]
  OBVIOUS
<1> HIDE DEF out
<1>7. (\A i \in DOMAIN x : telling(f.type, x[i])) => out = x
  BY <1>4, <1>5, <1>6 DEF isFunction
<1> HIDE DEF arr
<1> QED BY <1>1, <1>3, <1>7

-----------------------------------------------------------------------------
(* Responses.                                                              *)

(* A value x is one that field f, without fields of its own, may have.     *)
Fits(f, x) ==
    /\ f.card \in {"singular", "list", "map"}
    /\ f.type \in scalarKinds \cup wellKnownTypes
    /\ f.card = "map" =>
          /\ f.key \in mapKeyKinds /\ isFunction(x)
          /\ \A k \in DOMAIN x : isValue(f.key, k) /\ isValue(f.type, x[k])
    /\ f.card = "list" => isFunction(x) /\ \A i \in DOMAIN x : isValue(f.type, x[i])
    /\ f.card = "singular" => isValue(f.type, x)

(* What a field of the response was formatted by is a field of a message.  *)
LEMMA EntryIsThere ==
    ASSUME Inv, NEW e \in response
    PROVE  \E p \in DOMAIN fields : \E m \in DOMAIN fields[p] : e.field \in ToSet(fields[p][m])
<1>0. req # Nil /\ fields \in Descriptors
  BY DEF Inv
<1>1. PICK q, r : q = req /\ Taken(q, r)
  BY <1>0 DEF Inv
<1>2. r.path = << >> /\ Bounded(r.mask) /\ computeSchema(r)
  BY <1>1, TakenIsValid
<1>3. PICK a \in asked(r) : e.field = descriptorOf(a)
  BY <1>1 DEF Taken, AnswersTo
<1>4. PICK v \in reached(r) : a \in asks(v)
  BY AskedOfOne
<1>5. hasFields(a.pool, a.msg)
  BY <1>4, NameOfMask
<1>6. known(a)
  BY <1>2, <1>4, <1>5, NameOfMask DEF computeSchema, validMask
<1>7. CASE fieldOf(a) # Nil
  <2>1. a.name \in Seq(STRING)
    BY <1>2, <1>4, MetNames
  <2>2. \E i \in DOMAIN fields[a.pool][a.msg] : e.field = fields[a.pool][a.msg][i]
    BY <1>0, <1>3, <1>5, <1>7, <2>1, FieldOfName DEF descriptorOf
  <2>3. e.field \in ToSet(fields[a.pool][a.msg])
    BY <2>2 DEF ToSet
  <2> QED BY <1>5, <2>3 DEF hasFields
<1>8. CASE fieldOf(a) = Nil
  <2> DEFINE m == relationOf(a)
  <2>1. relationOf(a) # Nil /\ e.field = relationField(relationOf(a))
    BY <1>3, <1>6, <1>8 DEF known, descriptorOf
  <2>2. Resolves(m, <<a.msg, a.name>>)
    BY <1>0, <2>1, RelationOfName DEF Inv
  <2>3. hasFields(m.pool, resultField(m).type) /\ relationField(m) # Nil
    BY <2>2 DEF Resolves
  <2>4. e.field \in ToSet(fields[m.pool][resultField(m).type])
    BY <1>0, <2>1, <2>3, FirstIsThere DEF relationField
  <2> QED BY <2>3, <2>4 DEF hasFields
<1> QED BY <1>7, <1>8

(* The values that a leaf of the response is tried with are its values.    *)
LEMMA LeavesFit ==
    ASSUME Inv, NEW f \in leaves, NEW x \in fieldValues(f)
    PROVE  Fits(f, x)
<1>1. PICK e \in response : f = e.field /\ f.type \in scalarKinds \cup wellKnownTypes
  BY DEF leaves
<1>2. \E p \in DOMAIN fields : \E m \in DOMAIN fields[p] : f \in ToSet(fields[p][m])
  BY <1>1, EntryIsThere
<1>5. /\ f.card \in {"singular", "list", "map"} /\ (f.card = "map" => f.key \in mapKeyKinds)
      /\ f.type \in scalarKinds \cup wellKnownTypes
  BY <1>1, <1>2, SamplesAssumption DEF Inv
<1>6. \A v \in ValuesOf(f.type) : isValue(f.type, v)
  BY <1>5, SamplesAssumption
<1>7. CASE f.card = "map"
  <2>1. PICK k \in ValuesOf(f.key), v \in ValuesOf(f.type) : x = [j \in {k} |-> v]
    <3>1. fieldValues(f) = {[j \in {k} |-> v] : k \in ValuesOf(f.key), v \in ValuesOf(f.type)}
      BY <1>7 DEF fieldValues
    <3> DEFINE map(k, v) == [j \in {k} |-> v]
    <3>2. fieldValues(f) = {map(k, v) : k \in ValuesOf(f.key), v \in ValuesOf(f.type)}
      BY <3>1
    <3> HIDE DEF map
    <3>3. \E k \in ValuesOf(f.key), v \in ValuesOf(f.type) : x = map(k, v)
      BY <3>2
    <3> QED BY <3>3 DEF map
  <2>2. isFunction(x)
    BY <2>1 DEF isFunction
  <2>3. f.key \in scalarKinds
    BY <1>5, <1>7 DEF mapKeyKinds, scalarKinds
  <2>4. isValue(f.key, k)
    BY <2>1, <2>3, SamplesAssumption
  <2>5. DOMAIN x = {k} /\ x[k] = v
    BY <2>1
  <2> QED BY <1>5, <1>6, <1>7, <2>1, <2>2, <2>4, <2>5 DEF Fits
<1>8. CASE f.card = "list"
  <2>1. x = << >> \/ \E v \in ValuesOf(f.type) : x = <<v>>
    BY <1>8 DEF fieldValues
  <2>2. isFunction(x) /\ \A i \in DOMAIN x : x[i] \in ValuesOf(f.type)
    <3>1. CASE x = << >>
      BY <3>1 DEF isFunction
    <3>2. ASSUME NEW v \in ValuesOf(f.type), x = <<v>>
          PROVE  isFunction(x) /\ \A i \in DOMAIN x : x[i] \in ValuesOf(f.type)
      <4>1. DOMAIN x = {1} /\ x[1] = v
        BY <3>2
      <4>2. isFunction(x)
        BY <3>2, <4>1 DEF isFunction
      <4> QED BY <4>1, <4>2
    <3> QED BY <2>1, <3>1, <3>2
  <2> QED BY <1>5, <1>6, <1>8, <2>2 DEF Fits
<1>9. CASE f.card = "singular"
  <2>1. x \in ValuesOf(f.type)
    BY <1>9 DEF fieldValues
  <2> QED BY <1>5, <1>6, <1>9, <2>1 DEF Fits
<1> QED BY <1>5, <1>7, <1>8, <1>9

(* A gateway that answers is one that registers and accepts, so that the   *)
(* theorems above hold of it too.                                          *)
LEMMA AnswersAsRegistered == QuerySpec => Spec
<1>1. QueryInit => Init
  BY DEF QueryInit
<1>2. [QueryNext]_queryVars => [Next]_vars
  BY DEF QueryNext, queryVars, Next, Respond, Received
<1> QED BY <1>1, <1>2, PTL DEF QuerySpec, Spec

(* What a response holds: a value as formatted, or an error.               *)
SampleInv ==
    sample # Nil =>
        \/ \E f, x : Fits(f, x) /\ sample = valueIn(f, x)
        \/ \E e, path : sample = errorAt(e, path)

(* It is so from response to response.                                     *)
LEMMA SampleHolds == QuerySpec => []SampleInv
<1>1. QueryInit => SampleInv
  BY DEF QueryInit, SampleInv
<1>2. Inv /\ SampleInv /\ [QueryNext]_queryVars => SampleInv'
  <2> SUFFICES ASSUME Inv, SampleInv, [QueryNext]_queryVars PROVE SampleInv'
    OBVIOUS
  <2>1. CASE sample' = sample
    BY <2>1 DEF SampleInv
  <2>2. CASE Respond
    <3>1. CASE sample' = Nil
      BY <3>1 DEF SampleInv
    <3>2. ASSUME NEW f \in leaves, NEW x \in fieldValues(f), sample' = valueIn(f, x)
          PROVE  SampleInv'
      BY <3>2, LeavesFit DEF SampleInv
    <3>3. ASSUME NEW e, NEW path, sample' = errorAt(e, path) PROVE SampleInv'
      BY <3>3 DEF SampleInv
    <3> QED BY <2>2, <3>1, <3>2, <3>3 DEF Respond
  <2>3. CASE Received
    BY <2>3 DEF Received, SampleInv
  <2> QED BY <2>1, <2>2, <2>3 DEF QueryNext, queryVars
<1> QED BY <1>1, <1>2, AnswersAsRegistered, InvHolds, PTL DEF QuerySpec

(* What a client reads by the schema is the value in the message, whatever *)
(* the field is and wherever the value lies in its range, down to the keys *)
(* and values of maps, and what an Any holds: formatValue loses nothing    *)
(* that telling does not name.                                             *)
THEOREM ReadableBySchemaHolds == QuerySpec => []ReadableBySchema
<1>1. SampleInv => ReadableBySchema
  <2> SUFFICES ASSUME SampleInv, sample # Nil, "value" \in DOMAIN sample PROVE ReadableBySchema
    BY DEF ReadableBySchema
  <2>1. \A e, path : sample # errorAt(e, path)
    BY DEF errorAt
  <2>2. PICK f, x : Fits(f, x) /\ sample = valueIn(f, x)
    BY <2>1 DEF SampleInv
  <2>3. /\ sample.field = f /\ sample.value = x
        /\ sample.schema = computeFieldType(f) /\ sample.json = formatValue(f, x)
    BY <2>2 DEF valueIn
  <2>4. CASE f.card = "map"
    <3>1. (\A k \in DOMAIN x : telling(f.type, x[k])) => read(computeFieldType(f), formatValue(f, x)) = x
      BY <2>2, <2>4, MapRead DEF Fits
    <3> QED BY <2>3, <2>4, <3>1 DEF ReadableBySchema
  <2>5. CASE f.card = "list"
    <3>1. (\A i \in DOMAIN x : telling(f.type, x[i])) => read(computeFieldType(f), formatValue(f, x)) = x
      BY <2>2, <2>5, ListRead DEF Fits
    <3> QED BY <2>3, <2>5, <3>1 DEF ReadableBySchema
  <2>6. CASE f.card = "singular"
    <3>1. telling(f.type, x) => readElem(computeFieldType(f).elem, formatSingularValue(f.type, x)) = x
      BY <2>2, <2>6, ElemRead DEF Fits
    <3>2. formatValue(f, x) = formatSingularValue(f.type, x)
      BY <2>6 DEF formatValue
    <3>3. computeFieldType(f).card = "singular"
      BY <2>6 DEF computeFieldType
    <3>4. \A js : read(computeFieldType(f), js) = readElem(computeFieldType(f).elem, js)
      BY <3>3 DEF read
    <3> QED BY <2>3, <2>6, <3>1, <3>2, <3>4 DEF ReadableBySchema
  <2> QED BY <2>2, <2>4, <2>5, <2>6 DEF Fits
<1> QED BY <1>1, SampleHolds, PTL

(* Errors in the place of a relation are told from values, and say what    *)
(* the resolver reported: formatError leaves nothing out, whatever types   *)
(* the gateway knows, and what formatValue makes of a message has the      *)
(* marker only where the data has it.                                      *)
THEOREM ErrorsStandOutHolds == QuerySpec => []ErrorsStandOut
<1>1. SampleInv => ErrorsStandOut
  <2> SUFFICES ASSUME SampleInv, sample # Nil PROVE ErrorsStandOut
    BY DEF ErrorsStandOut
  <2>1. ASSUME NEW e, NEW path, sample = errorAt(e, path) PROVE ErrorsStandOut
    <3> DEFINE of == errorFields(e, path)
               js == with(of, marker, struct(<< >>))
               ds == [i \in DOMAIN e.details |-> formatDetail(e.details[i])]
    <3>1. sample.error = e /\ sample.path = path /\ sample.json = struct(js) /\ "error" \in DOMAIN sample
      BY <2>1 DEF errorAt, formatError
    <3>2. /\ DOMAIN of = {key("code"), key("message"), key("details"), key("path")}
          /\ of[key("code")] = text(IF e.code = none THEN "UNKNOWN" ELSE e.code)
          /\ of[key("message")] = text(e.message)
          /\ of[key("details")] = list(ds)
          /\ of[key("path")] = text(path)
      <4> HIDE DEF ds
      <4>1. of = named([code    |-> text(IF e.code = none THEN "UNKNOWN" ELSE e.code),
                        message |-> text(e.message), details |-> list(ds), path |-> text(path)])
        BY DEF errorFields, ds
      <4> QED BY <4>1 DEF named, key
    <3> HIDE DEF of
    <3>3. /\ marker \in DOMAIN js
          /\ \A k \in DOMAIN of : k # marker => js[k] = of[k]
      BY DEF with
    <3>4. marker \notin {key("code"), key("message"), key("details"), key("path")}
      BY DEF marker, key
    <3> HIDE DEF js
    <3>5. /\ js[key("code")] = of[key("code")] /\ js[key("message")] = of[key("message")]
          /\ js[key("path")] = of[key("path")] /\ js[key("details")] = of[key("details")]
      BY <3>2, <3>3, <3>4
    <3>6. ASSUME NEW i \in DOMAIN e.details
          PROVE  js[key("details")][2][i][2][key("value")] = string(<<"b64", e.details[i]>>)
      <4> DEFINE d == e.details[i]
                 plain == named([type |-> text(d[1]), value |-> string(<<"b64", d>>)])
      <4>1. js[key("details")][2] = ds
        BY <3>2, <3>5 DEF list
      <4>2. ds[i] = formatDetail(d)
        OBVIOUS
      <4>3. formatDetail(d) = struct(IF d[1] \in KnownTypes THEN with(plain, key("debug"), protojson(d)) ELSE plain)
        BY DEF formatDetail
      <4>4. DOMAIN plain = {key("type"), key("value")} /\ plain[key("value")] = string(<<"b64", d>>)
        <5> HIDE DEF d
        <5> QED BY DEF named, key
      <4> HIDE DEF plain, d, ds
      <4>5. with(plain, key("debug"), protojson(d))[key("value")] = string(<<"b64", d>>)
        BY <4>4 DEF with, key
      <4>6. formatDetail(d)[2][key("value")] = string(<<"b64", d>>)
        BY <4>3, <4>4, <4>5 DEF struct
      <4> QED BY <4>1, <4>2, <4>6 DEF d
    <3>7. sample.json[2] = js
      BY <3>1 DEF struct
    <3> QED BY <3>1, <3>2, <3>3, <3>5, <3>6, <3>7 DEF ErrorsStandOut
  <2>2. ASSUME NEW f, NEW x, Fits(f, x), sample = valueIn(f, x) PROVE ErrorsStandOut
    <3>1. /\ sample.field = f /\ sample.schema = computeFieldType(f) /\ sample.json = formatValue(f, x)
          /\ "error" \notin DOMAIN sample
      BY <2>2 DEF valueIn
    <3>2. CASE f.card = "map"
      <4>1. marker \in DOMAIN formatValue(f, x)[2] => computeFieldType(f).key = "STRING"
        BY <2>2, <3>2, MapRead DEF Fits
      <4> QED BY <3>1, <3>2, <4>1 DEF ErrorsStandOut
    <3>3. CASE f.card = "list"
      <4>1. formatValue(f, x)[1] # "struct"
        BY <2>2, <3>3, ListRead DEF Fits
      <4> QED BY <3>1, <4>1 DEF ErrorsStandOut
    <3>4. CASE f.card = "singular"
      <4>1. formatValue(f, x) = formatSingularValue(f.type, x)
        BY <3>4 DEF formatValue
      <4>2. f.type \notin {"Struct", "Value", "Any"} => formatValue(f, x)[1] # "struct"
        BY <2>2, <3>4, <4>1, ElemRead DEF Fits
      <4>3. f.type \in {"Struct", "Value", "Any"} => computeFieldType(f).elem = f.type
        BY DEF computeFieldType, isMessage, scalarKinds, int32Kinds, uint32Kinds, int64Kinds, uint64Kinds
      <4> QED BY <3>1, <4>2, <4>3 DEF ErrorsStandOut
    <3> QED BY <2>2, <3>2, <3>3, <3>4 DEF Fits
  <2> QED BY <2>1, <2>2 DEF SampleInv
<1> QED BY <1>1, SampleHolds, PTL
=============================================================================
