----------------------------- MODULE ServerProofs -----------------------------
(***************************************************************************)
(* The end of the process for any set of listeners and servers; and the    *)
(* crosstest server for any callers, and any number of ids to a base up to *)
(* ten: an invariant of its stores and of the calls under way, for which   *)
(* ids, routes and the gateway's lists of values need lemmas of their own. *)
(***************************************************************************)
EXTENDS MCServer, TLAPS, SequenceTheorems, WellFoundedInduction, NaturalsInduction

(* Every variable of the process keeps its type, the signal channel its    *)
(* capacity and the servers their bound on requests.                       *)
THEOREM Typing == Spec => []TypeOK
<1>1. Init => TypeOK
  <2> SUFFICES ASSUME Init PROVE TypeOK
    OBVIOUS
  <2>1. /\ started \in BOOLEAN /\ caught \in BOOLEAN /\ groupErr \in BOOLEAN
        /\ expired \in BOOLEAN /\ signalled \in BOOLEAN
    BY Zenon DEF Init
  <2>2. active \in [Servers -> 0 .. MaxActive]
    BY ServerAssumption DEF Init
  <2> QED
    BY <2>1, <2>2 DEF Init, TypeOK
<1>2. TypeOK /\ [Next]_vars => TypeOK'
  <2> SUFFICES ASSUME TypeOK, [Next]_vars PROVE TypeOK'
    OBVIOUS
  <2> USE ServerAssumption DEF TypeOK
  <2>1. CASE Start \/ StartupFails \/ Signal \/ MainReturns
    BY <2>1 DEF Start, StartupFails, Signal, MainReturns, notify
  <2>2. ASSUME NEW l \in Listeners, Listener(l) \/ ServeFails(l) PROVE TypeOK'
    BY <2>2 DEF Listener, Bind, BindFails, Serve, ServeReturns, ServeFails,
       ListenerReturns
  <2>3. ASSUME NEW v \in Servers, Request(v) \/ Response(v) PROVE TypeOK'
    <3>1. active[v] \in 0 .. MaxActive
      OBVIOUS
    <3> HIDE DEF TypeOK
    <3>2. CASE Request(v)
      <4>1. active[v] < MaxActive
        BY <3>2 DEF Request
      <4>2. active[v] + 1 \in 0 .. MaxActive
        BY <3>1, <4>1
      <4> QED
        BY <3>2, <4>2 DEF Request, TypeOK
    <3>3. CASE Response(v)
      <4>1. active[v] > 0
        BY <3>3 DEF Response
      <4>2. active[v] - 1 \in 0 .. MaxActive
        BY <3>1, <4>1
      <4> QED
        BY <3>3, <4>2 DEF Response, TypeOK
    <3> QED
      BY <2>3, <3>2, <3>3
  <2>4. CASE Wake \/ Expire \/ StopperReturns
    BY <2>4 DEF Wake, Expire, StopperReturns, wakes
  <2>5. ASSUME NEW v \in Servers, Shutdown(v) \/ ShutdownReturns(v) PROVE TypeOK'
    BY <2>5 DEF Shutdown, ShutdownReturns
  <2>6. CASE UNCHANGED vars
    BY <2>6 DEF vars
  <2> QED
    BY <2>1, <2>2, <2>3, <2>4, <2>5, <2>6 DEF Next, Stopper, Environment
<1> QED
  BY <1>1, <1>2, PTL DEF Spec

-----------------------------------------------------------------------------
(* Main returns after the stopper, the stopper after every Shutdown, and a *)
(* Shutdown that was not cut short after every request: none is let in     *)
(* once it has begun.                                                      *)
Drained ==
    /\ exit = "status 0" => stopper = "done"
    /\ stopper = "done" => \A v \in Servers : shut[v] = "returned"
    /\ \A v \in Servers : shut[v] = "returned" /\ ~expired => active[v] = 0

(* Every status 0 is a graceful exit, unless the shutdown timed out.       *)
THEOREM ExitsGracefully == Spec => []GracefulExit
<1>1. Init => Drained
  BY DEF Init, Drained
<1>2. TypeOK /\ Drained /\ [Next]_vars => Drained'
  <2> SUFFICES ASSUME TypeOK, Drained, [Next]_vars PROVE Drained'
    OBVIOUS
  <2> USE ServerAssumption DEF TypeOK, Drained
  <2>1. CASE Start \/ StartupFails \/ Signal \/ MainReturns
    BY <2>1 DEF Start, StartupFails, Signal, MainReturns, groupDone, running
  <2>2. ASSUME NEW l \in Listeners, Listener(l) \/ ServeFails(l) PROVE Drained'
    BY <2>2 DEF Listener, Bind, BindFails, Serve, ServeReturns, ServeFails,
       ListenerReturns
  <2>3. ASSUME NEW v \in Servers, Request(v) PROVE Drained'
    <3>1. shut[v] = "no"
      BY <2>3 DEF Request, down
    <3> QED
      BY <2>3, <3>1 DEF Request
  <2>4. ASSUME NEW v \in Servers, Response(v) PROVE Drained'
    <3>0. active[v] \in 0 .. MaxActive
      OBVIOUS
    <3>1. active[v] # 0 /\ \A w \in Servers \ {v} : active'[w] = active[w]
      <4> HIDE DEF TypeOK, Drained
      <4>1. active[v] > 0
        BY <2>4 DEF Response
      <4>2. active[v] # 0
        BY <3>0, <4>1
      <4>3. active \in [Servers -> 0 .. MaxActive]
        BY DEF TypeOK
      <4> QED
        BY <2>4, <4>2, <4>3 DEF Response
    <3>2. UNCHANGED <<exit, stopper, shut, expired>>
      BY <2>4 DEF Response
    <3> QED
      BY <3>1, <3>2
  <2>5. CASE Wake \/ Expire \/ StopperReturns
    BY <2>5 DEF Wake, Expire, StopperReturns, running
  <2>6. ASSUME NEW v \in Servers, Shutdown(v) \/ ShutdownReturns(v) PROVE Drained'
    BY <2>6 DEF Shutdown, ShutdownReturns, timeoutCtxDone
  <2>7. CASE UNCHANGED vars
    BY <2>7 DEF vars
  <2> QED
    BY <2>1, <2>2, <2>3, <2>4, <2>5, <2>6, <2>7 DEF Next, Stopper, Environment
<1>3. Drained => GracefulExit
  BY DEF Drained, GracefulExit
<1> QED
  BY <1>1, <1>2, <1>3, Typing, PTL DEF Spec

-----------------------------------------------------------------------------
aListenerIsDone == \E l \in Listeners : lst[l] = "done"

(* What wakes the stopper was there before it: errors of the group come    *)
(* from listeners, signals in the channel were caught.                     *)
Caused ==
    /\ groupErr => aListenerIsDone
    /\ sig = 1 => signalled
    /\ stopper # "select" => signalled \/ aListenerIsDone

(* A cause does not go away.                                               *)
LEMMA CausedKept ==
  ASSUME Caused, aListenerIsDone => aListenerIsDone', signalled => signalled',
         groupErr' => groupErr \/ aListenerIsDone',
         sig' = 1 => sig = 1 \/ signalled',
         stopper' # "select" => stopper # "select" \/ groupErr \/ sig = 1
  PROVE  Caused'
  BY DEF Caused

(* No server is shut down for nothing.                                     *)
THEOREM NeverShutDownForNothing == Spec => ShutdownHasAReason
<1>1. Init => Caused
  BY DEF Init, Caused
<1>2. TypeOK /\ Caused /\ [Next]_vars => Caused'
  <2> SUFFICES ASSUME TypeOK, Caused, [Next]_vars PROVE Caused'
    OBVIOUS
  <2>1. CASE Start \/ StartupFails \/ Signal \/ MainReturns
    <3>1. (signalled => signalled') /\ (sig' = 1 => sig = 1 \/ signalled')
      <4>1. CASE Signal
        <5>1. CASE caught
          BY <4>1, <5>1, Zenon DEF Signal
        <5>2. CASE ~caught
          BY <4>1, <5>2, Zenon DEF Signal
        <5> QED
          BY <5>1, <5>2
      <4>2. CASE Start \/ StartupFails \/ MainReturns
        <5>1. UNCHANGED <<sig, signalled>>
          BY <4>2 DEF Start, StartupFails, MainReturns
        <5> QED
          BY <5>1
      <4> QED
        BY <2>1, <4>1, <4>2
    <3>2. UNCHANGED <<lst, groupErr, stopper>>
      BY <2>1 DEF Start, StartupFails, Signal, MainReturns
    <3> QED
      BY <3>1, <3>2, CausedKept DEF aListenerIsDone
  <2>2. ASSUME NEW l \in Listeners, BindFails(l) \/ ServeReturns(l) PROVE Caused'
    <3>1. aListenerIsDone'
      BY <2>2 DEF BindFails, ServeReturns, ListenerReturns, TypeOK, aListenerIsDone
    <3> QED
      BY <2>2, <3>1, CausedKept DEF BindFails, ServeReturns
  <2>3. ASSUME NEW l \in Listeners, Bind(l) \/ Serve(l) \/ ServeFails(l) PROVE Caused'
    <3>1. aListenerIsDone => aListenerIsDone'
      BY <2>3 DEF Bind, Serve, ServeFails, TypeOK, aListenerIsDone
    <3>2. UNCHANGED <<sig, signalled, groupErr, stopper>>
      BY <2>3 DEF Bind, Serve, ServeFails
    <3> QED
      BY <3>1, <3>2, CausedKept
  <2>4. ASSUME NEW v \in Servers, Request(v) \/ Response(v) PROVE Caused'
    BY <2>4, CausedKept DEF Request, Response, aListenerIsDone
  <2>5. CASE Wake \/ Expire \/ StopperReturns
    <3>1. sig' = 1 => sig = 1
      BY <2>5 DEF Wake, Expire, StopperReturns, wakes
    <3>2. stopper' # "select" => stopper # "select" \/ groupErr \/ sig = 1
      BY <2>5 DEF Wake, Expire, StopperReturns, wakes
    <3>3. UNCHANGED <<lst, groupErr, signalled>>
      BY <2>5 DEF Wake, Expire, StopperReturns
    <3> QED
      <4>1. aListenerIsDone => aListenerIsDone'
        BY <3>3 DEF aListenerIsDone
      <4> QED
        BY <3>1, <3>2, <3>3, <4>1, CausedKept
  <2>6. ASSUME NEW v \in Servers, Shutdown(v) \/ ShutdownReturns(v) PROVE Caused'
    BY <2>6, CausedKept DEF Shutdown, ShutdownReturns, aListenerIsDone
  <2>7. CASE UNCHANGED vars
    BY <2>7, CausedKept DEF vars, aListenerIsDone
  <2> QED
    BY <2>1, <2>2, <2>3, <2>4, <2>5, <2>6, <2>7
    DEF Next, Listener, Stopper, Environment
<1>3. TypeOK /\ Caused /\ [Next]_vars =>
        [ (\E v \in Servers : shut[v] = "no" /\ shut'[v] = "draining")
          /\ (\A v \in Servers : shut[v] = "no")
          => signalled \/ \E l \in Listeners : lst[l] = "done" ]_vars
  <2> SUFFICES ASSUME TypeOK, Caused, Next, NEW v \in Servers, shut[v] = "no",
                      shut'[v] = "draining"
               PROVE  stopper = "shutdown"
    BY DEF Caused, aListenerIsDone
  <2>1. CASE shut' = shut
    BY <2>1
  <2>2. CASE \E w \in Servers : Shutdown(w) \/ ShutdownReturns(w)
    BY <2>2 DEF Shutdown, ShutdownReturns, TypeOK
  <2> QED
    BY <2>1, <2>2
    DEF Next, Stopper, Environment, Listener, Start, StartupFails, Signal,
        MainReturns, Bind, BindFails, Serve, ServeReturns, ServeFails, Request,
        Response, Wake, Expire, StopperReturns
<1> QED
  BY <1>1, <1>2, <1>3, Typing, PTL DEF Spec, ShutdownHasAReason

(* Induction over the numbers, for a set.                                  *)
LEMMA NumbersInduct ==
    ASSUME NEW S, 0 \in S, \A n \in Nat : n \in S => n + 1 \in S
    PROVE  \A n \in Nat : n \in S
<1> DEFINE less == {p \in Nat \X Nat : p[1] < p[2]}
<1> SUFFICES ASSUME Nat \ S # {} PROVE FALSE
  BY Zenon
<1>1. IsWellFoundedOn(less, Nat)
  BY NatLessThanWellFounded DEF OpToRel
<1> HIDE DEF less
<1>2. PICK x \in Nat \ S : \A y \in Nat \ S : ~(<<y, x>> \in less)
  BY <1>1, WFMin, Nat \ S \subseteq Nat
<1> USE DEF less
<1>3. x # 0 /\ x - 1 \in Nat /\ x - 1 < x
  BY <1>2
<1>4. x - 1 \in S
  BY <1>2, <1>3
<1>5. (x - 1) + 1 \in S
  BY <1>3, <1>4
<1> QED BY <1>2, <1>5

(* The quotient that is left is smaller, and with the rest it makes up the *)
(* number.                                                                 *)
LEMMA Division ==
    ASSUME NEW n \in Nat
    PROVE  /\ n \div Radix \in Nat /\ n % Radix \in 0 .. Radix - 1
           /\ n >= Radix => n \div Radix < n
           /\ n = Radix * (n \div Radix) + (n % Radix)
BY CrosstestAssumption

(* digits is the function that its recursive definition describes.         *)
LEMMA DigitsDefined ==
    X!digits = [n \in Nat |-> IF n < Radix THEN <<X!numeral[n + 1]>>
                              ELSE Append(X!digits[n \div Radix], X!numeral[(n % Radix) + 1])]
<1> DEFINE one(n) == <<X!numeral[n + 1]>>
           more(s, n) == Append(s, X!numeral[(n % Radix) + 1])
           rest(n) == n \div Radix
           part(g, n) == g = [i \in 0 .. n |-> IF i < Radix THEN one(i) ELSE more(g[rest(i)], i)]
           S == {n \in Nat : \E g : part(g, n)}
           whole(g) == g = [i \in Nat |-> IF i < Radix THEN one(i) ELSE more(g[rest(i)], i)]
<1>R. Radix \in Nat /\ Radix > 0
  BY CrosstestAssumption
<1>D. \A n \in Nat : rest(n) \in Nat /\ (n >= Radix => rest(n) < n)
  BY Division
<1> HIDE DEF one, more, rest
<1>1. 0 \in S
  <2>1. part([i \in 0 .. 0 |-> one(i)], 0)
    BY <1>R
  <2> QED BY <2>1
<1>2. ASSUME NEW n \in Nat, n \in S PROVE n + 1 \in S
  <2>1. PICK g : part(g, n)
    BY <1>2
  <2> DEFINE k == [i \in 0 .. n + 1 |->
                     IF i = n + 1
                     THEN IF i < Radix THEN one(i) ELSE more(g[rest(i)], i)
                     ELSE g[i]]
  <2>5. \A i \in 0 .. n : g[i] = IF i < Radix THEN one(i) ELSE more(g[rest(i)], i)
    BY <2>1
  <2>6. \A i \in 0 .. n + 1 : i >= Radix => rest(i) \in 0 .. n
    BY <1>D
  <2>7. \A i \in 0 .. n : k[i] = g[i]
    OBVIOUS
  <2>8. k[n + 1] = IF n + 1 < Radix THEN one(n + 1) ELSE more(g[rest(n + 1)], n + 1)
    OBVIOUS
  <2>2. \A i \in 0 .. n + 1 : k[i] = IF i < Radix THEN one(i) ELSE more(k[rest(i)], i)
    <3> HIDE DEF k, part
    <3>1. ASSUME NEW i \in 0 .. n
          PROVE  k[i] = IF i < Radix THEN one(i) ELSE more(k[rest(i)], i)
      BY <2>5, <2>6, <2>7, <1>R
    <3>2. k[n + 1] = IF n + 1 < Radix THEN one(n + 1) ELSE more(k[rest(n + 1)], n + 1)
      BY <2>6, <2>7, <2>8, <1>R
    <3> QED BY <3>1, <3>2
  <2>3. part(k, n + 1)
    BY <2>2
  <2>4. \E x : part(x, n + 1)
    <3> HIDE DEF k, part
    <3> QED BY <2>3
  <2> QED BY <2>4
<1>3. \A n \in Nat : n \in S
  <2> HIDE DEF S
  <2> QED BY <1>1, <1>2, NumbersInduct
<1> DEFINE A == {i \in Nat : \A n, m \in Nat : \A g, h :
                    part(g, n) /\ part(h, m) /\ i <= n /\ i <= m =>
                    \A j \in 0 .. i : g[j] = h[j]}
<1>4. 0 \in A
  BY <1>R
<1>5. ASSUME NEW i \in Nat, i \in A PROVE i + 1 \in A
  <2> SUFFICES ASSUME NEW n \in Nat, NEW m \in Nat, NEW g, NEW h, part(g, n), part(h, m),
                      i + 1 <= n, i + 1 <= m
               PROVE  \A j \in 0 .. i + 1 : g[j] = h[j]
    OBVIOUS
  <2>1. \A j \in 0 .. i : g[j] = h[j]
    <3>1. i <= n /\ i <= m
      OBVIOUS
    <3> HIDE DEF part
    <3> QED BY <1>5, <3>1
  <2>2. g[i + 1] = IF i + 1 < Radix THEN one(i + 1) ELSE more(g[rest(i + 1)], i + 1)
    OBVIOUS
  <2>3. h[i + 1] = IF i + 1 < Radix THEN one(i + 1) ELSE more(h[rest(i + 1)], i + 1)
    OBVIOUS
  <2>4. i + 1 >= Radix => rest(i + 1) \in 0 .. i
    BY <1>D
  <2> HIDE DEF part
  <2>5. g[i + 1] = h[i + 1]
    BY <2>1, <2>2, <2>3, <2>4, <1>R
  <2>6. \A j \in 0 .. i + 1 : j \in 0 .. i \/ j = i + 1
    OBVIOUS
  <2> QED BY <2>1, <2>5, <2>6
<1>6. \A i \in Nat : i \in A
  <2> HIDE DEF A
  <2> QED BY <1>4, <1>5, NumbersInduct
<1> DEFINE p(n) == CHOOSE g : part(g, n)
           f == [n \in Nat |-> p(n)[n]]
<1>7. \A n \in Nat : part(p(n), n)
  <2> HIDE DEF part
  <2> QED BY <1>3
<1>8. \A n \in Nat : f[n] = IF n < Radix THEN one(n) ELSE more(f[rest(n)], n)
  <2> SUFFICES ASSUME NEW n \in Nat
               PROVE  p(n)[n] = IF n < Radix THEN one(n) ELSE more(f[rest(n)], n)
    OBVIOUS
  <2>1. p(n)[n] = IF n < Radix THEN one(n) ELSE more(p(n)[rest(n)], n)
    <3>1. part(p(n), n)
      BY <1>7
    <3> HIDE DEF p
    <3> QED BY <3>1
  <2>2. ASSUME n >= Radix PROVE p(n)[rest(n)] = f[rest(n)]
    <3>1. rest(n) \in Nat /\ rest(n) <= n
      BY <1>D, <2>2
    <3>2. part(p(n), n) /\ part(p(rest(n)), rest(n)) /\ rest(n) \in A
      BY <1>6, <1>7, <3>1
    <3>3. f[rest(n)] = p(rest(n))[rest(n)]
      BY <3>1
    <3> HIDE DEF p, part
    <3>4. p(n)[rest(n)] = p(rest(n))[rest(n)]
      BY <3>1, <3>2
    <3> QED BY <3>3, <3>4
  <2> HIDE DEF p, f
  <2> QED BY <2>1, <2>2, <1>R
<1>9. whole(f)
  <2> DEFINE F == f
  <2>1. F = [n \in Nat |-> F[n]]
    <3> HIDE DEF p
    <3> QED OBVIOUS
  <2> HIDE DEF F
  <2>2. \A n \in Nat : F[n] = IF n < Radix THEN one(n) ELSE more(F[rest(n)], n)
    BY <1>8 DEF F
  <2>3. whole(F)
    BY <2>1, <2>2
  <2> QED BY <2>3 DEF F
<1>10. X!digits = CHOOSE g : whole(g)
  BY Zenon DEF X!digits, one, more, rest
<1>11. whole(X!digits)
  <2> HIDE DEF whole, f
  <2> QED BY <1>9, <1>10
<1> QED BY <1>11, Zenon DEF one, more, rest

Numerals == {X!numeral[i] : i \in 1 .. 10}
Words    == Numerals \cup {"/"}

(* A digit of a number has a numeral of its own, and it is not the slash.  *)
LEMMA NumeralsDiffer ==
    /\ \A d \in 0 .. Radix - 1 : X!numeral[d + 1] \in Numerals
    /\ \A d, e \in 0 .. Radix - 1 : X!numeral[d + 1] = X!numeral[e + 1] => d = e
    /\ "/" \notin Numerals
<1>1. \A d \in 0 .. Radix - 1 : d + 1 \in 1 .. 10
  BY CrosstestAssumption
<1>2. \A i, j \in 1 .. 10 : X!numeral[i] = X!numeral[j] => i = j
  BY DEF X!numeral
<1>3. "/" \notin Numerals
  BY DEF X!numeral, Numerals
<1>4. \A d, e \in 0 .. Radix - 1 : X!numeral[d + 1] = X!numeral[e + 1] => d = e
  <2> SUFFICES ASSUME NEW d \in 0 .. Radix - 1, NEW e \in 0 .. Radix - 1,
                      X!numeral[d + 1] = X!numeral[e + 1]
               PROVE  d = e
    OBVIOUS
  <2>1. d + 1 = e + 1
    BY <1>1, <1>2
  <2> QED BY <2>1, CrosstestAssumption
<1> QED BY <1>1, <1>3, <1>4, Zenon DEF Numerals

(* What digits does with a number.                                         *)
LEMMA DigitsOf ==
    ASSUME NEW n \in Nat
    PROVE  /\ n < Radix => X!digits[n] = <<X!numeral[n + 1]>>
           /\ n >= Radix => X!digits[n] = Append(X!digits[n \div Radix],
                                                 X!numeral[(n % Radix) + 1])
<1> DEFINE r(m) == IF m < Radix THEN <<X!numeral[m + 1]>>
                   ELSE Append(X!digits[m \div Radix], X!numeral[(m % Radix) + 1])
<1> HIDE DEF r
<1>1. X!digits = [m \in Nat |-> r(m)]
  BY DigitsDefined, Zenon DEF r
<1>2. X!digits[n] = r(n)
  BY <1>1
<1>3. n < Radix \/ (n >= Radix /\ ~(n < Radix))
  BY CrosstestAssumption
<1>4. n < Radix => ~(n >= Radix)
  BY CrosstestAssumption
<1> QED BY <1>2, <1>3, <1>4, Zenon DEF r

(* A number has one numeral or more and nothing else, no slash.            *)
LEMMA DigitsTyped ==
    \A n \in Nat : X!digits[n] \in Seq(Numerals) /\ Len(X!digits[n]) >= 1
<1> DEFINE P(n) == X!digits[n] \in Seq(Numerals) /\ Len(X!digits[n]) >= 1
           S == {n \in Nat : \A k \in 0 .. n : P(k)}
<1>1. ASSUME NEW n \in Nat, n < Radix PROVE P(n)
  <2>1. n \in 0 .. Radix - 1
    BY <1>1, CrosstestAssumption
  <2>2. X!numeral[n + 1] \in Numerals
    BY <2>1, NumeralsDiffer
  <2>3. X!digits[n] = <<X!numeral[n + 1]>>
    BY <1>1, DigitsOf
  <2> QED BY <2>2, <2>3
<1>2. ASSUME NEW n \in Nat, n >= Radix, P(n \div Radix) PROVE P(n)
  <2>1. X!numeral[(n % Radix) + 1] \in Numerals
    BY Division, NumeralsDiffer
  <2>2. X!digits[n] = Append(X!digits[n \div Radix], X!numeral[(n % Radix) + 1])
    BY <1>2, DigitsOf
  <2> QED BY <1>2, <2>1, <2>2, AppendProperties, LenProperties
<1>3. \A n \in Nat : n < Radix \/ (n >= Radix /\ n \div Radix \in Nat /\ n \div Radix < n)
  BY Division, CrosstestAssumption
<1> HIDE DEF P
<1>4. 0 \in S
  BY <1>1, CrosstestAssumption
<1>5. ASSUME NEW n \in Nat, n \in S PROVE n + 1 \in S
  <2>1. P(n + 1)
    <3>1. CASE n + 1 < Radix
      BY <1>1, <3>1
    <3>2. CASE ~(n + 1 < Radix)
      <4>1. n + 1 >= Radix /\ (n + 1) \div Radix \in 0 .. n
        BY <1>3, <3>2
      <4> QED BY <1>2, <1>5, <4>1
    <3> QED BY <3>1, <3>2
  <2>2. \A k \in 0 .. n + 1 : k \in 0 .. n \/ k = n + 1
    OBVIOUS
  <2> QED BY <1>5, <2>1, <2>2
<1>6. \A n \in Nat : n \in S
  <2> HIDE DEF S
  <2> QED BY <1>4, <1>5, NumbersInduct
<1>7. \A n \in Nat : P(n)
  BY <1>6
<1> QED BY <1>7, Zenon DEF P

(* Two numbers have different digits.                                      *)
LEMMA DigitsDiffer ==
    \A m, n \in Nat : X!digits[m] = X!digits[n] => m = n
<1> DEFINE P(m) == \A n \in Nat : X!digits[m] = X!digits[n] => m = n
           S == {m \in Nat : \A k \in 0 .. m : P(k)}
<1>3. \A n \in Nat : n < Radix \/ (n >= Radix /\ n \div Radix \in Nat /\ n \div Radix < n)
  BY Division, CrosstestAssumption
<1>L. \A n \in Nat : /\ n < Radix => Len(X!digits[n]) = 1
                     /\ n >= Radix => Len(X!digits[n]) > 1
  <2> SUFFICES ASSUME NEW n \in Nat
               PROVE  /\ n < Radix => Len(X!digits[n]) = 1
                      /\ n >= Radix => Len(X!digits[n]) > 1
    OBVIOUS
  <2>1. ASSUME n < Radix PROVE Len(X!digits[n]) = 1
    <3>1. X!digits[n] = <<X!numeral[n + 1]>>
      BY <2>1, DigitsOf
    <3> DEFINE e == X!numeral[n + 1]
    <3> HIDE DEF e
    <3>2. Len(<<e>>) = 1
      OBVIOUS
    <3> QED BY <3>1, <3>2 DEF e
  <2>2. ASSUME n >= Radix PROVE Len(X!digits[n]) > 1
    <3>1. n \div Radix \in Nat
      BY Division
    <3>2. X!digits[n \div Radix] \in Seq(Numerals) /\ Len(X!digits[n \div Radix]) >= 1
      BY <3>1, DigitsTyped
    <3>3. X!digits[n] = Append(X!digits[n \div Radix], X!numeral[(n % Radix) + 1])
      BY <2>2, DigitsOf
    <3>4. X!numeral[(n % Radix) + 1] \in Numerals
      BY Division, NumeralsDiffer
    <3> DEFINE d == X!digits[n \div Radix]
               e == X!numeral[(n % Radix) + 1]
    <3> HIDE DEF d, e
    <3>5. Len(Append(d, e)) = Len(d) + 1
      BY <3>2, <3>4, AppendProperties DEF d, e
    <3> QED BY <3>2, <3>3, <3>5, LenProperties DEF d, e
  <2> QED BY <2>1, <2>2
<1>1. ASSUME NEW m \in Nat, m < Radix PROVE P(m)
  <2> SUFFICES ASSUME NEW n \in Nat, X!digits[m] = X!digits[n] PROVE m = n
    OBVIOUS
  <2> DEFINE k == Len(X!digits[n])
  <2>0. k = 1 /\ (n >= Radix => k > 1)
    BY <1>1, <1>L
  <2> HIDE DEF k
  <2>1. n < Radix
    BY <2>0, <1>3
  <2>2. m \in 0 .. Radix - 1 /\ n \in 0 .. Radix - 1
    BY <1>1, <2>1, CrosstestAssumption
  <2>3. <<X!numeral[m + 1]>> = <<X!numeral[n + 1]>>
    BY <1>1, <2>1, DigitsOf
  <2>4. X!numeral[m + 1] = X!numeral[n + 1]
    BY <2>3
  <2> QED BY <2>2, <2>4, NumeralsDiffer
<1>2. ASSUME NEW m \in Nat, m >= Radix, P(m \div Radix) PROVE P(m)
  <2> SUFFICES ASSUME NEW n \in Nat, X!digits[m] = X!digits[n] PROVE m = n
    OBVIOUS
  <2> DEFINE k == Len(X!digits[n])
  <2>0. k > 1 /\ (n < Radix => k = 1)
    BY <1>2, <1>L
  <2> HIDE DEF k
  <2>1. n >= Radix
    BY <2>0, <1>3
  <2> DEFINE a == X!digits[m \div Radix]
             b == X!digits[n \div Radix]
             x == X!numeral[(m % Radix) + 1]
             y == X!numeral[(n % Radix) + 1]
  <2>2. Append(a, x) = Append(b, y)
    BY <1>2, <2>1, DigitsOf
  <2>3. m \div Radix \in Nat /\ n \div Radix \in Nat
        /\ m % Radix \in 0 .. Radix - 1 /\ n % Radix \in 0 .. Radix - 1
    BY Division
  <2>4. a \in Seq(Numerals) /\ b \in Seq(Numerals) /\ x \in Numerals /\ y \in Numerals
    BY <2>3, DigitsTyped, NumeralsDiffer
  <2>5. a = b /\ x = y
    <3> HIDE DEF a, b, x, y
    <3> QED BY <2>2, <2>4, AppendInjective
  <2>6. m \div Radix = n \div Radix
    BY <1>2, <2>3, <2>5
  <2>7. m % Radix = n % Radix
    BY <2>3, <2>5, NumeralsDiffer
  <2>8. m = Radix * (m \div Radix) + (m % Radix) /\ n = Radix * (n \div Radix) + (n % Radix)
    BY Division
  <2> QED BY <2>6, <2>7, <2>8
<1> HIDE DEF P
<1>4. 0 \in S
  BY <1>1, CrosstestAssumption
<1>5. ASSUME NEW n \in Nat, n \in S PROVE n + 1 \in S
  <2>1. P(n + 1)
    <3>1. CASE n + 1 < Radix
      BY <1>1, <3>1
    <3>2. CASE ~(n + 1 < Radix)
      <4>1. n + 1 >= Radix /\ (n + 1) \div Radix \in 0 .. n
        BY <1>3, <3>2
      <4> QED BY <1>2, <1>5, <4>1
    <3> QED BY <3>1, <3>2
  <2>2. \A k \in 0 .. n + 1 : k \in 0 .. n \/ k = n + 1
    OBVIOUS
  <2> QED BY <1>5, <2>1, <2>2
<1>6. \A n \in Nat : n \in S
  <2> HIDE DEF S
  <2> QED BY <1>4, <1>5, NumbersInduct
<1>7. \A n \in Nat : P(n)
  BY <1>6
<1> QED BY <1>7, Zenon DEF P

-----------------------------------------------------------------------------
(* Ids.                                                                    *)

Keys == {X!digits[n] : n \in Nat}

(* The ids that were given out.                                            *)
PIds == {X!parentId(n) : n \in 1 .. parentIds}
CIds == {X!childId(p, n) : p \in Keys, n \in 1 .. childIds}

(* The words of a child's id: those of its parent's, a slash, and digits.  *)
LEMMA ChildIdWords ==
    ASSUME NEW p \in Seq(Numerals), NEW n \in Nat
    PROVE  LET k == X!childId(p, n)
           IN  /\ k \in Seq(Words)
               /\ Len(k) = Len(p) + 1 + Len(X!digits[n])
               /\ \A i \in 1 .. Len(p) : k[i] = p[i]
               /\ k[Len(p) + 1] = "/"
               /\ \A i \in 1 .. Len(X!digits[n]) : k[Len(p) + 1 + i] = X!digits[n][i]
<1> DEFINE d == X!digits[n]
           s == <<"/">>
<1>1. d \in Seq(Numerals)
  BY DigitsTyped
<1>2. X!childId(p, n) = (p \o s) \o d
  BY Zenon DEF X!childId
<1>3. s \in Seq(Words) /\ Len(s) = 1 /\ s[1] = "/"
  BY DEF Words
<1>4. p \in Seq(Words) /\ d \in Seq(Words)
  BY <1>1, SeqMonotonic DEF Words
<1> HIDE DEF d, s
<1> DEFINE q == p \o s
<1>5. /\ q \in Seq(Words) /\ Len(q) = Len(p) + 1 /\ q[Len(p) + 1] = "/"
      /\ \A i \in 1 .. Len(p) : q[i] = p[i]
  <2>1. /\ q \in Seq(Words) /\ Len(q) = Len(p) + Len(s)
        /\ \A i \in 1 .. (Len(p) + Len(s)) : q[i] = IF i <= Len(p) THEN p[i] ELSE s[i - Len(p)]
    BY <1>3, <1>4, ConcatProperties, Zenon
  <2>2. Len(p) \in Nat
    BY LenProperties
  <2> HIDE DEF q
  <2>3. Len(p) + 1 \in 1 .. (Len(p) + Len(s)) /\ ~(Len(p) + 1 <= Len(p)) /\ (Len(p) + 1) - Len(p) = 1
    BY <2>2, <1>3
  <2>4. q[Len(p) + 1] = "/"
    BY <2>1, <2>3, <1>3
  <2>5. \A i \in 1 .. Len(p) : i \in 1 .. (Len(p) + Len(s)) /\ i <= Len(p)
    BY <2>2, <1>3
  <2> QED BY <2>1, <2>4, <2>5, <1>3
<1> HIDE DEF q
<1> DEFINE k == q \o d
<1>6. /\ k \in Seq(Words) /\ Len(k) = Len(q) + Len(d)
      /\ \A i \in 1 .. (Len(q) + Len(d)) : k[i] = IF i <= Len(q) THEN q[i] ELSE d[i - Len(q)]
  BY <1>4, <1>5, ConcatProperties, Zenon
<1>7. Len(p) \in Nat /\ Len(q) \in Nat /\ Len(d) \in Nat
  BY <1>4, <1>5, LenProperties
<1> HIDE DEF k
<1>8. \A i \in 1 .. Len(p) : k[i] = p[i]
  <2>1. \A i \in 1 .. Len(p) : i \in 1 .. (Len(q) + Len(d)) /\ i <= Len(q)
    BY <1>5, <1>7
  <2> QED BY <1>5, <1>6, <2>1
<1>9. k[Len(p) + 1] = "/"
  <2>1. Len(p) + 1 \in 1 .. (Len(q) + Len(d)) /\ Len(p) + 1 <= Len(q)
    BY <1>5, <1>7
  <2> QED BY <1>5, <1>6, <2>1
<1>10. \A i \in 1 .. Len(d) : k[Len(p) + 1 + i] = d[i]
  <2>1. \A i \in 1 .. Len(d) : /\ Len(p) + 1 + i \in 1 .. (Len(q) + Len(d))
                               /\ ~(Len(p) + 1 + i <= Len(q))
                               /\ (Len(p) + 1 + i) - Len(q) = i
    BY <1>5, <1>7
  <2> QED BY <1>6, <2>1
<1>11. Len(k) = Len(p) + 1 + Len(d)
  BY <1>5, <1>6, <1>7
<1>12. X!childId(p, n) = k
  BY <1>2 DEF k, q
<1> QED BY <1>6, <1>8, <1>9, <1>10, <1>11, <1>12 DEF d

(* A key is a number's digits; no child's id is one.                       *)
LEMMA KeysAreDigits ==
    /\ Keys \subseteq Seq(Numerals)
    /\ \A n \in Nat : X!parentId(n) \in Keys
    /\ \A p \in Keys, n \in Nat : X!childId(p, n) \notin Keys
<1>1. Keys \subseteq Seq(Numerals)
  BY DigitsTyped DEF Keys
<1>2. \A n \in Nat : X!parentId(n) \in Keys
  BY DEF X!parentId, Keys
<1>3. ASSUME NEW p \in Keys, NEW n \in Nat PROVE X!childId(p, n) \notin Keys
  <2> DEFINE k == X!childId(p, n)
             d == X!digits[n]
  <2>1. p \in Seq(Numerals) /\ d \in Seq(Numerals)
    BY <1>1, DigitsTyped
  <2>2. Len(k) = Len(p) + 1 + Len(d) /\ k[Len(p) + 1] = "/"
    BY <2>1, ChildIdWords
  <2>3. Len(p) \in Nat /\ Len(d) \in Nat
    BY <2>1, LenProperties
  <2> HIDE DEF k, d
  <2>4. Len(p) + 1 \in 1 .. Len(k)
    BY <2>2, <2>3
  <2>5. ASSUME k \in Seq(Numerals) PROVE FALSE
    <3>1. k[Len(p) + 1] \in Numerals
      BY <2>4, <2>5, ElementOfSeq
    <3> QED BY <3>1, <2>2, NumeralsDiffer
  <2> QED BY <1>1, <2>5 DEF k
<1> QED BY <1>1, <1>2, <1>3

(* Two children's ids end in the same number only if it is the same one.   *)
LEMMA ChildIdsDiffer ==
    ASSUME NEW p \in Keys, NEW q \in Keys, NEW m \in Nat, NEW n \in Nat,
           X!childId(p, m) = X!childId(q, n)
    PROVE  m = n
<1> DEFINE k == X!childId(p, m)
           l == X!childId(q, n)
           a == X!digits[m]
           b == X!digits[n]
<1>1. p \in Seq(Numerals) /\ q \in Seq(Numerals) /\ a \in Seq(Numerals) /\ b \in Seq(Numerals)
  BY KeysAreDigits, DigitsTyped
<1>2. /\ Len(k) = Len(p) + 1 + Len(a) /\ k[Len(p) + 1] = "/"
      /\ \A i \in 1 .. Len(p) : k[i] = p[i]
      /\ \A i \in 1 .. Len(a) : k[Len(p) + 1 + i] = a[i]
  BY <1>1, ChildIdWords
<1>3. /\ Len(l) = Len(q) + 1 + Len(b) /\ l[Len(q) + 1] = "/"
      /\ \A i \in 1 .. Len(q) : l[i] = q[i]
      /\ \A i \in 1 .. Len(b) : l[Len(q) + 1 + i] = b[i]
  BY <1>1, ChildIdWords
<1>k. l = k
  OBVIOUS
<1>4. Len(p) \in Nat /\ Len(q) \in Nat /\ Len(a) \in Nat /\ Len(b) \in Nat
  BY <1>1, LenProperties
<1>5. /\ \A i \in 1 .. Len(p) : p[i] # "/"
      /\ \A i \in 1 .. Len(q) : q[i] # "/"
  BY <1>1, ElementOfSeq, NumeralsDiffer
<1> HIDE DEF k, l, a, b
<1>6. Len(p) = Len(q)
  <2>1. ~(Len(p) < Len(q))
    <3> SUFFICES ASSUME Len(p) < Len(q) PROVE FALSE
      OBVIOUS
    <3>1. Len(p) + 1 \in 1 .. Len(q)
      BY <1>4
    <3> QED BY <3>1, <1>2, <1>3, <1>5, <1>k
  <2>2. ~(Len(q) < Len(p))
    <3> SUFFICES ASSUME Len(q) < Len(p) PROVE FALSE
      OBVIOUS
    <3>1. Len(q) + 1 \in 1 .. Len(p)
      BY <1>4
    <3> QED BY <3>1, <1>2, <1>3, <1>5, <1>k
  <2> QED BY <2>1, <2>2, <1>4
<1>7. Len(a) = Len(b)
  BY <1>2, <1>3, <1>4, <1>6, <1>k
<1>8. \A i \in 1 .. Len(a) : a[i] = b[i]
  BY <1>2, <1>3, <1>6, <1>7, <1>k
<1>9. a = b
  BY <1>1, <1>7, <1>8, SeqEqual
<1> QED BY <1>9, DigitsDiffer DEF a, b

(* An id that is given out next was not given out before.                  *)
LEMMA NextIsNew ==
    ASSUME parentIds \in Nat, childIds \in Nat
    PROVE  /\ X!parentId(parentIds + 1) \notin PIds \cup CIds
           /\ \A p \in Keys : X!childId(p, childIds + 1) \notin PIds \cup CIds
<1>1. PIds \subseteq Keys /\ CIds \cap Keys = {}
  BY KeysAreDigits DEF PIds, CIds
<1>2. X!parentId(parentIds + 1) \notin PIds
  <2> SUFFICES ASSUME NEW n \in 1 .. parentIds, X!parentId(parentIds + 1) = X!parentId(n)
               PROVE  FALSE
    BY DEF PIds
  <2>1. parentIds + 1 \in Nat /\ n \in Nat /\ n # parentIds + 1
    OBVIOUS
  <2>2. X!digits[parentIds + 1] = X!digits[n]
    BY DEF X!parentId
  <2> QED BY <2>1, <2>2, DigitsDiffer
<1>3. ASSUME NEW p \in Keys PROVE X!childId(p, childIds + 1) \notin CIds
  <2> SUFFICES ASSUME NEW q \in Keys, NEW n \in 1 .. childIds,
                      X!childId(p, childIds + 1) = X!childId(q, n)
               PROVE  FALSE
    BY DEF CIds
  <2>1. childIds + 1 \in Nat /\ n \in Nat /\ n # childIds + 1
    OBVIOUS
  <2> QED BY <2>1, ChildIdsDiffer
<1>4. X!parentId(parentIds + 1) \in Keys
  BY KeysAreDigits
<1>5. \A p \in Keys : X!childId(p, childIds + 1) \notin Keys
  BY KeysAreDigits
<1> QED BY <1>1, <1>2, <1>3, <1>4, <1>5

(* What stands before the first slash of a child's id is its parent's.     *)
LEMMA ParentOfChildId ==
    ASSUME NEW p \in Keys, NEW n \in Nat
    PROVE  X!parentOf(X!childId(p, n)) = p
<1> DEFINE k == X!childId(p, n)
           d == X!digits[n]
           I == {i \in 1 .. Len(k) : k[i] = "/"}
           m == Len(p) + 1
<1>1. p \in Seq(Numerals) /\ d \in Seq(Numerals)
  BY KeysAreDigits, DigitsTyped
<1>2. /\ k \in Seq(Words)
      /\ Len(k) = m + Len(d) /\ k[m] = "/"
      /\ \A i \in 1 .. Len(p) : k[i] = p[i]
  BY <1>1, ChildIdWords
<1>3. Len(p) \in Nat /\ Len(d) \in Nat
  BY <1>1, LenProperties
<1>4. \A i \in 1 .. Len(p) : p[i] # "/"
  BY <1>1, ElementOfSeq, NumeralsDiffer
<1>5. X!parentOf(k) = SubSeq(k, 1, (IF I # {} THEN X!Min(I) ELSE 0) - 1)
  BY Zenon DEF X!parentOf, X!SelectInSeq
<1> HIDE DEF k, d
<1>6. m \in I /\ \A i \in I : i >= m
  <2>1. m \in I
    BY <1>2, <1>3
  <2>2. ASSUME NEW i \in I, ~(i >= m) PROVE FALSE
    <3>1. i \in 1 .. Len(p)
      BY <2>2, <1>2, <1>3
    <3> QED BY <3>1, <1>2, <1>4
  <2> QED BY <2>1, <2>2
<1>7. X!Min(I) = m
  <2>0. I \subseteq Nat
    BY <1>2, <1>3
  <2> HIDE DEF I
  <2>1. m \in I /\ \A y \in I : m <= y
    BY <1>6, <2>0, <1>3
  <2>2. \A x \in I : (\A y \in I : x <= y) => x = m
    BY <2>0, <2>1
  <2>3. X!Min(I) = CHOOSE x \in I : \A y \in I : x <= y
    BY DEF X!Min
  <2> QED BY <2>1, <2>2, <2>3
<1>8. X!parentOf(k) = SubSeq(k, 1, Len(p))
  <2>1. I # {}
    BY <1>6
  <2> HIDE DEF I
  <2>2. m - 1 = Len(p)
    BY <1>3
  <2> HIDE DEF m
  <2> QED BY <2>1, <2>2, <1>5, <1>7
<1>9. /\ SubSeq(k, 1, Len(p)) \in Seq(Words) /\ Len(SubSeq(k, 1, Len(p))) = Len(p)
      /\ \A i \in 1 .. Len(p) : SubSeq(k, 1, Len(p))[i] = k[i]
  BY <1>2, <1>3
<1>10. p \in Seq(Words)
  BY <1>1, SeqMonotonic DEF Words
<1>11. SubSeq(k, 1, Len(p)) = p
  <2> DEFINE s == SubSeq(k, 1, Len(p))
  <2> HIDE DEF s
  <2>1. s \in Seq(Words) /\ Len(s) = Len(p) /\ \A i \in 1 .. Len(s) : s[i] = p[i]
    BY <1>2, <1>9 DEF s
  <2>2. s = p
    BY <2>1, <1>10, SeqEqual
  <2> QED BY <2>2 DEF s
<1> QED BY <1>8, <1>11 DEF k

(* A prefix, word by word.                                                 *)
LEMMA PrefixWords ==
    ASSUME NEW T, NEW s \in Seq(T), NEW t \in Seq(T)
    PROVE  X!IsPrefix(s, t) <=> Len(s) <= Len(t) /\ \A i \in 1 .. Len(s) : s[i] = t[i]
<1>1. Len(s) \in Nat /\ Len(t) \in Nat
  BY LenProperties
<1>2. SubSeq(s, 1, Len(s)) = s
  BY <1>1, SubSeqFull
<1>3. ASSUME Len(s) <= Len(t)
      PROVE  /\ SubSeq(t, 1, Len(s)) \in Seq(T) /\ Len(SubSeq(t, 1, Len(s))) = Len(s)
             /\ \A i \in 1 .. Len(s) : SubSeq(t, 1, Len(s))[i] = t[i]
  BY <1>1, <1>3
<1> DEFINE u == SubSeq(t, 1, Len(s))
<1> HIDE DEF u
<1>4. ASSUME Len(s) <= Len(t) PROVE s = u <=> \A i \in 1 .. Len(s) : s[i] = t[i]
  <2>1. u \in Seq(T) /\ Len(u) = Len(s) /\ \A i \in 1 .. Len(s) : u[i] = t[i]
    BY <1>3, <1>4 DEF u
  <2> QED BY <2>1, SeqEqual
<1>5. X!IsPrefix(s, t) <=> Len(s) <= Len(t) /\ SubSeq(s, 1, Len(s)) = SubSeq(t, 1, Len(s))
  BY DEF X!IsPrefix
<1> QED BY <1>2, <1>4, <1>5 DEF u

(* A parent's id that a child's id begins with begins the id of the parent *)
(* of that child: whatever ListChildren finds by its prefix.               *)
LEMMA PrefixOfChildId ==
    ASSUME NEW p \in Keys, NEW q \in Keys, NEW n \in Nat, X!IsPrefix(q, X!childId(p, n))
    PROVE  /\ X!IsPrefix(q, p)
           /\ Len(q) = Len(p) => q = p
<1> DEFINE k == X!childId(p, n)
           d == X!digits[n]
<1>1. p \in Seq(Numerals) /\ q \in Seq(Numerals) /\ d \in Seq(Numerals)
  BY KeysAreDigits, DigitsTyped
<1>2. /\ k \in Seq(Words)
      /\ Len(k) = Len(p) + 1 + Len(d) /\ k[Len(p) + 1] = "/"
      /\ \A i \in 1 .. Len(p) : k[i] = p[i]
  BY <1>1, ChildIdWords
<1>3. Len(p) \in Nat /\ Len(q) \in Nat /\ Len(d) \in Nat
  BY <1>1, LenProperties
<1>4. \A i \in 1 .. Len(q) : q[i] # "/"
  BY <1>1, ElementOfSeq, NumeralsDiffer
<1>5. p \in Seq(Words) /\ q \in Seq(Words)
  BY <1>1, SeqMonotonic DEF Words
<1>0. X!IsPrefix(q, k)
  OBVIOUS
<1> HIDE DEF k, d
<1>6. Len(q) <= Len(k) /\ \A i \in 1 .. Len(q) : q[i] = k[i]
  BY <1>0, <1>2, <1>5, PrefixWords
<1>7. Len(q) <= Len(p)
  <2> SUFFICES ASSUME ~(Len(q) <= Len(p)) PROVE FALSE
    OBVIOUS
  <2>1. Len(p) + 1 \in 1 .. Len(q)
    BY <1>3
  <2> QED BY <2>1, <1>2, <1>4, <1>6
<1>8. \A i \in 1 .. Len(q) : q[i] = p[i]
  BY <1>2, <1>3, <1>6, <1>7
<1>9. X!IsPrefix(q, p)
  BY <1>5, <1>7, <1>8, PrefixWords
<1>10. Len(q) = Len(p) => q = p
  BY <1>5, <1>8, SeqEqual
<1> QED BY <1>9, <1>10

-----------------------------------------------------------------------------
(* What the gateway makes of the values of a relation: one list.           *)

(* Two sequences of one length, related place by place.                    *)
Aligned(R, s, t) ==
    Len(s) = Len(t) /\ \A i \in 1 .. Len(s) : <<s[i], t[i]>> \in R

(* They stay so when related ones are put after them.                      *)
LEMMA ConcatAligned ==
    ASSUME NEW R, NEW T, NEW U, NEW s \in Seq(T), NEW t \in Seq(U), NEW a \in Seq(T),
           NEW b \in Seq(U), Aligned(R, s, t), Aligned(R, a, b)
    PROVE  s \o a \in Seq(T) /\ t \o b \in Seq(U) /\ Aligned(R, s \o a, t \o b)
<1> DEFINE v == s \o a
           w == t \o b
<1>1. /\ v \in Seq(T) /\ Len(v) = Len(s) + Len(a)
      /\ \A i \in 1 .. (Len(s) + Len(a)) : v[i] = IF i <= Len(s) THEN s[i] ELSE a[i - Len(s)]
  BY ConcatProperties, Zenon
<1>2. /\ w \in Seq(U) /\ Len(w) = Len(t) + Len(b)
      /\ \A i \in 1 .. (Len(t) + Len(b)) : w[i] = IF i <= Len(t) THEN t[i] ELSE b[i - Len(t)]
  BY ConcatProperties, Zenon
<1>3. Len(s) \in Nat /\ Len(a) \in Nat /\ Len(s) = Len(t) /\ Len(a) = Len(b)
  BY LenProperties DEF Aligned
<1> HIDE DEF v, w
<1>4. ASSUME NEW i \in 1 .. Len(v) PROVE <<v[i], w[i]>> \in R
  <2>1. CASE i <= Len(s)
    <3>1. i \in 1 .. Len(s)
      BY <1>1, <1>3, <2>1
    <3>2. v[i] = s[i] /\ w[i] = t[i]
      BY <1>1, <1>2, <1>3, <2>1
    <3> QED BY <3>1, <3>2 DEF Aligned
  <2>2. CASE ~(i <= Len(s))
    <3>1. i - Len(s) \in 1 .. Len(a)
      BY <1>1, <1>3, <2>2
    <3>2. v[i] = a[i - Len(s)] /\ w[i] = b[i - Len(s)]
      BY <1>1, <1>2, <1>3, <2>2
    <3> QED BY <3>1, <3>2 DEF Aligned
  <2> QED BY <2>1, <2>2
<1> QED BY <1>1, <1>2, <1>3, <1>4 DEF Aligned, v, w

(* The partial results of FlattenSeq.                                      *)
Flattening(ss, g, n) ==
    g = [i \in 1 .. n |-> IF i = 1 THEN ss[i] ELSE g[i - 1] \o ss[i]]

(* FlattenSeq is what its recursion says.                                  *)
LEMMA FlattenLoop ==
    ASSUME NEW ss, Len(ss) \in Nat, Len(ss) # 0
    PROVE  \E g : Flattening(ss, g, Len(ss)) /\ X!FlattenSeq(ss) = g[Len(ss)]
<1> DEFINE S == {n \in Nat : n # 0 => \E g : Flattening(ss, g, n)}
<1>1. 0 \in S
  OBVIOUS
<1>2. ASSUME NEW n \in Nat, n \in S PROVE n + 1 \in S
  <2>1. CASE n = 0
    <3> DEFINE k == [i \in 1 .. 1 |-> ss[i]]
    <3>1. Flattening(ss, k, 1)
      BY DEF Flattening
    <3>2. \E g : Flattening(ss, g, 1)
      <4> HIDE DEF k
      <4> QED BY <3>1
    <3> QED BY <2>1, <3>2
  <2>2. CASE n # 0
    <3>1. PICK g : Flattening(ss, g, n)
      BY <1>2, <2>2
    <3> DEFINE k == [i \in 1 .. n + 1 |-> IF i = n + 1 THEN g[n] \o ss[n + 1] ELSE g[i]]
    <3>2. ASSUME NEW i \in 1 .. n + 1
          PROVE  k[i] = IF i = 1 THEN ss[i] ELSE k[i - 1] \o ss[i]
      <4>1. CASE i = n + 1
        <5>1. i # 1 /\ i - 1 = n /\ n \in 1 .. n + 1 /\ n # n + 1
          BY <2>2, <4>1
        <5>2. k[i - 1] = g[n] /\ k[i] = g[n] \o ss[i]
          BY <4>1, <5>1
        <5> QED BY <5>1, <5>2
      <4>2. CASE i # n + 1
        <5>1. i \in 1 .. n /\ (i # 1 => i - 1 \in 1 .. n + 1 /\ i - 1 # n + 1)
          BY <4>2
        <5>2. k[i] = g[i] /\ (i # 1 => k[i - 1] = g[i - 1])
          BY <4>2, <5>1
        <5>3. g[i] = IF i = 1 THEN ss[i] ELSE g[i - 1] \o ss[i]
          BY <3>1, <5>1 DEF Flattening
        <5> QED BY <5>2, <5>3
      <4> QED BY <4>1, <4>2
    <3>3. Flattening(ss, k, n + 1)
      BY <3>2 DEF Flattening
    <3>4. \E x : Flattening(ss, x, n + 1)
      <4> HIDE DEF k
      <4> QED BY <3>3
    <3> QED BY <3>4
  <2> QED BY <2>1, <2>2
<1>3. \A n \in Nat : n \in S
  <2> HIDE DEF S
  <2> QED BY <1>1, <1>2, NumbersInduct
<1>4. \E g : Flattening(ss, g, Len(ss))
  BY <1>3
<1> DEFINE f == CHOOSE g : Flattening(ss, g, Len(ss))
<1>5. Flattening(ss, f, Len(ss))
  BY <1>4, Zenon
<1>6. X!FlattenSeq(ss) = f[Len(ss)]
  BY Zenon DEF X!FlattenSeq, Flattening
<1> HIDE DEF f
<1> QED BY <1>5, <1>6

(* Lists of lists that are related place by place are so when flattened.   *)
LEMMA FlattenAligned ==
    ASSUME NEW R, NEW T, NEW U, NEW ss \in Seq(Seq(T)), NEW tt \in Seq(Seq(U)),
           Len(ss) = Len(tt), \A i \in 1 .. Len(ss) : Aligned(R, ss[i], tt[i])
    PROVE  /\ X!FlattenSeq(ss) \in Seq(T) /\ X!FlattenSeq(tt) \in Seq(U)
           /\ Aligned(R, X!FlattenSeq(ss), X!FlattenSeq(tt))
<1> DEFINE L == Len(ss)
<1>1. /\ L \in Nat /\ \A i \in 1 .. L : ss[i] \in Seq(T) /\ tt[i] \in Seq(U)
  BY LenProperties, ElementOfSeq
<1>2. CASE L = 0
  <2>1. ss = << >> /\ tt = << >>
    BY <1>2, EmptySeq
  <2>2. X!FlattenSeq(ss) = << >> /\ X!FlattenSeq(tt) = << >>
    BY <2>1 DEF X!FlattenSeq
  <2>3. << >> \in Seq(T) /\ << >> \in Seq(U) /\ Aligned(R, << >>, << >>)
    BY DEF Aligned
  <2> QED BY <2>2, <2>3
<1>3. CASE L # 0
  <2>1. PICK g : Flattening(ss, g, L) /\ X!FlattenSeq(ss) = g[L]
    BY <1>1, <1>3, FlattenLoop
  <2>2. PICK h : Flattening(tt, h, L) /\ X!FlattenSeq(tt) = h[L]
    BY <1>1, <1>3, FlattenLoop
  <2> HIDE DEF L
  <2>3. /\ g[1] = ss[1] /\ h[1] = tt[1] /\ 1 \in 1 .. L
        /\ \A i \in 1 .. L : i + 1 \in 1 .. L => /\ g[i + 1] = g[i] \o ss[i + 1]
                                                 /\ h[i + 1] = h[i] \o tt[i + 1]
    <3>1. \A i \in 1 .. L : /\ g[i] = IF i = 1 THEN ss[i] ELSE g[i - 1] \o ss[i]
                            /\ h[i] = IF i = 1 THEN tt[i] ELSE h[i - 1] \o tt[i]
      BY <2>1, <2>2 DEF Flattening
    <3>2. 1 \in 1 .. L
      BY <1>1, <1>3
    <3>3. ASSUME NEW i \in 1 .. L, i + 1 \in 1 .. L
          PROVE  g[i + 1] = g[i] \o ss[i + 1] /\ h[i + 1] = h[i] \o tt[i + 1]
      <4>1. (i + 1) - 1 = i /\ i + 1 # 1
        BY <1>1
      <4> QED BY <3>1, <3>3, <4>1
    <3> QED BY <3>1, <3>2, <3>3
  <2> DEFINE P(i) == g[i] \in Seq(T) /\ h[i] \in Seq(U) /\ Aligned(R, g[i], h[i])
             S == {i \in Nat : i \in 1 .. L => P(i)}
  <2>4. 0 \in S
    OBVIOUS
  <2>5. ASSUME NEW i \in Nat, i \in S PROVE i + 1 \in S
    <3> SUFFICES ASSUME i + 1 \in 1 .. L PROVE P(i + 1)
      OBVIOUS
    <3>0. ss[i + 1] \in Seq(T) /\ tt[i + 1] \in Seq(U) /\ Aligned(R, ss[i + 1], tt[i + 1])
      BY <1>1 DEF L
    <3>1. CASE i = 0
      BY <2>3, <3>0, <3>1
    <3>2. CASE i # 0
      <4>1. i \in 1 .. L
        BY <3>2, <1>1
      <4>2. P(i)
        BY <2>5, <4>1
      <4>3. g[i + 1] = g[i] \o ss[i + 1] /\ h[i + 1] = h[i] \o tt[i + 1]
        BY <2>3, <4>1
      <4> QED BY <3>0, <4>2, <4>3, ConcatAligned
    <3> QED BY <3>1, <3>2
  <2>6. \A i \in Nat : i \in S
    <3> HIDE DEF S
    <3> QED BY <2>4, <2>5, NumbersInduct
  <2>7. P(L)
    <3>1. L \in 1 .. L
      BY <1>1, <1>3
    <3> QED BY <2>6, <3>1, <1>1
  <2> QED BY <2>1, <2>2, <2>7
<1> QED BY <1>2, <1>3

-----------------------------------------------------------------------------
(* Routing.                                                                *)

Handler(service, methods) ==
    X!newHandler(service, X!procedures(service, methods), methods)

Path(service, method) == <<"/", service, "/", method>>

(* What a generated handler serves, and where.                             *)
LEMMA HandlerServes ==
    ASSUME NEW sv, NEW ms
    PROVE  LET h == Handler(sv, ms)
           IN  /\ h.pattern = <<"/", sv, "/">>
               /\ DOMAIN h.serve = {Path(sv, m) : m \in DOMAIN ms}
               /\ \A m \in DOMAIN ms :
                     h.serve[Path(sv, m)] =
                        [method |-> <<sv, m>>,
                         verbs  |-> IF ms[m].safe THEN {"POST", "GET"} ELSE {"POST"}]
<1> DEFINE procs == X!procedures(sv, ms)
           r(m) == [method |-> <<sv, m>>,
                    verbs  |-> IF ms[m].safe THEN {"POST", "GET"} ELSE {"POST"}]
           at(path) == CHOOSE m \in DOMAIN ms : procs[m] = path
           h == Handler(sv, ms)
<1>1. \A m \in DOMAIN ms : procs[m] = Path(sv, m)
  BY DEF X!procedures, Path
<1>2. \A m, n \in DOMAIN ms : Path(sv, m) = Path(sv, n) => m = n
  BY DEF Path
<1> HIDE DEF procs, r
<1>3. h = [pattern |-> <<"/", sv, "/">>,
           serve |-> [path \in {procs[m] : m \in DOMAIN ms} |-> r(at(path))]]
  BY Zenon DEF Handler, X!newHandler, procs, r
<1> HIDE DEF h
<1>4. {procs[m] : m \in DOMAIN ms} = {Path(sv, m) : m \in DOMAIN ms}
  BY <1>1
<1>5. \A m \in DOMAIN ms : at(Path(sv, m)) = m
  BY <1>1, <1>2
<1> HIDE DEF at
<1>6. \A m \in DOMAIN ms : h.serve[Path(sv, m)] = r(m)
  BY <1>3, <1>4, <1>5
<1>7. DOMAIN h.serve = {Path(sv, m) : m \in DOMAIN ms} /\ h.pattern = <<"/", sv, "/">>
  BY <1>3, <1>4
<1> QED BY <1>6, <1>7 DEF h, r

(* Every handler of a mux is a generated one, or serves none of the        *)
(* methods.                                                                *)
OnlyHandlers(mux) ==
    \A h \in mux : h.serve = << >> \/ \E sv, ms : h = Handler(sv, ms)

(* A path leads to the method it names and to no other.                    *)
LEMMA RouteFinds ==
    ASSUME NEW mux, OnlyHandlers(mux), NEW sv, NEW ms, Handler(sv, ms) \in mux,
           NEW m \in DOMAIN ms, NEW url, Tail(url) = Path(sv, m),
           NEW verb, verb = "POST" \/ (verb = "GET" /\ ms[m].safe)
    PROVE  X!route(mux, url, verb) = <<sv, m>>
<1> DEFINE path == Tail(url)
           found == {h \in mux : X!IsPrefix(h.pattern, path) /\ path \in DOMAIN h.serve
                                 /\ verb \in h.serve[path].verbs}
<1>1. X!route(mux, url, verb) =
         IF found = {} THEN none ELSE (CHOOSE h \in found : TRUE).serve[path].method
  BY Zenon DEF X!route
<1>0. path = Path(sv, m)
  OBVIOUS
<1> HIDE DEF path
<1>2. Handler(sv, ms) \in found
  <2> DEFINE h == Handler(sv, ms)
             v == IF ms[m].safe THEN {"POST", "GET"} ELSE {"POST"}
  <2>0. verb \in v
    OBVIOUS
  <2> HIDE DEF v
  <2>1. /\ h.pattern = <<"/", sv, "/">>
        /\ DOMAIN h.serve = {Path(sv, n) : n \in DOMAIN ms}
        /\ h.serve[Path(sv, m)] = [method |-> <<sv, m>>, verbs |-> v]
    BY HandlerServes DEF v
  <2>2. X!IsPrefix(<<"/", sv, "/">>, path)
    BY <1>0 DEF X!IsPrefix, Path
  <2>4. h \in mux
    OBVIOUS
  <2> HIDE DEF h
  <2>3. verb \in h.serve[path].verbs /\ path \in DOMAIN h.serve
    BY <1>0, <2>0, <2>1
  <2>5. h \in found
    BY <2>1, <2>2, <2>3, <2>4
  <2> QED BY <2>5 DEF h
<1>3. ASSUME NEW h \in mux, path \in DOMAIN h.serve PROVE h.serve[path].method = <<sv, m>>
  <2>1. CASE h.serve = << >>
    BY <1>3, <2>1
  <2>2. ASSUME NEW s, NEW t, h = Handler(s, t) PROVE h.serve[path].method = <<sv, m>>
    <3>0. /\ DOMAIN h.serve = {Path(s, n) : n \in DOMAIN t}
          /\ \A n \in DOMAIN t :
                h.serve[Path(s, n)] =
                   [method |-> <<s, n>>,
                    verbs  |-> IF t[n].safe THEN {"POST", "GET"} ELSE {"POST"}]
      BY <2>2, HandlerServes
    <3>1. PICK n \in DOMAIN t : path = Path(s, n)
      BY <1>3, <3>0
    <3>2. s = sv /\ n = m
      BY <3>1, <1>0 DEF Path
    <3>3. h.serve[path].method = <<s, n>>
      <4> DEFINE v == IF t[n].safe THEN {"POST", "GET"} ELSE {"POST"}
      <4>1. h.serve[Path(s, n)] = [method |-> <<s, n>>, verbs |-> v]
        BY <3>0
      <4> HIDE DEF v
      <4> QED BY <3>1, <4>1
    <3> QED BY <3>2, <3>3
  <2> QED BY <2>1, <2>2 DEF OnlyHandlers
<1>4. found # {} /\ \A h \in found : h.serve[path].method = <<sv, m>>
  BY <1>2, <1>3
<1> HIDE DEF found
<1>5. (CHOOSE h \in found : TRUE) \in found
  BY <1>4
<1> QED BY <1>1, <1>4, <1>5

(* The handlers of the two muxes.                                          *)
LEMMA Muxes ==
    /\ OnlyHandlers(X!crosstestMux) /\ OnlyHandlers(X!knittestMux)
    /\ Handler(X!ParentServiceName, X!parentServiceMethods) \in X!crosstestMux
    /\ Handler(X!ChildServiceName, X!childServiceMethods) \in X!crosstestMux
    /\ Handler(X!RelationsServiceName, X!relationsServiceMethods) \in X!crosstestMux
    /\ Handler(X!Knittest!FooServiceName, X!Knittest!fooServiceMethods) \in X!knittestMux
    /\ Handler(X!Knittest!FizzServiceName, X!Knittest!fizzServiceMethods) \in X!knittestMux
    /\ Handler(X!Knittest!RelationsServiceName, X!Knittest!relationsServiceMethods)
          \in X!knittestMux
<1>1. /\ X!NewParentServiceHandler = Handler(X!ParentServiceName, X!parentServiceMethods)
      /\ X!NewChildServiceHandler = Handler(X!ChildServiceName, X!childServiceMethods)
      /\ X!NewRelationsServiceHandler = Handler(X!RelationsServiceName, X!relationsServiceMethods)
  BY Zenon DEF X!NewParentServiceHandler, X!NewChildServiceHandler, X!NewRelationsServiceHandler,
     X!parentServiceProcedures, X!childServiceProcedures, X!relationsServiceProcedures, Handler
<1>2. \A sv, ms : X!Knittest!newHandler(sv, X!Knittest!procedures(sv, ms), ms) = Handler(sv, ms)
  BY Zenon DEF Handler, X!Knittest!newHandler, X!newHandler, X!Knittest!procedures, X!procedures
<1>3. /\ X!Knittest!NewFooServiceHandler =
            Handler(X!Knittest!FooServiceName, X!Knittest!fooServiceMethods)
      /\ X!Knittest!NewFizzServiceHandler =
            Handler(X!Knittest!FizzServiceName, X!Knittest!fizzServiceMethods)
      /\ X!Knittest!NewRelationsServiceHandler =
            Handler(X!Knittest!RelationsServiceName, X!Knittest!relationsServiceMethods)
  BY <1>2, Zenon DEF X!Knittest!NewFooServiceHandler, X!Knittest!NewFizzServiceHandler,
     X!Knittest!NewRelationsServiceHandler, X!Knittest!fooServiceProcedures,
     X!Knittest!fizzServiceProcedures, X!Knittest!relationsServiceProcedures
<1>4. OnlyHandlers(X!crosstestMux)
  BY <1>1 DEF X!crosstestMux, OnlyHandlers
<1>5. OnlyHandlers(X!knittestMux)
  BY <1>3 DEF X!knittestMux, OnlyHandlers
<1> QED BY <1>1, <1>3, <1>4, <1>5 DEF X!crosstestMux, X!knittestMux

(* A sequence is the concatenation of two when it has their elements.      *)
LEMMA ConcatIs ==
    ASSUME NEW T, NEW s \in Seq(T), NEW t \in Seq(T), NEW u \in Seq(T),
           Len(u) = Len(s) + Len(t), \A i \in 1 .. Len(s) : u[i] = s[i],
           \A i \in 1 .. Len(t) : u[Len(s) + i] = t[i]
    PROVE  s \o t = u
<1> DEFINE w == s \o t
<1>1. /\ w \in Seq(T) /\ Len(w) = Len(s) + Len(t)
      /\ \A i \in 1 .. (Len(s) + Len(t)) : w[i] = IF i <= Len(s) THEN s[i] ELSE t[i - Len(s)]
  BY ConcatProperties, Zenon
<1>2. Len(s) \in Nat /\ Len(t) \in Nat
  BY LenProperties
<1> HIDE DEF w
<1>3. ASSUME NEW i \in 1 .. Len(w) PROVE w[i] = u[i]
  <2>1. CASE i <= Len(s)
    BY <1>1, <1>2, <2>1
  <2>2. CASE ~(i <= Len(s))
    <3>1. i - Len(s) \in 1 .. Len(t) /\ Len(s) + (i - Len(s)) = i
      BY <1>1, <1>2, <2>2
    <3>2. w[i] = t[i - Len(s)]
      BY <1>1, <1>2, <2>2
    <3>3. u[Len(s) + (i - Len(s))] = t[i - Len(s)]
      BY <3>1
    <3> QED BY <3>1, <3>2, <3>3
  <2> QED BY <2>1, <2>2
<1>4. w = u
  BY <1>1, <1>3, SeqEqual
<1> QED BY <1>4 DEF w

(* A sequence of one of a sequence's words.                                *)
LEMMA OneWord ==
    ASSUME NEW T, NEW y \in Seq(T), NEW k \in 1 .. Len(y)
    PROVE  SubSeq(y, k, k) \in Seq(T) /\ Len(SubSeq(y, k, k)) = 1 /\ SubSeq(y, k, k)[1] = y[k]
<1>1. Len(y) \in Nat
  BY LenProperties
<1>2. k \in Int /\ k <= k /\ k - k + 1 = 1 /\ k + 1 - 1 = k /\ 1 \in 1 .. 1
  BY <1>1
<1>3. \A i \in k .. k : y[i] \in T
  BY <1>1, ElementOfSeq
<1>4. /\ SubSeq(y, k, k) \in Seq(T)
      /\ Len(SubSeq(y, k, k)) = IF k <= k THEN k - k + 1 ELSE 0
      /\ \A i \in 1 .. k - k + 1 : SubSeq(y, k, k)[i] = y[k + i - 1]
  BY <1>2, <1>3, SubSeqProperties
<1> QED BY <1>2, <1>4

(* How the words of a URL are put together.                                *)
LEMMA UrlWords ==
    ASSUME NEW o, NEW a, NEW m
    PROVE  /\ <<o>> \o <<"/", a, "/", m>> = <<o, "/", a, "/", m>>
           /\ <<o>> \o <<"/">> = <<o, "/">>
           /\ <<o, "/">> \o <<a, "/", m>> = <<o, "/", a, "/", m>>
           /\ SubSeq(<<o>>, 1, 1) = <<o>>
           /\ SubSeq(<<o, "/">>, 1, 1) = <<o>>
<1> DEFINE T == {o, "/", a, m}
           x == <<o>>
           y == <<o, "/">>
           s == <<"/">>
           p == <<"/", a, "/", m>>
           q == <<a, "/", m>>
           u == <<o, "/", a, "/", m>>
<1>1. /\ x \in Seq(T) /\ y \in Seq(T) /\ s \in Seq(T) /\ p \in Seq(T) /\ q \in Seq(T)
      /\ u \in Seq(T)
      /\ Len(x) = 1 /\ Len(y) = 2 /\ Len(s) = 1 /\ Len(p) = 4 /\ Len(q) = 3 /\ Len(u) = 5
  OBVIOUS
<1>2. /\ x[1] = u[1] /\ p[1] = u[2] /\ p[2] = u[3] /\ p[3] = u[4] /\ p[4] = u[5]
      /\ x[1] = y[1] /\ s[1] = y[2]
      /\ y[1] = u[1] /\ y[2] = u[2] /\ q[1] = u[3] /\ q[2] = u[4] /\ q[3] = u[5]
  OBVIOUS
<1> HIDE DEF x, y, s, p, q, u, T
<1>3. x \o p = u
  <2>1. \A i \in 1 .. Len(x) : u[i] = x[i]
    <3>1. \A i \in 1 .. Len(x) : i = 1
      BY <1>1
    <3> QED BY <1>2, <3>1
  <2>2. \A i \in 1 .. Len(p) : u[Len(x) + i] = p[i]
    <3>1. \A i \in 1 .. Len(p) : i = 1 \/ i = 2 \/ i = 3 \/ i = 4
      BY <1>1
    <3>2. Len(x) + 1 = 2 /\ Len(x) + 2 = 3 /\ Len(x) + 3 = 4 /\ Len(x) + 4 = 5
      BY <1>1
    <3> QED BY <1>2, <3>1, <3>2
  <2>3. Len(u) = Len(x) + Len(p)
    BY <1>1
  <2> QED BY <2>1, <2>2, <2>3, <1>1, ConcatIs
<1>4. x \o s = y
  <2>1. \A i \in 1 .. Len(x) : y[i] = x[i]
    <3>1. \A i \in 1 .. Len(x) : i = 1
      BY <1>1
    <3> QED BY <1>2, <3>1
  <2>2. \A i \in 1 .. Len(s) : y[Len(x) + i] = s[i]
    <3>1. \A i \in 1 .. Len(s) : i = 1
      BY <1>1
    <3>2. Len(x) + 1 = 2
      BY <1>1
    <3> QED BY <1>2, <3>1, <3>2
  <2>3. Len(y) = Len(x) + Len(s)
    BY <1>1
  <2> QED BY <2>1, <2>2, <2>3, <1>1, ConcatIs
<1>5. y \o q = u
  <2>1. \A i \in 1 .. Len(y) : u[i] = y[i]
    <3>1. \A i \in 1 .. Len(y) : i = 1 \/ i = 2
      BY <1>1
    <3> QED BY <1>2, <3>1
  <2>2. \A i \in 1 .. Len(q) : u[Len(y) + i] = q[i]
    <3>1. \A i \in 1 .. Len(q) : i = 1 \/ i = 2 \/ i = 3
      BY <1>1
    <3>2. Len(y) + 1 = 3 /\ Len(y) + 2 = 4 /\ Len(y) + 3 = 5
      BY <1>1
    <3> QED BY <1>2, <3>1, <3>2
  <2>3. Len(u) = Len(y) + Len(q)
    BY <1>1
  <2> QED BY <2>1, <2>2, <2>3, <1>1, ConcatIs
<1>6. SubSeq(x, 1, 1) = x
  BY <1>1, SubSeqFull
<1>7. SubSeq(y, 1, 1) = x
  <2> DEFINE w == SubSeq(y, 1, 1)
  <2>1. w \in Seq(T) /\ Len(w) = 1 /\ w[1] = y[1]
    <3>1. 1 \in 1 .. Len(y)
      BY <1>1
    <3> QED BY <1>1, <3>1, OneWord
  <2> HIDE DEF w
  <2>2. \A i \in 1 .. 1 : w[i] = x[i]
    BY <1>2, <2>1
  <2>3. w = x
    BY <1>1, <2>1, <2>2, SeqEqual
  <2> QED BY <2>3 DEF w
<1> QED BY <1>3, <1>4, <1>5, <1>6, <1>7 DEF x, y, s, p, q, u

(* The origin and a method's path: what a generated client calls, and the  *)
(* gateway.                                                                *)
LEMMA Urls ==
    ASSUME NEW base \in Bases \cup {X!gatewayRoute}, NEW sv, NEW m
    PROVE  /\ Tail(X!endpointURL(base, sv, m)) = Path(sv, m)
           /\ \A ms : m \in DOMAIN ms =>
                Tail(X!newClient(base, X!procedures(sv, ms), ms)[m].url) = Path(sv, m)
<1>1. PICK o : o # "/" /\ base \in {<<o>>, <<o, "/">>}
  BY CrosstestAssumption DEF X!gatewayRoute
<1>2. Tail(X!endpointURL(base, sv, m)) = Path(sv, m)
  <2> DEFINE u == <<o, "/", sv, "/", m>>
  <2>1. CASE base = <<o>>
    <3>1. X!Last(base) # "/"
      BY <1>1, <2>1 DEF X!Last
    <3>2. X!endpointURL(base, sv, m) = (<<o>> \o <<"/">>) \o <<sv, "/", m>>
      BY <2>1, <3>1 DEF X!endpointURL
    <3>3. X!endpointURL(base, sv, m) = u
      BY <3>2, UrlWords
    <3>4. Tail(u) = Path(sv, m)
      BY DEF Path
    <3> QED BY <3>3, <3>4
  <2>2. CASE base = <<o, "/">>
    <3>1. X!Last(base) = "/"
      BY <2>2 DEF X!Last
    <3>2. X!endpointURL(base, sv, m) = (<<o, "/">> \o << >>) \o <<sv, "/", m>>
      BY <2>2, <3>1 DEF X!endpointURL
    <3>5. <<o, "/">> \o << >> = <<o, "/">>
      OBVIOUS
    <3>3. X!endpointURL(base, sv, m) = u
      BY <3>2, <3>5, UrlWords
    <3>4. Tail(u) = Path(sv, m)
      BY DEF Path
    <3> QED BY <3>3, <3>4
  <2> QED BY <1>1, <2>1, <2>2
<1>3. ASSUME NEW ms, m \in DOMAIN ms
      PROVE  Tail(X!newClient(base, X!procedures(sv, ms), ms)[m].url) = Path(sv, m)
  <2> DEFINE I == {i \in 1 .. Len(base) : base[i] # "/"}
             b == SubSeq(base, 1, IF I # {} THEN X!Max(I) ELSE 0)
  <2>1. X!newClient(base, X!procedures(sv, ms), ms) =
           [x \in DOMAIN ms |-> [url |-> b \o X!procedures(sv, ms)[x], get |-> ms[x].safe]]
    BY Zenon DEF X!newClient, X!SelectLastInSeq
  <2>2. I = {1}
    BY <1>1
  <2>3. X!Max({1}) = 1
    BY DEF X!Max
  <2>4. b = <<o>>
    <3>1. b = SubSeq(base, 1, 1)
      <4> HIDE DEF I
      <4>1. I # {}
        BY <2>2
      <4> QED BY <2>2, <2>3, <4>1
    <3> HIDE DEF b
    <3> QED BY <1>1, <3>1, UrlWords
  <2>5. X!procedures(sv, ms)[m] = Path(sv, m)
    BY <1>3 DEF X!procedures, Path
  <2> HIDE DEF b
  <2>6. X!newClient(base, X!procedures(sv, ms), ms)[m].url = <<o>> \o Path(sv, m)
    BY <1>3, <2>1, <2>4, <2>5
  <2>7. Tail(<<o>> \o Path(sv, m)) = Path(sv, m)
    <3>1. <<o>> \o Path(sv, m) = <<o, "/", sv, "/", m>>
      BY UrlWords DEF Path
    <3>2. Tail(<<o, "/", sv, "/", m>>) = Path(sv, m)
      BY DEF Path
    <3> QED BY <3>1, <3>2
  <2> QED BY <2>6, <2>7
<1> QED BY <1>2, <1>3

Mux == IF program = "knit_test" THEN X!knittestMux ELSE X!crosstestMux

(* A service's handler is mounted on the mux, and its client is generated  *)
(* for the same methods.                                                   *)
LEMMA ServicesMounted ==
    ASSUME program \in {"crosstest-server", "knit_test"}, NEW base, NEW s \in X!services(base)
    PROVE  /\ Handler(s[1], s[2]) \in Mux
           /\ s[3] = X!newClient(base, X!procedures(s[1], s[2]), s[2])
<1>1. /\ X!NewParentServiceClient(base) =
            X!newClient(base, X!procedures(X!ParentServiceName, X!parentServiceMethods),
                        X!parentServiceMethods)
      /\ X!NewChildServiceClient(base) =
            X!newClient(base, X!procedures(X!ChildServiceName, X!childServiceMethods),
                        X!childServiceMethods)
      /\ X!NewRelationsServiceClient(base) =
            X!newClient(base, X!procedures(X!RelationsServiceName, X!relationsServiceMethods),
                        X!relationsServiceMethods)
  BY Zenon DEF X!NewParentServiceClient, X!NewChildServiceClient, X!NewRelationsServiceClient,
     X!parentServiceProcedures, X!childServiceProcedures, X!relationsServiceProcedures
<1>2. \A sv, ms : X!Knittest!newClient(base, X!Knittest!procedures(sv, ms), ms)
                  = X!newClient(base, X!procedures(sv, ms), ms)
  BY Zenon DEF X!Knittest!newClient, X!newClient, X!Knittest!procedures, X!procedures,
     X!Knittest!SelectLastInSeq, X!SelectLastInSeq, X!Knittest!Max, X!Max
<1>3. /\ X!Knittest!NewFooServiceClient(base) =
            X!newClient(base, X!procedures(X!Knittest!FooServiceName, X!Knittest!fooServiceMethods),
                        X!Knittest!fooServiceMethods)
      /\ X!Knittest!NewFizzServiceClient(base) =
            X!newClient(base, X!procedures(X!Knittest!FizzServiceName,
                                           X!Knittest!fizzServiceMethods),
                        X!Knittest!fizzServiceMethods)
      /\ X!Knittest!NewRelationsServiceClient(base) =
            X!newClient(base, X!procedures(X!Knittest!RelationsServiceName,
                                           X!Knittest!relationsServiceMethods),
                        X!Knittest!relationsServiceMethods)
  BY <1>2, Zenon DEF X!Knittest!NewFooServiceClient, X!Knittest!NewFizzServiceClient,
     X!Knittest!NewRelationsServiceClient, X!Knittest!fooServiceProcedures,
     X!Knittest!fizzServiceProcedures, X!Knittest!relationsServiceProcedures
<1>4. CASE program = "crosstest-server"
  <2>1. Mux = X!crosstestMux
    BY <1>4 DEF Mux
  <2>2. \/ s = <<X!ParentServiceName, X!parentServiceMethods, X!NewParentServiceClient(base)>>
        \/ s = <<X!ChildServiceName, X!childServiceMethods, X!NewChildServiceClient(base)>>
        \/ s = <<X!RelationsServiceName, X!relationsServiceMethods,
                 X!NewRelationsServiceClient(base)>>
    BY <1>4 DEF X!services
  <2> QED BY <1>1, <2>1, <2>2, Muxes
<1>5. CASE program = "knit_test"
  <2>1. Mux = X!knittestMux
    BY <1>5 DEF Mux
  <2>2. \/ s = <<X!Knittest!FooServiceName, X!Knittest!fooServiceMethods,
                 X!Knittest!NewFooServiceClient(base)>>
        \/ s = <<X!Knittest!FizzServiceName, X!Knittest!fizzServiceMethods,
                 X!Knittest!NewFizzServiceClient(base)>>
        \/ s = <<X!Knittest!RelationsServiceName, X!Knittest!relationsServiceMethods,
                 X!Knittest!NewRelationsServiceClient(base)>>
    BY <1>5 DEF X!services
  <2> QED BY <1>3, <2>1, <2>2, Muxes
<1> QED BY <1>4, <1>5

CrosstestMethods ==
    {<<X!ParentServiceName, m>> : m \in {"ListParents", "GetParent", "CreateParent",
                                         "UpdateParent", "DeleteParent"}}
    \cup {<<X!ChildServiceName, m>> : m \in {"ListChildren", "GetChild", "CreateChild",
                                             "UpdateChild", "DeleteChild"}}
    \cup {<<X!RelationsServiceName, m>> : m \in {"GetChildParent", "GetParentChildren"}}

Mutating == {"CreateParent", "UpdateParent", "DeleteParent",
             "CreateChild", "UpdateChild", "DeleteChild"}

(* How a method is implemented: by the crosstest server its own methods    *)
(* are, and by a stub only relations of knit_test.go are.  None that       *)
(* changes a store is declared without side effects.                       *)
LEMMA MethodsImplemented ==
    ASSUME NEW base, NEW s \in X!services(base), NEW m \in DOMAIN s[2]
    PROVE  /\ X!implementation[s[1]][m] \in {"crosstest", "test", "unimplemented"}
           /\ X!implementation[s[1]][m] = "crosstest" => <<s[1], m>> \in CrosstestMethods
           /\ X!implementation[s[1]][m] = "unimplemented" =>
                 s[1] = X!Knittest!RelationsServiceName
           /\ s[2][m].safe => m \notin Mutating
<1> DEFINE impl(sv) == X!implementation[sv]
<1>1. /\ impl(X!ParentServiceName) =
            X!embeds({"ListParents", "GetParent", "CreateParent", "UpdateParent",
                      "DeleteParent"}, "crosstest", X!UnimplementedParentServiceHandler)
      /\ impl(X!ChildServiceName) =
            X!embeds({"ListChildren", "GetChild", "CreateChild", "UpdateChild",
                      "DeleteChild"}, "crosstest", X!UnimplementedChildServiceHandler)
      /\ impl(X!RelationsServiceName) =
            [x \in {"GetChildParent", "GetParentChildren"} |-> "crosstest"]
  BY DEF X!implementation, X!ParentServiceName, X!ChildServiceName, X!RelationsServiceName,
     X!Knittest!FooServiceName, X!Knittest!FizzServiceName, X!Knittest!RelationsServiceName
<1>2. /\ impl(X!Knittest!RelationsServiceName) =
            X!embeds({"GetFooBars", "GetFooDescription", "GetBarBaz", "GetBarBedazzles",
                      "GetFizzBuzzes"}, "test", X!Knittest!UnimplementedRelationsServiceHandler)
      /\ impl(X!Knittest!FooServiceName) = [x \in {"GetFoo", "MutateFoo", "QueryFoos"} |-> "test"]
      /\ impl(X!Knittest!FizzServiceName) = [x \in {"GetFizz"} |-> "test"]
  BY DEF X!implementation, X!ParentServiceName, X!ChildServiceName, X!RelationsServiceName,
     X!Knittest!FooServiceName, X!Knittest!FizzServiceName, X!Knittest!RelationsServiceName
<1> HIDE DEF impl
<1>3. CASE s[1] = X!ParentServiceName /\ s[2] = X!parentServiceMethods
  <2>1. DOMAIN s[2] = {"ListParents", "GetParent", "CreateParent", "UpdateParent", "DeleteParent"}
    BY <1>3 DEF X!parentServiceMethods
  <2>2. impl(s[1])[m] = "crosstest"
    BY <1>1, <1>3, <2>1 DEF X!embeds
  <2>3. <<s[1], m>> \in CrosstestMethods
    BY <1>3, <2>1 DEF CrosstestMethods
  <2>4. s[2][m].safe => m \notin Mutating
    BY <1>3, <2>1 DEF X!parentServiceMethods, X!safe, X!unsafe, Mutating
  <2> QED BY <2>2, <2>3, <2>4 DEF impl
<1>4. CASE s[1] = X!ChildServiceName /\ s[2] = X!childServiceMethods
  <2>1. DOMAIN s[2] = {"ListChildren", "GetChild", "CreateChild", "UpdateChild", "DeleteChild"}
    BY <1>4 DEF X!childServiceMethods
  <2>2. impl(s[1])[m] = "crosstest"
    BY <1>1, <1>4, <2>1 DEF X!embeds
  <2>3. <<s[1], m>> \in CrosstestMethods
    BY <1>4, <2>1 DEF CrosstestMethods
  <2>4. s[2][m].safe => m \notin Mutating
    BY <1>4, <2>1 DEF X!childServiceMethods, X!safe, X!unsafe, Mutating
  <2> QED BY <2>2, <2>3, <2>4 DEF impl
<1>5. CASE s[1] = X!RelationsServiceName /\ s[2] = X!relationsServiceMethods
  <2>1. DOMAIN s[2] = {"GetChildParent", "GetParentChildren"}
    BY <1>5 DEF X!relationsServiceMethods
  <2>2. impl(s[1])[m] = "crosstest"
    BY <1>1, <1>5, <2>1
  <2>3. <<s[1], m>> \in CrosstestMethods /\ m \notin Mutating
    BY <1>5, <2>1 DEF CrosstestMethods, Mutating
  <2> QED BY <2>2, <2>3 DEF impl
<1>6. CASE s[1] = X!Knittest!FooServiceName /\ s[2] = X!Knittest!fooServiceMethods
  <2>1. DOMAIN s[2] = {"GetFoo", "MutateFoo", "QueryFoos"}
    BY <1>6 DEF X!Knittest!fooServiceMethods
  <2>2. impl(s[1])[m] = "test" /\ m \notin Mutating
    BY <1>2, <1>6, <2>1 DEF Mutating
  <2> QED BY <2>2 DEF impl
<1>7. CASE s[1] = X!Knittest!FizzServiceName /\ s[2] = X!Knittest!fizzServiceMethods
  <2>1. DOMAIN s[2] = {"GetFizz"}
    BY <1>7 DEF X!Knittest!fizzServiceMethods
  <2>2. impl(s[1])[m] = "test" /\ m \notin Mutating
    BY <1>2, <1>7, <2>1 DEF Mutating
  <2> QED BY <2>2 DEF impl
<1>8. CASE s[1] = X!Knittest!RelationsServiceName /\ s[2] = X!Knittest!relationsServiceMethods
  <2>1. DOMAIN s[2] = {"GetFooStyle", "GetFooBalanceCents", "GetFooBars", "GetFooDescription",
                       "GetBarBaz", "GetBarBedazzles", "GetFizzBuzzes"}
    BY <1>8 DEF X!Knittest!relationsServiceMethods
  <2>2. \A x \in DOMAIN s[2] : X!Knittest!UnimplementedRelationsServiceHandler[x] = "unimplemented"
    BY <1>8 DEF X!Knittest!UnimplementedRelationsServiceHandler, X!Knittest!unimplemented
  <2>3. DOMAIN X!Knittest!UnimplementedRelationsServiceHandler = DOMAIN s[2]
    BY <1>8 DEF X!Knittest!UnimplementedRelationsServiceHandler, X!Knittest!unimplemented
  <2>4. impl(s[1])[m] \in {"test", "unimplemented"}
    BY <1>2, <1>8, <2>2, <2>3 DEF X!embeds
  <2>5. m \notin Mutating
    BY <2>1 DEF Mutating
  <2> QED BY <1>8, <2>4, <2>5 DEF impl
<1> QED
  <2>1. \/ s = <<X!ParentServiceName, X!parentServiceMethods, X!NewParentServiceClient(base)>>
        \/ s = <<X!ChildServiceName, X!childServiceMethods, X!NewChildServiceClient(base)>>
        \/ s = <<X!RelationsServiceName, X!relationsServiceMethods,
                 X!NewRelationsServiceClient(base)>>
        \/ s = <<X!Knittest!FooServiceName, X!Knittest!fooServiceMethods,
                 X!Knittest!NewFooServiceClient(base)>>
        \/ s = <<X!Knittest!FizzServiceName, X!Knittest!fizzServiceMethods,
                 X!Knittest!NewFizzServiceClient(base)>>
        \/ s = <<X!Knittest!RelationsServiceName, X!Knittest!relationsServiceMethods,
                 X!Knittest!NewRelationsServiceClient(base)>>
    BY DEF X!services
  <2> QED BY <2>1, <1>3, <1>4, <1>5, <1>6, <1>7, <1>8

-----------------------------------------------------------------------------
(* The crosstest server, an invariant of a call and of the stores.         *)

Shape(r) ==
    r = [via |-> r.via, asked |-> r.asked, method |-> r.method, bases |-> r.bases,
         origin |-> r.origin, pc |-> r.pc, key |-> r.key, at |-> r.at, left |-> r.left,
         seen |-> r.seen, values |-> r.values]

(* A call has come to its method; one that must not change a store has     *)
(* come to none that does.                                                 *)
Routed(r) ==
    /\ r.method = r.asked
    /\ r.pc \in {"404", "test", "unimplemented"} \/ r.method \in CrosstestMethods
    /\ r.pc = "unimplemented" => r.method[1] = X!Knittest!RelationsServiceName
    /\ r.via \in {"Fetch", "GET"} => r.method[2] \notin Mutating

(* What a call is about to store is an id that was given out for that      *)
(* store and is not gone.                                                  *)
Pending(r) ==
    /\ r.pc = "found" => r.method[2] = "CreateChild" /\ r.bases[1] \in Keys
    /\ r.pc = "store" => /\ r.method[2] \in Mutating /\ r.key \notin gone
                         /\ r.key \in IF r.method[1] = X!ParentServiceName THEN PIds ELSE CIds

Kids == {X!childId(p, n) : p \in Keys, n \in Nat}

(* Parents and ids that begin with theirs; parents and the ones whose ids  *)
(* theirs begin.                                                           *)
FoundUnder == {t \in Keys \X Kids : X!IsPrefix(t[1], t[2])}
Returned ==
    {t \in Keys \X Seq(Keys) : /\ X!IsPrefix(t[1], t[2][1])
                               /\ Len(t[1]) = Len(t[2][1]) => t[1] = t[2][1]}

(* What the three calls of one Fetch have found so far: parents, their     *)
(* children, and the parents of these.                                     *)
ParentsListed(r) ==
    r.values \in Seq(Seq(Keys)) /\ (r.pc = "range" => Len(r.values) >= 1)

ChildrenListed(r) ==
    /\ r.bases \in Seq(Keys) /\ r.values \in Seq(Seq(Kids)) /\ r.at \in Nat
    /\ Len(r.values) <= Len(r.bases)
    /\ \A i \in 1 .. Len(r.values) : \A k \in 1 .. Len(r.values[i]) :
          <<r.bases[i], r.values[i][k]>> \in FoundUnder
    /\ r.pc = "begin" => Len(r.values) + 1 = r.at
    /\ r.pc = "range" => Len(r.values) = r.at /\ r.at >= 1
    /\ r.pc = "done" => Len(r.values) = Len(r.bases)

ParentsFound(r) ==
    /\ r.origin \in Seq(Keys) /\ r.values \in Seq(Seq(Keys)) /\ r.at \in Nat
    /\ Len(r.values) <= Len(r.origin)
    /\ \A i \in 1 .. Len(r.values) : <<r.origin[i], r.values[i]>> \in Returned
    /\ r.pc = "begin" => /\ r.bases \in Seq(Kids) /\ Aligned(FoundUnder, r.origin, r.bases)
                         /\ Len(r.values) + 1 = r.at
    /\ r.pc = "done" => Len(r.values) = Len(r.origin)

Listed(r) ==
    /\ r.method[2] = "ListParents" => ParentsListed(r)
    /\ r.method[2] = "GetParentChildren" => ChildrenListed(r)
    /\ r.method[2] = "GetChildParent" => ParentsFound(r)

Fine(r) == Shape(r) /\ Routed(r) /\ Pending(r) /\ Listed(r)

StoresFine ==
    /\ parentIds \in Nat /\ childIds \in Nat
    /\ parents \subseteq PIds /\ children \subseteq CIds /\ gone \subseteq PIds \cup CIds
    /\ gone \cap (parents \cup children) = {}

CallsFine ==
    /\ call = [c \in Callers |-> call[c]]
    /\ \A c \in Callers : call[c] # none => Fine(call[c])

CInv == StoresFine /\ CallsFine

(* A call that has begun with the ids it should is fine.                   *)
LEMMA BegunFine ==
    ASSUME NEW via, NEW asked, NEW bases, NEW origin,
           LET impl == X!implementation[asked[1]][asked[2]]
           IN  /\ impl \in {"crosstest", "test", "unimplemented"}
               /\ impl = "crosstest" => asked \in CrosstestMethods
               /\ impl = "unimplemented" => asked[1] = X!Knittest!RelationsServiceName,
           via \in {"Fetch", "GET"} => asked[2] \notin Mutating,
           asked[2] = "GetParentChildren" => bases \in Seq(Keys),
           asked[2] = "GetChildParent" => /\ bases \in Seq(Kids) /\ origin \in Seq(Keys)
                                          /\ Aligned(FoundUnder, origin, bases)
    PROVE  Fine(X!begin(via, asked, asked, bases, origin))
<1> DEFINE r == X!begin(via, asked, asked, bases, origin)
           impl == X!implementation[asked[1]][asked[2]]
<1> HIDE DEF impl
<1>0. /\ impl \in {"crosstest", "test", "unimplemented"}
      /\ impl = "crosstest" => asked \in CrosstestMethods
      /\ impl = "unimplemented" => asked[1] = X!Knittest!RelationsServiceName
  BY DEF impl
<1> DEFINE p == IF asked = none THEN "404" ELSE IF impl = "crosstest" THEN "begin" ELSE impl
<1>1. r = [via |-> via, asked |-> asked, method |-> asked, bases |-> bases, origin |-> origin,
           pc |-> p, key |-> none, at |-> 1, left |-> {}, seen |-> {}, values |-> << >>]
  BY Zenon DEF X!begin, impl
<1>2. /\ p \in {"404", "begin", "test", "unimplemented"}
      /\ p = "begin" => asked \in CrosstestMethods
      /\ p = "unimplemented" => asked[1] = X!Knittest!RelationsServiceName
  BY <1>0
<1> HIDE DEF r, p
<1>3. /\ r.via = via /\ r.asked = asked /\ r.method = asked /\ r.bases = bases
      /\ r.origin = origin /\ r.pc = p /\ r.at = 1 /\ r.values = << >>
  BY <1>1
<1>4. Shape(r)
  BY <1>1 DEF Shape
<1>5. Routed(r)
  BY <1>2, <1>3 DEF Routed
<1>6. Pending(r)
  BY <1>2, <1>3 DEF Pending
<1>7. Listed(r)
  <2>0. << >> \in Seq(Seq(Keys)) /\ << >> \in Seq(Seq(Kids)) /\ Len(<< >>) = 0 /\ 0 + 1 = 1
        /\ 1 \in Nat
    OBVIOUS
  <2>1. ParentsListed(r)
    BY <1>2, <1>3, <2>0 DEF ParentsListed
  <2>2. ASSUME asked[2] = "GetParentChildren" PROVE ChildrenListed(r)
    BY <1>2, <1>3, <2>0, <2>2 DEF ChildrenListed
  <2>3. ASSUME asked[2] = "GetChildParent" PROVE ParentsFound(r)
    BY <1>2, <1>3, <2>0, <2>3 DEF ParentsFound
  <2> QED BY <1>3, <2>1, <2>2, <2>3 DEF Listed
<1> QED BY <1>4, <1>5, <1>6, <1>7 DEF Fine, r

(* Others' calls stay fine while ids are given out and none goes.          *)
LEMMA OtherCallsStayFine ==
    ASSUME NEW d \in Callers, Fine(call[d]), call'[d] = call[d],
           PIds \subseteq PIds', CIds \subseteq CIds', gone' = gone
    PROVE  Fine(call[d])'
<1>1. Shape(call[d])' /\ Routed(call[d])' /\ Listed(call[d])'
  BY Zenon DEF Fine, Shape, Routed, Listed, ParentsListed, ChildrenListed, ParentsFound, Aligned
<1>2. Pending(call[d])'
  BY DEF Fine, Pending
<1> QED BY <1>1, <1>2 DEF Fine

(* A step of one call.                                                     *)
OnlyCall(c) == call' = [d \in Callers |-> IF d = c THEN call'[c] ELSE call[d]]

(* Such a step keeps the invariant if the stores and that call are fine.   *)
LEMMA OneCallChanges ==
    ASSUME CInv, StoresFine', NEW c \in Callers, OnlyCall(c),
           call'[c] # none => Fine(call[c])',
           PIds \subseteq PIds', CIds \subseteq CIds', gone' = gone
    PROVE  CInv'
<1>1. call' = [d \in Callers |-> call'[d]]
  BY DEF OnlyCall
<1>2. ASSUME NEW d \in Callers, call'[d] # none PROVE Fine(call[d])'
  <2>1. CASE d = c
    BY <1>2, <2>1
  <2>2. CASE d # c
    <3>1. call'[d] = call[d]
      BY <2>2 DEF OnlyCall
    <3>2. Fine(call[d])
      BY <1>2, <3>1 DEF CInv, CallsFine
    <3> QED BY <3>1, <3>2, OtherCallsStayFine
  <2> QED BY <2>1, <2>2
<1>3. CallsFine'
  BY <1>1, <1>2, Zenon DEF CallsFine
<1> QED BY <1>3 DEF CInv

Stores == <<parents, parentIds, children, childIds, gone>>

(* A step of one call that leaves the stores alone.                        *)
LEMMA QuietCall ==
    ASSUME CInv, NEW c \in Callers, OnlyCall(c), call'[c] # none => Fine(call[c])',
           UNCHANGED Stores
    PROVE  CInv'
<1>1. PIds' = PIds /\ CIds' = CIds /\ gone' = gone
  BY DEF Stores, PIds, CIds
<1>2. StoresFine'
  BY <1>1 DEF CInv, StoresFine, Stores
<1> QED BY <1>1, <1>2, OneCallChanges

(* What a call begins with that a client makes.                            *)
LEMMA ArgsOf ==
    ASSUME NEW m, NEW bases \in X!args(m), m \in {"GetParentChildren", "GetChildParent"}
    PROVE  bases = << >>
BY DEF X!args

(* What is fine is so in the step that takes it for a call.                *)
LEMMA BecomesFine ==
    ASSUME NEW c \in Callers, NEW r, Fine(r), call'[c] = r, UNCHANGED Stores
    PROVE  Fine(call[c])'
<1>1. PIds' = PIds /\ CIds' = CIds /\ gone' = gone
  BY DEF Stores, PIds, CIds
<1>2. Shape(call[c])'
  BY DEF Fine, Shape
<1>3. Routed(call[c])'
  BY DEF Fine, Routed
<1>4. Pending(call[c])'
  BY <1>1 DEF Fine, Pending
<1>5. Listed(call[c])'
  <2>1. ParentsListed(r) => ParentsListed(call[c])'
    BY DEF ParentsListed
  <2>2. ChildrenListed(r) => ChildrenListed(call[c])'
    BY DEF ChildrenListed
  <2>3. ParentsFound(r) => ParentsFound(call[c])'
    BY DEF ParentsFound, Aligned
  <2> QED BY <2>1, <2>2, <2>3 DEF Fine, Listed
<1> QED BY <1>2, <1>3, <1>4, <1>5 DEF Fine

(* How a client's call begins.                                             *)
Begins(c, base, via, verb, s, m, bases) ==
    /\ verb = "GET" => via = "client" /\ s[3][m].get
    /\ via = "Fetch" => s[2][m].safe /\ ~s[2][m].stream
    /\ via = "Do" => ~s[2][m].stream
    /\ LET url == IF via = "client" THEN s[3][m].url ELSE X!endpointURL(base, s[1], m)
       IN  call' = [call EXCEPT ![c] =
                      X!begin(IF via = "Fetch" THEN via ELSE verb, <<s[1], m>>,
                              X!route(IF program = "knit_test" THEN X!knittestMux
                                      ELSE X!crosstestMux, url, verb), bases, << >>)]

(* Whoever calls, by whatever base URL, a call begins at its method.       *)
LEMMA CallFine ==
    ASSUME CInv, program \in {"crosstest-server", "knit_test"}, NEW c \in Callers, X!Call(c)
    PROVE  CInv'
<1>1. PICK base \in Bases, via \in {"client", "Fetch", "Do"}, verb \in {"POST", "GET"} :
         \E s \in X!services(base) : \E m \in DOMAIN s[2] : \E bases \in X!args(m) :
            Begins(c, base, via, verb, s, m, bases)
  BY Zenon DEF X!Call, Begins
<1>2. PICK s \in X!services(base) : \E m \in DOMAIN s[2] : \E bases \in X!args(m) :
         Begins(c, base, via, verb, s, m, bases)
  BY <1>1, Zenon
<1>a. PICK m \in DOMAIN s[2] : \E bases \in X!args(m) : Begins(c, base, via, verb, s, m, bases)
  BY <1>2, Zenon
<1>b. PICK bases \in X!args(m) : Begins(c, base, via, verb, s, m, bases)
  BY <1>a, Zenon
<1>3. /\ verb = "GET" => via = "client" /\ s[3][m].get
      /\ via = "Fetch" => s[2][m].safe /\ ~s[2][m].stream
  BY <1>b, Zenon DEF Begins
<1> DEFINE url == IF via = "client" THEN s[3][m].url ELSE X!endpointURL(base, s[1], m)
           v == IF via = "Fetch" THEN via ELSE verb
           asked == <<s[1], m>>
<1>4. call' = [call EXCEPT ![c] = X!begin(v, asked, X!route(Mux, url, verb), bases, << >>)]
  BY <1>b, Zenon DEF Begins, Mux
<1>5. Handler(s[1], s[2]) \in Mux /\ s[3] = X!newClient(base, X!procedures(s[1], s[2]), s[2])
  BY ServicesMounted
<1>6. Tail(url) = Path(s[1], m)
  <2>1. Tail(X!endpointURL(base, s[1], m)) = Path(s[1], m)
    BY Urls
  <2>2. Tail(X!newClient(base, X!procedures(s[1], s[2]), s[2])[m].url) = Path(s[1], m)
    BY Urls
  <2> QED BY <1>5, <2>1, <2>2
<1>7. verb = "GET" => s[2][m].safe
  <2>1. X!newClient(base, X!procedures(s[1], s[2]), s[2])[m].get = s[2][m].safe
    BY DEF X!newClient
  <2> QED BY <1>3, <1>5, <2>1
<1>8. OnlyHandlers(Mux)
  BY Muxes DEF Mux
<1>9. X!route(Mux, url, verb) = asked
  <2>1. verb = "POST" \/ (verb = "GET" /\ s[2][m].safe)
    BY <1>7
  <2> HIDE DEF url
  <2> QED BY <1>5, <1>6, <1>8, <2>1, RouteFinds
<1> DEFINE impl == X!implementation[s[1]][m]
<1>10. /\ impl \in {"crosstest", "test", "unimplemented"}
       /\ impl = "crosstest" => asked \in CrosstestMethods
       /\ impl = "unimplemented" => s[1] = X!Knittest!RelationsServiceName
       /\ s[2][m].safe => m \notin Mutating
  BY MethodsImplemented
<1>11. v \in {"Fetch", "GET"} => m \notin Mutating
  BY <1>3, <1>7, <1>10
<1>12. m \in {"GetParentChildren", "GetChildParent"} => bases = << >>
  BY ArgsOf
<1>13. << >> \in Seq(Keys) /\ << >> \in Seq(Kids) /\ Aligned(FoundUnder, << >>, << >>)
  BY DEF Aligned
<1>14. asked[1] = s[1] /\ asked[2] = m
  OBVIOUS
<1> DEFINE r == X!begin(v, asked, asked, bases, << >>)
<1>15. Fine(r)
  <2> HIDE DEF asked, v
  <2>1. X!implementation[asked[1]][asked[2]] = impl
    BY <1>14
  <2> HIDE DEF impl
  <2> QED BY <1>10, <1>11, <1>12, <1>13, <1>14, <2>1, BegunFine
<1>16. call' = [call EXCEPT ![c] = r]
  BY <1>4, <1>9
<1> HIDE DEF r
<1>17. UNCHANGED Stores
  BY DEF X!Call, Stores
<1>18. call'[c] = r /\ OnlyCall(c)
  BY <1>16 DEF OnlyCall, CInv, CallsFine
<1>19. Fine(call[c])'
  BY <1>15, <1>17, <1>18, BecomesFine
<1> QED BY <1>17, <1>18, <1>19, QuietCall

(* A call that is under way.                                               *)
LEMMA UnderWay ==
    ASSUME CInv, NEW c \in Callers, call[c] # none
    PROVE  /\ call = [d \in Callers |-> call[d]]
           /\ Shape(call[c]) /\ Routed(call[c]) /\ Pending(call[c]) /\ Listed(call[c])
BY DEF CInv, CallsFine, Fine

Lists == {"ListParents", "GetParentChildren", "GetChildParent"}

(* The end of a call that lists nothing.                                   *)
LEMMA EndFine ==
    ASSUME CInv, NEW c \in Callers, call[c] # none, call[c].pc \in {"begin", "store"},
           call[c].method[2] \notin Lists, NEW pc \in {"done", "failed"}, X!end(c, pc)
    PROVE  OnlyCall(c) /\ Fine(call[c])'
<1> DEFINE o == call[c]
<1>1. call = [d \in Callers |-> call[d]] /\ Shape(o) /\ Routed(o)
  BY UnderWay
<1>2. call' = [call EXCEPT ![c] = [o EXCEPT !.pc = pc, !.via = none, !.bases = << >>, !.key = none]]
  BY DEF X!end
<1>3. call'[c] = [via |-> none, asked |-> o.asked, method |-> o.method, bases |-> << >>,
                  origin |-> o.origin, pc |-> pc, key |-> none, at |-> o.at, left |-> o.left,
                  seen |-> o.seen, values |-> o.values]
  BY <1>1, <1>2 DEF Shape
<1>4. OnlyCall(c)
  BY <1>1, <1>2 DEF OnlyCall
<1>5. Shape(call[c])'
  BY <1>3 DEF Shape
<1>6. Routed(call[c])'
  BY <1>1, <1>3, CrosstestAssumption DEF Routed
<1>7. Pending(call[c])' /\ Listed(call[c])'
  BY <1>3 DEF Pending, Listed, Lists
<1> QED BY <1>4, <1>5, <1>6, <1>7 DEF Fine

(* Answers that were looked up, or not found.                              *)
LEMMA GetFine ==
    ASSUME CInv, NEW c \in Callers, X!GetParent(c) \/ X!GetChild(c)
    PROVE  CInv'
<1>1. /\ call[c] # none /\ call[c].pc = "begin" /\ call[c].method[2] \in {"GetParent", "GetChild"}
      /\ UNCHANGED Stores
      /\ X!end(c, "done") \/ X!end(c, "failed")
  BY DEF X!GetParent, X!GetChild, X!at, Stores
<1>2. call[c].method[2] \notin Lists
  BY <1>1 DEF Lists
<1>3. OnlyCall(c) /\ Fine(call[c])'
  BY <1>1, <1>2, EndFine
<1> QED BY <1>1, <1>3, QuietCall

(* A call is forgotten.                                                    *)
LEMMA ReturnFine ==
    ASSUME CInv, NEW c \in Callers, X!Return(c)
    PROVE  CInv'
<1>1. UNCHANGED Stores /\ call' = [call EXCEPT ![c] = none]
  BY DEF X!Return, Stores
<1>2. OnlyCall(c) /\ call'[c] = none
  BY <1>1 DEF OnlyCall, CInv, CallsFine
<1> QED BY <1>1, <1>2, QuietCall

(* An update of what is there, as long as nobody has deleted it.           *)
LEMMA UpdateFine ==
    ASSUME CInv, NEW c \in Callers, X!UpdateParent(c) \/ X!UpdateChild(c)
    PROVE  CInv'
<1> DEFINE o == call[c]
<1>1. o # none /\ o.pc = "begin" /\ o.method[2] \in {"UpdateParent", "UpdateChild"} /\ UNCHANGED Stores
  BY DEF X!UpdateParent, X!UpdateChild, X!at, Stores
<1>2. /\ o.method[2] = "UpdateParent" => X!UpdateParent(c)
      /\ o.method[2] = "UpdateChild" => X!UpdateChild(c)
  BY DEF X!UpdateParent, X!UpdateChild, X!at
<1>3. call = [d \in Callers |-> call[d]] /\ Shape(o) /\ Routed(o)
  BY <1>1, UnderWay
<1>4. o.method \in CrosstestMethods
  BY <1>1, <1>3 DEF Routed
<1>5. /\ o.method[2] = "UpdateParent" => o.method[1] = X!ParentServiceName
      /\ o.method[2] = "UpdateChild" => o.method[1] # X!ParentServiceName
  BY <1>4 DEF CrosstestMethods, X!ParentServiceName, X!ChildServiceName, X!RelationsServiceName
<1>6. ASSUME X!end(c, "failed") PROVE CInv'
  <2>1. o.method[2] \notin Lists
    BY <1>1 DEF Lists
  <2>2. OnlyCall(c) /\ Fine(call[c])'
    BY <1>1, <1>6, <2>1, EndFine
  <2> QED BY <1>1, <2>2, QuietCall
<1>7. ASSUME X!willStore(c, X!arg(c)),
             \/ o.method[2] = "UpdateParent" /\ X!arg(c) \in parents
             \/ o.method[2] = "UpdateChild" /\ X!arg(c) \in children
      PROVE  CInv'
  <2> DEFINE k == X!arg(c)
  <2>1. call' = [call EXCEPT ![c] = [o EXCEPT !.pc = "store", !.key = k]]
    BY <1>7 DEF X!willStore
  <2>2. /\ k \notin gone
        /\ k \in IF o.method[1] = X!ParentServiceName THEN PIds ELSE CIds
    BY <1>5, <1>7 DEF CInv, StoresFine
  <2> HIDE DEF k
  <2>3. call'[c] = [via |-> o.via, asked |-> o.asked, method |-> o.method, bases |-> o.bases,
                    origin |-> o.origin, pc |-> "store", key |-> k, at |-> o.at, left |-> o.left,
                    seen |-> o.seen, values |-> o.values]
    BY <1>3, <2>1 DEF Shape
  <2>4. OnlyCall(c)
    BY <1>3, <2>1 DEF OnlyCall
  <2>5. Shape(call[c])'
    BY <2>3 DEF Shape
  <2>6. Routed(call[c])'
    BY <1>3, <1>4, <2>3 DEF Routed
  <2>7. Pending(call[c])'
    <3>1. PIds' = PIds /\ CIds' = CIds /\ gone' = gone
      BY <1>1 DEF Stores, PIds, CIds
    <3> QED BY <1>1, <2>2, <2>3, <3>1 DEF Pending, Mutating
  <2>8. Listed(call[c])'
    BY <1>1, <2>3 DEF Listed
  <2>9. Fine(call[c])'
    BY <2>5, <2>6, <2>7, <2>8 DEF Fine
  <2> QED BY <1>1, <2>4, <2>9, QuietCall
<1>8. CASE o.method[2] = "UpdateParent"
  BY <1>2, <1>6, <1>7, <1>8 DEF X!UpdateParent
<1>9. CASE o.method[2] = "UpdateChild"
  BY <1>2, <1>6, <1>7, <1>9 DEF X!UpdateChild
<1> QED BY <1>1, <1>8, <1>9

(* A new child's parent is there, or was when it was looked for.           *)
LEMMA FindParentFine ==
    ASSUME CInv, NEW c \in Callers, X!FindParent(c)
    PROVE  CInv'
<1> DEFINE o == call[c]
<1>1. o # none /\ o.pc = "begin" /\ o.method[2] = "CreateChild" /\ UNCHANGED Stores
  BY DEF X!FindParent, X!at, Stores
<1>2. call = [d \in Callers |-> call[d]] /\ Shape(o) /\ Routed(o)
  BY <1>1, UnderWay
<1>3. CASE X!arg(c) \in parents
  <2>1. call' = [call EXCEPT ![c] = [o EXCEPT !.pc = "found"]]
    BY <1>3 DEF X!FindParent
  <2>2. call'[c] = [via |-> o.via, asked |-> o.asked, method |-> o.method, bases |-> o.bases,
                    origin |-> o.origin, pc |-> "found", key |-> o.key, at |-> o.at,
                    left |-> o.left, seen |-> o.seen, values |-> o.values]
    BY <1>2, <2>1 DEF Shape
  <2>3. OnlyCall(c)
    BY <1>2, <2>1 DEF OnlyCall
  <2>4. Shape(call[c])'
    BY <2>2 DEF Shape
  <2>5. Routed(call[c])'
    BY <1>1, <1>2, <2>2 DEF Routed
  <2>6. o.bases[1] \in Keys
    <3>1. o.bases[1] \in PIds
      BY <1>3 DEF X!arg, CInv, StoresFine
    <3> QED BY <3>1, KeysAreDigits DEF PIds, CInv, StoresFine
  <2>7. Pending(call[c])' /\ Listed(call[c])'
    BY <1>1, <2>2, <2>6 DEF Pending, Listed
  <2>8. Fine(call[c])'
    BY <2>4, <2>5, <2>7 DEF Fine
  <2> QED BY <1>1, <2>3, <2>8, QuietCall
<1>4. CASE X!arg(c) \notin parents
  <2>1. X!end(c, "failed")
    BY <1>4 DEF X!FindParent
  <2>2. o.method[2] \notin Lists
    BY <1>1 DEF Lists
  <2>3. OnlyCall(c) /\ Fine(call[c])'
    BY <1>1, <2>1, <2>2, EndFine
  <2> QED BY <1>1, <2>3, QuietCall
<1> QED BY <1>3, <1>4

(* A call is going to store an id that is its own.                         *)
LEMMA WillStoreFine ==
    ASSUME CInv, NEW c \in Callers, call[c] # none, call[c].method \in CrosstestMethods,
           call[c].method[2] \in {"CreateParent", "CreateChild"}, NEW STATE k, X!willStore(c, k),
           k \notin gone', k \in IF call[c].method[1] = X!ParentServiceName THEN PIds' ELSE CIds'
    PROVE  OnlyCall(c) /\ Fine(call[c])'
<1> DEFINE o == call[c]
<1>1. call = [d \in Callers |-> call[d]] /\ Shape(o) /\ Routed(o)
  BY UnderWay
<1>2. call' = [call EXCEPT ![c] = [o EXCEPT !.pc = "store", !.key = k]]
  BY DEF X!willStore
<1>3. call'[c] = [via |-> o.via, asked |-> o.asked, method |-> o.method, bases |-> o.bases,
                  origin |-> o.origin, pc |-> "store", key |-> k, at |-> o.at, left |-> o.left,
                  seen |-> o.seen, values |-> o.values]
  BY <1>1, <1>2 DEF Shape
<1>4. OnlyCall(c)
  BY <1>1, <1>2 DEF OnlyCall
<1>5. Shape(call[c])'
  BY <1>3 DEF Shape
<1>6. Routed(call[c])'
  BY <1>1, <1>3 DEF Routed
<1>7. Pending(call[c])'
  BY <1>3 DEF Pending, Mutating
<1>8. Listed(call[c])'
  BY <1>3 DEF Listed
<1> QED BY <1>4, <1>5, <1>6, <1>7, <1>8 DEF Fine

(* The id of a new parent was nobody's.                                    *)
LEMMA CreateParentFine ==
    ASSUME CInv, NEW c \in Callers, X!CreateParent(c)
    PROVE  CInv'
<1> DEFINE o == call[c]
<1>1. /\ o # none /\ o.pc = "begin" /\ o.method[2] = "CreateParent"
      /\ parentIds' = parentIds + 1 /\ UNCHANGED <<parents, children, childIds, gone>>
  BY DEF X!CreateParent, X!at
<1>2. X!willStore(c, X!parentId(parentIds + 1))
  BY DEF X!CreateParent
<1>3. o.method \in CrosstestMethods
  BY <1>1, UnderWay DEF Routed
<1>4. o.method[1] = X!ParentServiceName
  BY <1>1, <1>3 DEF CrosstestMethods, X!ParentServiceName, X!ChildServiceName, X!RelationsServiceName
<1>5. parentIds \in Nat /\ childIds \in Nat
  BY DEF CInv, StoresFine
<1>6. PIds \subseteq PIds' /\ CIds' = CIds /\ X!parentId(parentIds + 1) \in PIds'
  <2>1. PIds' = {X!parentId(n) : n \in 1 .. parentIds + 1}
    BY <1>1 DEF PIds, X!parentId
  <2>2. \A n \in 1 .. parentIds : n \in 1 .. parentIds + 1
    BY <1>5
  <2>3. parentIds + 1 \in 1 .. parentIds + 1
    BY <1>5
  <2>4. CIds' = CIds
    BY <1>1 DEF CIds
  <2> QED BY <2>1, <2>2, <2>3, <2>4 DEF PIds
<1>7. X!parentId(parentIds + 1) \notin gone'
  BY <1>1, <1>5, NextIsNew DEF CInv, StoresFine
<1>8. StoresFine'
  BY <1>1, <1>5, <1>6 DEF CInv, StoresFine
<1>9. OnlyCall(c) /\ Fine(call[c])'
  BY <1>1, <1>2, <1>3, <1>4, <1>6, <1>7, WillStoreFine
<1> QED BY <1>1, <1>6, <1>8, <1>9, OneCallChanges

(* Neither was the id of a new child.                                      *)
LEMMA CreateChildFine ==
    ASSUME CInv, NEW c \in Callers, X!CreateChild(c)
    PROVE  CInv'
<1> DEFINE o == call[c]
           k == X!childId(o.bases[1], childIds + 1)
<1>1. /\ o # none /\ o.pc = "found" /\ o.method[2] = "CreateChild"
      /\ childIds' = childIds + 1 /\ UNCHANGED <<parents, parentIds, children, gone>>
  BY DEF X!CreateChild, X!at
<1>2. X!willStore(c, k)
  BY DEF X!CreateChild, X!arg
<1>3. o.method \in CrosstestMethods /\ o.bases[1] \in Keys
  BY <1>1, UnderWay DEF Routed, Pending
<1>4. o.method[1] # X!ParentServiceName
  BY <1>1, <1>3 DEF CrosstestMethods, X!ParentServiceName, X!ChildServiceName, X!RelationsServiceName
<1>5. parentIds \in Nat /\ childIds \in Nat
  BY DEF CInv, StoresFine
<1>6. PIds' = PIds /\ CIds \subseteq CIds' /\ k \in CIds'
  <2>1. CIds' = {X!childId(p, n) : p \in Keys, n \in 1 .. childIds + 1}
    BY <1>1 DEF CIds
  <2>2. \A n \in 1 .. childIds : n \in 1 .. childIds + 1
    BY <1>5
  <2>3. childIds + 1 \in 1 .. childIds + 1
    BY <1>5
  <2>4. PIds' = PIds
    BY <1>1 DEF PIds
  <2> QED BY <1>3, <2>1, <2>2, <2>3, <2>4 DEF CIds
<1>7. k \notin gone'
  BY <1>1, <1>3, <1>5, NextIsNew DEF CInv, StoresFine
<1>8. StoresFine'
  BY <1>1, <1>5, <1>6 DEF CInv, StoresFine
<1> HIDE DEF k
<1>9. OnlyCall(c) /\ Fine(call[c])'
  BY <1>1, <1>2, <1>3, <1>4, <1>6, <1>7, WillStoreFine
<1> QED BY <1>1, <1>6, <1>8, <1>9, OneCallChanges

(* What is stored was given out for that store, and is not gone.           *)
LEMMA StoreFine ==
    ASSUME CInv, NEW c \in Callers, X!Store(c)
    PROVE  CInv'
<1> DEFINE o == call[c]
<1>1. o # none /\ o.pc = "store" /\ X!end(c, "done") /\ UNCHANGED <<parentIds, childIds, gone>>
  BY DEF X!Store
<1>2. Routed(o) /\ Pending(o)
  BY <1>1, UnderWay
<1>3. PIds' = PIds /\ CIds' = CIds
  BY <1>1 DEF PIds, CIds
<1>4. /\ o.key \notin gone
      /\ o.key \in IF o.method[1] = X!ParentServiceName THEN PIds ELSE CIds
  BY <1>1, <1>2 DEF Pending
<1>5. \/ o.key \in PIds /\ parents' = parents \cup {o.key} /\ children' = children
      \/ o.key \in CIds /\ children' = children \cup {o.key} /\ parents' = parents
  BY <1>4 DEF X!Store
<1>6. StoresFine'
  BY <1>1, <1>3, <1>4, <1>5 DEF CInv, StoresFine
<1>7. o.method[2] \notin Lists
  BY <1>1, <1>2 DEF Pending, Mutating, Lists
<1>8. OnlyCall(c) /\ Fine(call[c])'
  BY <1>1, <1>7, EndFine
<1> QED BY <1>1, <1>3, <1>6, <1>8, OneCallChanges

(* What is deleted is gone only if no call is about to store it.           *)
LEMMA DeleteFine ==
    ASSUME CInv, NEW c \in Callers, X!DeleteParent(c) \/ X!DeleteChild(c)
    PROVE  CInv'
<1> DEFINE o == call[c]
           k == X!arg(c)
<1>1. /\ o # none /\ o.pc = "begin" /\ o.method[2] \in {"DeleteParent", "DeleteChild"}
      /\ X!remove(c)
  BY DEF X!DeleteParent, X!DeleteChild, X!at
<1>2. call = [d \in Callers |-> call[d]] /\ Shape(o) /\ Routed(o)
  BY <1>1, UnderWay
<1> HIDE DEF k
<1>3. /\ parents' = parents \ {k} /\ children' = children \ {k}
      /\ UNCHANGED <<parentIds, childIds>>
      /\ gone' = IF \E d \in Callers : call[d] # none /\ call[d].key = k /\ call[d].pc = "store"
                 THEN gone ELSE gone \cup ({k} \cap (parents \cup children))
  BY <1>1 DEF X!remove, k
<1>4. call' = [d \in Callers |->
                 IF d = c THEN [o EXCEPT !.pc = "done", !.via = none, !.bases = << >>]
                 ELSE IF call[d] = none THEN none
                 ELSE [call[d] EXCEPT !.left = @ \ {k}]]
  BY <1>1, Zenon DEF X!remove, k
<1>5. PIds' = PIds /\ CIds' = CIds
  BY <1>3 DEF PIds, CIds
<1>6. StoresFine'
  BY <1>3, <1>5 DEF CInv, StoresFine
<1>7. Fine(call[c])'
  <2>1. call'[c] = [via |-> none, asked |-> o.asked, method |-> o.method, bases |-> << >>,
                    origin |-> o.origin, pc |-> "done", key |-> o.key, at |-> o.at,
                    left |-> o.left, seen |-> o.seen, values |-> o.values]
    BY <1>2, <1>4 DEF Shape
  <2>2. Shape(call[c])'
    BY <2>1 DEF Shape
  <2>3. Routed(call[c])'
    BY <1>1, <1>2, <2>1, CrosstestAssumption DEF Routed
  <2>4. Pending(call[c])' /\ Listed(call[c])'
    BY <1>1, <2>1 DEF Pending, Listed
  <2> QED BY <2>2, <2>3, <2>4 DEF Fine
<1>8. ASSUME NEW d \in Callers, d # c, call'[d] # none PROVE Fine(call[d])'
  <2> DEFINE e == call[d]
  <2>1. e # none /\ call'[d] = [e EXCEPT !.left = @ \ {k}]
    BY <1>4, <1>8
  <2>2. Shape(e) /\ Routed(e) /\ Pending(e) /\ Listed(e)
    BY <2>1, UnderWay
  <2>3. call'[d] = [via |-> e.via, asked |-> e.asked, method |-> e.method, bases |-> e.bases,
                    origin |-> e.origin, pc |-> e.pc, key |-> e.key, at |-> e.at,
                    left |-> e.left \ {k}, seen |-> e.seen, values |-> e.values]
    BY <2>1, <2>2 DEF Shape
  <2>4. Shape(call[d])'
    BY <2>3 DEF Shape
  <2>5. /\ call'[d].via = e.via /\ call'[d].asked = e.asked /\ call'[d].method = e.method
        /\ call'[d].bases = e.bases /\ call'[d].origin = e.origin /\ call'[d].pc = e.pc
        /\ call'[d].key = e.key /\ call'[d].at = e.at /\ call'[d].values = e.values
    BY <2>3
  <2>6. Routed(call[d])'
    BY <2>2, <2>5 DEF Routed
  <2>7. Pending(call[d])'
    <3>1. ASSUME e.pc = "store" PROVE e.key \notin gone'
      <4>1. e.key \notin gone
        BY <2>2, <3>1 DEF Pending
      <4>2. CASE e.key = k
        BY <1>3, <2>1, <3>1, <4>1, <4>2
      <4>3. CASE e.key # k
        BY <1>3, <4>1, <4>3
      <4> QED BY <4>2, <4>3
    <3> QED BY <1>5, <2>2, <2>5, <3>1 DEF Pending
  <2>8. Listed(call[d])'
    <3>1. ParentsListed(e) => ParentsListed(call[d])'
      BY <2>5 DEF ParentsListed
    <3>2. ChildrenListed(e) => ChildrenListed(call[d])'
      BY <2>5 DEF ChildrenListed
    <3>3. ParentsFound(e) => ParentsFound(call[d])'
      BY <2>5 DEF ParentsFound, Aligned
    <3> QED BY <2>2, <2>5, <3>1, <3>2, <3>3 DEF Listed
  <2> QED BY <2>4, <2>6, <2>7, <2>8 DEF Fine
<1>9. call' = [d \in Callers |-> call'[d]]
  BY <1>4
<1>10. CallsFine'
  BY <1>7, <1>8, <1>9, Zenon DEF CallsFine
<1> QED BY <1>6, <1>10 DEF CInv

(* The stores hold parents' ids and children's.                            *)
LEMMA StoresHoldIds ==
    ASSUME CInv
    PROVE  parents \subseteq Keys /\ children \subseteq Kids
<1>1. PIds \subseteq Keys
  BY KeysAreDigits DEF CInv, StoresFine, PIds
<1>2. CIds \subseteq Kids
  BY DEF CIds, Kids, CInv, StoresFine
<1> QED BY <1>1, <1>2 DEF CInv, StoresFine

(* A sequence whose last one has got an element more.                      *)
LEMMA LastGrows ==
    ASSUME NEW T, NEW vs \in Seq(Seq(T)), Len(vs) >= 1, NEW k \in T
    PROVE  LET us == X!Front(vs) \o <<Append(X!Last(vs), k)>>
           IN  /\ us \in Seq(Seq(T)) /\ Len(us) = Len(vs)
               /\ \A i \in 1 .. Len(vs) : i # Len(vs) => us[i] = vs[i]
               /\ us[Len(vs)] = Append(vs[Len(vs)], k)
<1> DEFINE n == Len(vs)
           f == SubSeq(vs, 1, n - 1)
           l == Append(vs[n], k)
           us == f \o <<l>>
<1>1. n \in Nat /\ n >= 1 /\ n - 1 \in Nat
  BY LenProperties
<1>2. vs[n] \in Seq(T)
  <2>1. n \in 1 .. Len(vs)
    BY <1>1
  <2> QED BY <2>1, ElementOfSeq
<1>3. l \in Seq(T)
  BY <1>2, AppendProperties
<1>4. /\ f \in Seq(Seq(T)) /\ Len(f) = n - 1
      /\ \A i \in 1 .. n - 1 : f[i] = vs[i]
  <2> HIDE DEF n
  <2>1. PICK a \in Int, b \in Int : a = 1 /\ b = n - 1
    BY <1>1
  <2>2. \A i \in a .. b : i \in 1 .. Len(vs)
    BY <1>1, <2>1 DEF n
  <2>3. \A i \in a .. b : vs[i] \in Seq(T)
    BY <2>2, ElementOfSeq
  <2> DEFINE g == SubSeq(vs, a, b)
  <2>4. /\ g \in Seq(Seq(T)) /\ Len(g) = IF a <= b THEN b - a + 1 ELSE 0
        /\ \A i \in 1 .. b - a + 1 : g[i] = vs[a + i - 1]
    BY <2>3, SubSeqProperties
  <2>5. g = f
    BY <2>1
  <2> HIDE DEF f, g
  <2>6. Len(g) = n - 1
    BY <1>1, <2>1, <2>4
  <2>7. \A i \in 1 .. n - 1 : i \in 1 .. b - a + 1 /\ a + i - 1 = i
    BY <1>1, <2>1
  <2> QED BY <2>4, <2>5, <2>6, <2>7
<1> HIDE DEF f, l
<1>5. <<l>> \in Seq(Seq(T)) /\ Len(<<l>>) = 1 /\ <<l>>[1] = l
  BY <1>3
<1> DEFINE s == <<l>>
<1> HIDE DEF s
<1> DEFINE u == f \o s
<1>6. /\ u \in Seq(Seq(T)) /\ Len(u) = Len(f) + Len(s)
      /\ \A i \in 1 .. (Len(f) + Len(s)) : u[i] = IF i <= Len(f) THEN f[i] ELSE s[i - Len(f)]
  BY <1>4, <1>5, ConcatProperties, Zenon DEF s
<1> HIDE DEF u, n
<1>7. Len(s) = 1 /\ s[1] = l
  BY <1>5 DEF s
<1>8. Len(u) = n
  BY <1>1, <1>4, <1>6, <1>7
<1>9. \A i \in 1 .. n : i # n => u[i] = vs[i]
  <2>1. \A i \in 1 .. n : i # n => /\ i \in 1 .. (Len(f) + Len(s)) /\ i <= Len(f)
                                   /\ i \in 1 .. n - 1
    BY <1>1, <1>4, <1>7
  <2> QED BY <1>4, <1>6, <2>1
<1>10. u[n] = l
  <2>1. n \in 1 .. (Len(f) + Len(s)) /\ ~(n <= Len(f)) /\ n - Len(f) = 1
    BY <1>1, <1>4, <1>7
  <2> QED BY <1>6, <1>7, <2>1
<1>11. X!Front(vs) \o <<Append(X!Last(vs), k)>> = u
  BY DEF X!Front, X!Last, u, s, l, f, n
<1> QED BY <1>6, <1>8, <1>9, <1>10, <1>11 DEF l, n

(* A Range begins with an empty list for the parent it is at.              *)
LEMMA BeginRangeFine ==
    ASSUME CInv, NEW c \in Callers, X!BeginRange(c)
    PROVE  CInv'
<1> DEFINE o == call[c]
           over == o.method[2] = "GetParentChildren" /\ o.at > Len(o.bases)
<1>1. /\ o # none /\ o.pc = "begin" /\ UNCHANGED Stores
      /\ o.method[2] \in {"ListParents", "ListChildren", "GetParentChildren"}
  BY DEF X!BeginRange, X!lists, Stores
<1>2. call = [d \in Callers |-> call[d]] /\ Shape(o) /\ Routed(o) /\ Listed(o)
  BY <1>1, UnderWay
<1>3. CASE over
  <2>1. call' = [call EXCEPT ![c] = [o EXCEPT !.pc = "done"]]
    BY <1>3 DEF X!BeginRange
  <2>2. call'[c] = [via |-> o.via, asked |-> o.asked, method |-> o.method, bases |-> o.bases,
                    origin |-> o.origin, pc |-> "done", key |-> o.key, at |-> o.at,
                    left |-> o.left, seen |-> o.seen, values |-> o.values]
    BY <1>2, <2>1 DEF Shape
  <2>3. OnlyCall(c)
    BY <1>2, <2>1 DEF OnlyCall
  <2>4. Shape(call[c])'
    BY <2>2 DEF Shape
  <2>5. Routed(call[c])' /\ Pending(call[c])'
    BY <1>1, <1>2, <2>2 DEF Routed, Pending
  <2>6. ChildrenListed(o)
    BY <1>2, <1>3 DEF Listed
  <2>7. Len(o.values) = Len(o.bases)
    <3>1. Len(o.values) \in Nat /\ Len(o.bases) \in Nat
      BY <2>6, LenProperties DEF ChildrenListed
    <3>2. Len(o.values) <= Len(o.bases) /\ Len(o.values) + 1 = o.at /\ o.at > Len(o.bases)
      BY <1>1, <1>3, <2>6 DEF ChildrenListed
    <3> QED BY <3>1, <3>2
  <2>8. ChildrenListed(call[c])'
    <3>1. /\ call'[c].bases = o.bases /\ call'[c].values = o.values /\ call'[c].at = o.at
          /\ call'[c].pc = "done"
      BY <2>2
    <3> QED BY <2>6, <2>7, <3>1 DEF ChildrenListed
  <2>9. Listed(call[c])'
    BY <1>3, <2>2, <2>8 DEF Listed
  <2>10. Fine(call[c])'
    BY <2>4, <2>5, <2>9 DEF Fine
  <2> QED BY <1>1, <2>3, <2>10, QuietCall
<1>4. CASE ~over
  <2> DEFINE vs == Append(o.values, << >>)
  <2>1. call' = [call EXCEPT ![c] = [o EXCEPT !.pc = "range", !.left = X!store(c), !.seen = {},
                                              !.values = vs]]
    <3>1. call' = [call EXCEPT ![c] =
                     IF over THEN [o EXCEPT !.pc = "done"]
                     ELSE [o EXCEPT !.pc = "range", !.left = X!store(c), !.seen = {},
                                    !.values = vs]]
      BY Zenon DEF X!BeginRange
    <3> QED BY <1>4, <3>1, Zenon
  <2> HIDE DEF vs
  <2>2. call'[c] = [via |-> o.via, asked |-> o.asked, method |-> o.method, bases |-> o.bases,
                    origin |-> o.origin, pc |-> "range", key |-> o.key, at |-> o.at,
                    left |-> X!store(c), seen |-> {}, values |-> vs]
    BY <1>2, <2>1 DEF Shape
  <2>3. OnlyCall(c)
    BY <1>2, <2>1 DEF OnlyCall
  <2>4. Shape(call[c])'
    BY <2>2 DEF Shape
  <2>5. Routed(call[c])' /\ Pending(call[c])'
    BY <1>1, <1>2, <2>2 DEF Routed, Pending
  <2>6. ASSUME o.method[2] = "ListParents" PROVE ParentsListed(call[c])'
    <3>1. o.values \in Seq(Seq(Keys))
      BY <1>2, <2>6 DEF Listed, ParentsListed
    <3>2. << >> \in Seq(Keys)
      OBVIOUS
    <3>3. vs \in Seq(Seq(Keys)) /\ Len(vs) >= 1
      BY <3>1, <3>2, AppendProperties, LenProperties DEF vs
    <3> QED BY <2>2, <3>3 DEF ParentsListed
  <2>7. ASSUME o.method[2] = "GetParentChildren" PROVE ChildrenListed(call[c])'
    <3>1. ChildrenListed(o)
      BY <1>2, <2>7 DEF Listed
    <3>2. /\ o.values \in Seq(Seq(Kids)) /\ o.bases \in Seq(Keys) /\ o.at \in Nat
          /\ Len(o.values) + 1 = o.at
      BY <1>1, <3>1 DEF ChildrenListed
    <3>3. << >> \in Seq(Kids) /\ Len(<< >>) = 0
      OBVIOUS
    <3>4. Len(o.values) \in Nat /\ Len(o.bases) \in Nat
      BY <3>2, LenProperties
    <3>5. /\ vs \in Seq(Seq(Kids)) /\ Len(vs) = Len(o.values) + 1
          /\ \A i \in 1 .. Len(o.values) : vs[i] = o.values[i]
          /\ vs[Len(o.values) + 1] = << >>
      BY <3>2, <3>3, AppendProperties DEF vs
    <3>6. Len(vs) = o.at /\ o.at >= 1 /\ Len(vs) <= Len(o.bases)
      BY <1>4, <2>7, <3>2, <3>4, <3>5
    <3>7. \A i \in 1 .. Len(vs) : \A k \in 1 .. Len(vs[i]) : <<o.bases[i], vs[i][k]>> \in FoundUnder
      <4> SUFFICES ASSUME NEW i \in 1 .. Len(vs), NEW k \in 1 .. Len(vs[i])
                   PROVE  <<o.bases[i], vs[i][k]>> \in FoundUnder
        OBVIOUS
      <4>1. CASE i = Len(o.values) + 1
        BY <3>3, <3>5, <4>1
      <4>2. CASE i # Len(o.values) + 1
        <5>1. i \in 1 .. Len(o.values)
          BY <3>4, <3>5, <4>2
        <5> QED BY <3>1, <3>5, <5>1 DEF ChildrenListed
      <4> QED BY <4>1, <4>2
    <3> QED BY <2>2, <3>2, <3>5, <3>6, <3>7 DEF ChildrenListed
  <2>8. Listed(call[c])'
    BY <1>1, <2>2, <2>6, <2>7 DEF Listed
  <2>9. Fine(call[c])'
    BY <2>4, <2>5, <2>8 DEF Fine
  <2> QED BY <1>1, <2>3, <2>9, QuietCall
<1> QED BY <1>3, <1>4

(* A Range goes on with the next parent.                                   *)
LEMMA EndRangeFine ==
    ASSUME CInv, NEW c \in Callers, X!EndRange(c)
    PROVE  CInv'
<1> DEFINE o == call[c]
           p == IF o.method[2] = "GetParentChildren" THEN "begin" ELSE "done"
<1>1. /\ o # none /\ o.pc = "range" /\ UNCHANGED Stores
      /\ o.method[2] \in {"ListParents", "ListChildren", "GetParentChildren"}
  BY DEF X!EndRange, X!lists, Stores
<1>2. call = [d \in Callers |-> call[d]] /\ Shape(o) /\ Routed(o) /\ Listed(o)
  BY <1>1, UnderWay
<1>3. call' = [call EXCEPT ![c] = [o EXCEPT !.at = o.at + 1, !.pc = p]]
  BY DEF X!EndRange
<1> HIDE DEF p
<1>4. call'[c] = [via |-> o.via, asked |-> o.asked, method |-> o.method, bases |-> o.bases,
                  origin |-> o.origin, pc |-> p, key |-> o.key, at |-> o.at + 1,
                  left |-> o.left, seen |-> o.seen, values |-> o.values]
  BY <1>2, <1>3 DEF Shape
<1>5. OnlyCall(c)
  BY <1>2, <1>3 DEF OnlyCall
<1>6. Shape(call[c])'
  BY <1>4 DEF Shape
<1>7. Routed(call[c])' /\ Pending(call[c])'
  BY <1>1, <1>2, <1>4 DEF Routed, Pending, p
<1>8. ASSUME o.method[2] = "ListParents" PROVE ParentsListed(call[c])'
  BY <1>2, <1>4, <1>8 DEF Listed, ParentsListed, p
<1>9. ASSUME o.method[2] = "GetParentChildren" PROVE ChildrenListed(call[c])'
  BY <1>1, <1>2, <1>4, <1>9 DEF Listed, ChildrenListed, p
<1>10. Listed(call[c])'
  BY <1>1, <1>4, <1>8, <1>9 DEF Listed
<1>11. Fine(call[c])'
  BY <1>6, <1>7, <1>10 DEF Fine
<1> QED BY <1>1, <1>5, <1>11, QuietCall

(* A key that a Range meets is a parent's id or a child's, and the child's *)
(* begins with the id of the parent that is asked about.                   *)
LEMMA VisitFine ==
    ASSUME CInv, NEW c \in Callers, NEW key \in parents \cup children, X!Visit(c, key)
    PROVE  CInv'
<1> DEFINE o == call[c]
           grown == X!Front(o.values) \o <<Append(X!Last(o.values), key)>>
           vs == IF X!belongs(c, key) THEN grown ELSE o.values
<1>1. /\ o # none /\ o.pc = "range" /\ UNCHANGED Stores /\ key \in X!store(c)
      /\ o.method[2] \in {"ListParents", "ListChildren", "GetParentChildren"}
  BY DEF X!Visit, X!lists, Stores
<1>2. call = [d \in Callers |-> call[d]] /\ Shape(o) /\ Routed(o) /\ Listed(o)
  BY <1>1, UnderWay
<1>3. call' = [call EXCEPT ![c] = [o EXCEPT !.seen = o.seen \cup {key}, !.left = o.left \ {key},
                                            !.values = vs]]
  BY DEF X!Visit
<1> HIDE DEF vs
<1>4. call'[c] = [via |-> o.via, asked |-> o.asked, method |-> o.method, bases |-> o.bases,
                  origin |-> o.origin, pc |-> o.pc, key |-> o.key, at |-> o.at,
                  left |-> o.left \ {key}, seen |-> o.seen \cup {key}, values |-> vs]
  BY <1>2, <1>3 DEF Shape
<1>5. OnlyCall(c)
  BY <1>2, <1>3 DEF OnlyCall
<1>6. Shape(call[c])'
  BY <1>4 DEF Shape
<1>7. Routed(call[c])' /\ Pending(call[c])'
  BY <1>1, <1>2, <1>4 DEF Routed, Pending
<1>8. ASSUME o.method[2] = "ListParents" PROVE ParentsListed(call[c])'
  <2>1. o.values \in Seq(Seq(Keys)) /\ Len(o.values) >= 1
    BY <1>1, <1>2, <1>8 DEF Listed, ParentsListed
  <2>2. key \in Keys
    BY <1>1, <1>8, StoresHoldIds DEF X!store
  <2>3. grown \in Seq(Seq(Keys)) /\ Len(grown) = Len(o.values)
    BY <2>1, <2>2, LastGrows
  <2> HIDE DEF grown
  <2>4. vs \in Seq(Seq(Keys)) /\ Len(vs) >= 1
    BY <2>1, <2>3 DEF vs
  <2> QED BY <1>4, <2>4 DEF ParentsListed
<1>9. ASSUME o.method[2] = "GetParentChildren" PROVE ChildrenListed(call[c])'
  <2>1. ChildrenListed(o)
    BY <1>2, <1>9 DEF Listed
  <2>2. /\ o.bases \in Seq(Keys) /\ o.values \in Seq(Seq(Kids)) /\ o.at \in Nat
        /\ Len(o.values) <= Len(o.bases) /\ Len(o.values) = o.at /\ o.at >= 1
        /\ \A i \in 1 .. Len(o.values) : \A k \in 1 .. Len(o.values[i]) :
              <<o.bases[i], o.values[i][k]>> \in FoundUnder
    BY <1>1, <2>1 DEF ChildrenListed
  <2>3. key \in Kids
    BY <1>1, <1>9, StoresHoldIds DEF X!store
  <2>n. Len(o.values) \in Nat /\ Len(o.bases) \in Nat
    BY <2>2, LenProperties
  <2> DEFINE n == Len(o.values)
  <2>4. /\ grown \in Seq(Seq(Kids)) /\ Len(grown) = n
        /\ \A i \in 1 .. n : i # n => grown[i] = o.values[i]
        /\ grown[n] = Append(o.values[n], key)
    BY <2>2, <2>3, LastGrows
  <2> HIDE DEF grown
  <2>5. /\ vs \in Seq(Seq(Kids)) /\ Len(vs) = n
    BY <2>2, <2>4 DEF vs
  <2>6. ASSUME X!belongs(c, key), NEW k \in 1 .. Len(grown[n])
        PROVE  <<o.bases[n], grown[n][k]>> \in FoundUnder
    <3> HIDE DEF n
    <3>0. n \in 1 .. n
      BY <2>2, <2>n DEF n
    <3>1. o.values[n] \in Seq(Kids) /\ o.bases[n] \in Keys
      <4>1. n \in 1 .. Len(o.values) /\ n \in 1 .. Len(o.bases)
        BY <2>2, <2>n, <3>0 DEF n
      <4> QED BY <2>2, <4>1, ElementOfSeq
    <3> DEFINE l == Len(o.values[n])
    <3>2. /\ l \in Nat /\ Len(grown[n]) = l + 1 /\ grown[n][l + 1] = key
          /\ \A j \in 1 .. l : grown[n][j] = o.values[n][j]
      BY <2>3, <2>4, <3>1, AppendProperties, LenProperties
    <3>3. \A j \in 1 .. l : <<o.bases[n], o.values[n][j]>> \in FoundUnder
      BY <2>2, <3>0 DEF n
    <3> HIDE DEF l
    <3>4. CASE k = l + 1
      <4>1. X!IsPrefix(o.bases[n], key)
        BY <1>9, <2>2, <2>6 DEF X!belongs, n
      <4> QED BY <2>3, <3>1, <3>2, <3>4, <4>1 DEF FoundUnder
    <3>5. CASE k # l + 1
      <4>1. k \in 1 .. l
        BY <3>2, <3>5
      <4> QED BY <3>2, <3>3, <4>1
    <3> QED BY <3>4, <3>5
  <2>7. \A i \in 1 .. Len(vs) : \A k \in 1 .. Len(vs[i]) : <<o.bases[i], vs[i][k]>> \in FoundUnder
    <3>1. CASE ~X!belongs(c, key)
      BY <2>2, <3>1 DEF vs
    <3>2. CASE X!belongs(c, key)
      <4>1. vs = grown
        BY <3>2 DEF vs
      <4> SUFFICES ASSUME NEW i \in 1 .. n, NEW k \in 1 .. Len(grown[i])
                   PROVE  <<o.bases[i], grown[i][k]>> \in FoundUnder
        BY <2>4, <4>1
      <4>2. CASE i = n
        BY <2>6, <3>2, <4>2
      <4>3. CASE i # n
        BY <2>2, <2>4, <4>3
      <4> QED BY <4>2, <4>3
    <3> QED BY <3>1, <3>2
  <2>8. /\ call'[c].bases = o.bases /\ call'[c].values = vs /\ call'[c].at = o.at
        /\ call'[c].pc = "range"
    BY <1>1, <1>4
  <2> HIDE DEF n
  <2>9. Len(vs) <= Len(o.bases) /\ Len(vs) = o.at /\ o.at >= 1
    BY <2>2, <2>5 DEF n
  <2> QED BY <2>2, <2>5, <2>7, <2>8, <2>9 DEF ChildrenListed
<1>10. Listed(call[c])'
  BY <1>1, <1>4, <1>8, <1>9 DEF Listed
<1>11. Fine(call[c])'
  BY <1>6, <1>7, <1>10 DEF Fine
<1> QED BY <1>1, <1>5, <1>11, QuietCall

(* The parent that is found for a child is the one it was found under, or  *)
(* one whose id begins with that one's.                                    *)
LEMMA ParentReturned ==
    ASSUME NEW q, NEW k, <<q, k>> \in FoundUnder
    PROVE  X!parentOf(k) \in Keys /\ <<q, <<X!parentOf(k)>>>> \in Returned
<1>1. q \in Keys /\ k \in Kids /\ X!IsPrefix(q, k)
  BY DEF FoundUnder
<1>2. PICK p \in Keys, n \in Nat : k = X!childId(p, n)
  BY <1>1 DEF Kids
<1>3. X!parentOf(k) = p
  BY <1>2, ParentOfChildId
<1>4. X!IsPrefix(q, p) /\ (Len(q) = Len(p) => q = p)
  BY <1>1, <1>2, PrefixOfChildId
<1>5. <<p>> \in Seq(Keys) /\ <<p>>[1] = p
  OBVIOUS
<1>6. <<q, <<p>>>> \in Returned
  <2> DEFINE s == <<p>>
  <2>1. s \in Seq(Keys) /\ s[1] = p
    BY <1>5
  <2> HIDE DEF s
  <2>2. <<q, s>> \in Returned
    BY <1>1, <1>4, <2>1 DEF Returned
  <2> QED BY <2>2 DEF s
<1> QED BY <1>2, <1>3, <1>6

(* A parent is added for the child the call is at, or the call is over.    *)
LEMMA GetChildParentFine ==
    ASSUME CInv, NEW c \in Callers, X!GetChildParent(c)
    PROVE  CInv'
<1> DEFINE o == call[c]
           p == X!parentOf(o.bases[o.at])
<1>1. /\ o # none /\ o.pc = "begin" /\ o.method[2] = "GetChildParent" /\ UNCHANGED Stores
  BY DEF X!GetChildParent, X!at, Stores
<1>2. call = [d \in Callers |-> call[d]] /\ Shape(o) /\ Routed(o) /\ Listed(o)
  BY <1>1, UnderWay
<1>3. ParentsFound(o)
  BY <1>1, <1>2 DEF Listed
<1>4. /\ o.origin \in Seq(Keys) /\ o.values \in Seq(Seq(Keys)) /\ o.at \in Nat
      /\ o.bases \in Seq(Kids) /\ Len(o.values) + 1 = o.at
      /\ Len(o.origin) = Len(o.bases) /\ Len(o.values) <= Len(o.origin)
      /\ \A i \in 1 .. Len(o.values) : <<o.origin[i], o.values[i]>> \in Returned
      /\ \A i \in 1 .. Len(o.origin) : <<o.origin[i], o.bases[i]>> \in FoundUnder
  BY <1>1, <1>3 DEF ParentsFound, Aligned
<1>5. Len(o.values) \in Nat /\ Len(o.bases) \in Nat
  BY <1>4, LenProperties
<1>6. \/ o.at > Len(o.bases) /\ X!end(c, "done")
      \/ /\ ~(o.at > Len(o.bases))
         /\ call' = [call EXCEPT ![c] = [o EXCEPT !.pc = "failed", !.bases = << >>,
                                              !.values = << >>, !.origin = << >>, !.at = 1]]
      \/ /\ ~(o.at > Len(o.bases))
         /\ call' = [call EXCEPT ![c] = [o EXCEPT !.at = o.at + 1, !.values = Append(o.values, <<p>>)]]
  BY DEF X!GetChildParent
<1>7. CASE o.at > Len(o.bases) /\ X!end(c, "done")
  <2>1. call' = [call EXCEPT ![c] = [o EXCEPT !.pc = "done", !.via = none, !.bases = << >>,
                                              !.key = none]]
    BY <1>7 DEF X!end
  <2>2. call'[c] = [via |-> none, asked |-> o.asked, method |-> o.method, bases |-> << >>,
                    origin |-> o.origin, pc |-> "done", key |-> none, at |-> o.at,
                    left |-> o.left, seen |-> o.seen, values |-> o.values]
    BY <1>2, <2>1 DEF Shape
  <2>3. OnlyCall(c)
    BY <1>2, <2>1 DEF OnlyCall
  <2>4. Shape(call[c])'
    BY <2>2 DEF Shape
  <2>5. Routed(call[c])' /\ Pending(call[c])'
    BY <1>1, <1>2, <2>2, CrosstestAssumption DEF Routed, Pending
  <2>6. Len(o.values) = Len(o.origin)
    BY <1>4, <1>5, <1>7
  <2>7. ParentsFound(call[c])'
    <3>1. /\ call'[c].origin = o.origin /\ call'[c].values = o.values /\ call'[c].at = o.at
          /\ call'[c].pc = "done"
      BY <2>2
    <3> QED BY <1>4, <2>6, <3>1 DEF ParentsFound
  <2>8. Listed(call[c])'
    BY <1>1, <2>2, <2>7 DEF Listed
  <2>9. Fine(call[c])'
    BY <2>4, <2>5, <2>8 DEF Fine
  <2> QED BY <1>1, <2>3, <2>9, QuietCall
<1>8. CASE call' = [call EXCEPT ![c] = [o EXCEPT !.pc = "failed", !.bases = << >>,
                                              !.values = << >>, !.origin = << >>, !.at = 1]]
  <2>2. call'[c] = [via |-> o.via, asked |-> o.asked, method |-> o.method, bases |-> << >>,
                    origin |-> << >>, pc |-> "failed", key |-> o.key, at |-> 1,
                    left |-> o.left, seen |-> o.seen, values |-> << >>]
    BY <1>2, <1>8 DEF Shape
  <2>3. OnlyCall(c)
    BY <1>2, <1>8 DEF OnlyCall
  <2>4. Shape(call[c])'
    BY <2>2 DEF Shape
  <2>5. Routed(call[c])' /\ Pending(call[c])'
    BY <1>1, <1>2, <2>2 DEF Routed, Pending
  <2>6. << >> \in Seq(Keys) /\ << >> \in Seq(Seq(Keys)) /\ Len(<< >>) = 0
    OBVIOUS
  <2>7. ParentsFound(call[c])'
    <3>1. /\ call'[c].origin = << >> /\ call'[c].values = << >> /\ call'[c].at = 1
          /\ call'[c].pc = "failed"
      BY <2>2
    <3> QED BY <2>6, <3>1 DEF ParentsFound
  <2>8. Listed(call[c])'
    BY <1>1, <2>2, <2>7 DEF Listed
  <2>9. Fine(call[c])'
    BY <2>4, <2>5, <2>8 DEF Fine
  <2> QED BY <1>1, <2>3, <2>9, QuietCall
<1>9. CASE /\ ~(o.at > Len(o.bases))
           /\ call' = [call EXCEPT ![c] = [o EXCEPT !.at = o.at + 1,
                                                    !.values = Append(o.values, <<p>>)]]
  <2> DEFINE n == o.at
             vs == Append(o.values, <<p>>)
  <2>1. n \in 1 .. Len(o.origin)
    BY <1>4, <1>5, <1>9
  <2>2. p \in Keys /\ <<o.origin[n], <<p>>>> \in Returned
    BY <1>4, <2>1, ParentReturned
  <2> HIDE DEF p
  <2>3. <<p>> \in Seq(Keys)
    BY <2>2
  <2> DEFINE s == <<p>>
  <2> HIDE DEF s
  <2>4. /\ vs \in Seq(Seq(Keys)) /\ Len(vs) = n /\ vs[n] = s
        /\ \A i \in 1 .. Len(o.values) : vs[i] = o.values[i]
    <3>1. /\ Append(o.values, s) \in Seq(Seq(Keys)) /\ Len(Append(o.values, s)) = Len(o.values) + 1
          /\ \A i \in 1 .. Len(o.values) : Append(o.values, s)[i] = o.values[i]
          /\ Append(o.values, s)[Len(o.values) + 1] = s
      BY <1>4, <2>3, AppendProperties DEF s
    <3> QED BY <1>4, <3>1 DEF s
  <2>5. call' = [call EXCEPT ![c] = [o EXCEPT !.at = n + 1, !.values = vs]]
    BY <1>9
  <2> HIDE DEF vs
  <2>6. call'[c] = [via |-> o.via, asked |-> o.asked, method |-> o.method, bases |-> o.bases,
                    origin |-> o.origin, pc |-> o.pc, key |-> o.key, at |-> n + 1,
                    left |-> o.left, seen |-> o.seen, values |-> vs]
    BY <1>2, <2>5 DEF Shape
  <2>7. OnlyCall(c)
    BY <1>2, <2>5 DEF OnlyCall
  <2>8. Shape(call[c])'
    BY <2>6 DEF Shape
  <2>9. Routed(call[c])' /\ Pending(call[c])'
    BY <1>1, <1>2, <2>6 DEF Routed, Pending
  <2>10. \A i \in 1 .. Len(vs) : <<o.origin[i], vs[i]>> \in Returned
    <3> SUFFICES ASSUME NEW i \in 1 .. Len(vs) PROVE <<o.origin[i], vs[i]>> \in Returned
      OBVIOUS
    <3>1. CASE i = n
      BY <2>2, <2>4, <3>1 DEF s
    <3>2. CASE i # n
      <4>1. i \in 1 .. Len(o.values)
        <5> DEFINE l == Len(o.values)
                   m == Len(vs)
        <5>1. l \in Nat /\ l + 1 = n /\ m = n
          BY <1>4, <1>5, <2>4
        <5>2. i \in 1 .. m
          OBVIOUS
        <5> HIDE DEF l, m, n
        <5>3. i \in 1 .. l
          BY <3>2, <5>1, <5>2
        <5> QED BY <5>3 DEF l
      <4> QED BY <1>4, <2>4, <4>1
    <3> QED BY <3>1, <3>2
  <2>11. ParentsFound(call[c])'
    <3>1. /\ call'[c].origin = o.origin /\ call'[c].values = vs /\ call'[c].at = n + 1
          /\ call'[c].pc = "begin" /\ call'[c].bases = o.bases
      BY <1>1, <2>6
    <3>2. Len(vs) <= Len(o.origin) /\ n + 1 \in Nat /\ Len(vs) + 1 = n + 1
      BY <1>4, <1>5, <2>1, <2>4
    <3>3. Aligned(FoundUnder, o.origin, o.bases)
      BY <1>1, <1>3 DEF ParentsFound
    <3> QED BY <1>4, <2>4, <2>10, <3>1, <3>2, <3>3 DEF ParentsFound, Aligned
  <2>12. Listed(call[c])'
    BY <1>1, <2>6, <2>11 DEF Listed
  <2>13. Fine(call[c])'
    BY <2>8, <2>9, <2>12 DEF Fine
  <2> QED BY <1>1, <2>7, <2>13, QuietCall
<1> QED BY <1>6, <1>7, <1>8, <1>9

(* What the gateway asks a relation about is what it got, place by place.  *)
LEMMA OriginsAligned ==
    ASSUME NEW bases \in Seq(Keys), NEW from \in Seq(Seq(Kids)), Len(from) = Len(bases),
           \A i \in 1 .. Len(from) : \A k \in 1 .. Len(from[i]) :
              <<bases[i], from[i][k]>> \in FoundUnder
    PROVE  LET origin == X!FlattenSeq([i \in DOMAIN from |-> [k \in DOMAIN from[i] |-> bases[i]]])
           IN  /\ origin \in Seq(Keys) /\ X!FlattenSeq(from) \in Seq(Kids)
               /\ Aligned(FoundUnder, origin, X!FlattenSeq(from))
<1> DEFINE os == [i \in DOMAIN from |-> [k \in DOMAIN from[i] |-> bases[i]]]
<1>1. Len(from) \in Nat /\ DOMAIN from = 1 .. Len(from)
  BY LenProperties
<1>2. ASSUME NEW i \in 1 .. Len(from)
      PROVE  /\ os[i] \in Seq(Keys) /\ Len(os[i]) = Len(from[i])
             /\ Aligned(FoundUnder, os[i], from[i])
  <2>1. from[i] \in Seq(Kids) /\ bases[i] \in Keys
    BY <1>2, ElementOfSeq
  <2>2. Len(from[i]) \in Nat /\ DOMAIN from[i] = 1 .. Len(from[i])
    BY <2>1, LenProperties
  <2>3. os[i] = [k \in 1 .. Len(from[i]) |-> bases[i]]
    BY <1>1, <1>2, <2>2
  <2> HIDE DEF os
  <2>4. os[i] \in Seq(Keys) /\ Len(os[i]) = Len(from[i])
    BY <2>1, <2>2, <2>3
  <2> QED BY <1>2, <2>3, <2>4 DEF Aligned
<1>3. os \in Seq(Seq(Keys)) /\ Len(os) = Len(from)
  <2>1. os = [i \in 1 .. Len(from) |-> os[i]]
    BY <1>1
  <2> HIDE DEF os
  <2> QED BY <1>1, <1>2, <2>1
<1> HIDE DEF os
<1>4. /\ X!FlattenSeq(os) \in Seq(Keys) /\ X!FlattenSeq(from) \in Seq(Kids)
      /\ Aligned(FoundUnder, X!FlattenSeq(os), X!FlattenSeq(from))
  BY <1>2, <1>3, FlattenAligned
<1> QED BY <1>4 DEF os

(* The gateway's own calls reach the relation that was asked for.          *)
LEMMA RelationReached ==
    ASSUME NEW m \in {"GetChildParent", "GetParentChildren"}
    PROVE  LET asked == <<X!RelationsServiceName, m>>
           IN  /\ X!route(X!crosstestMux, X!endpointURL(X!gatewayRoute, asked[1], m), "POST") = asked
               /\ X!implementation[asked[1]][asked[2]] = "crosstest"
               /\ asked \in CrosstestMethods
<1> DEFINE sv == X!RelationsServiceName
           url == X!endpointURL(X!gatewayRoute, sv, m)
<1>1. m \in DOMAIN X!relationsServiceMethods
  BY DEF X!relationsServiceMethods
<1>2. Tail(url) = Path(sv, m)
  <2>1. X!gatewayRoute \in Bases \cup {X!gatewayRoute}
    OBVIOUS
  <2> QED BY <2>1, Urls
<1>3. X!route(X!crosstestMux, url, "POST") = <<sv, m>>
  <2> HIDE DEF url
  <2> QED BY <1>1, <1>2, Muxes, RouteFinds
<1>4. X!implementation[sv] = [x \in {"GetChildParent", "GetParentChildren"} |-> "crosstest"]
  BY DEF X!implementation, X!ParentServiceName, X!ChildServiceName, X!RelationsServiceName,
     X!Knittest!FooServiceName, X!Knittest!FizzServiceName, X!Knittest!RelationsServiceName
<1>5. <<sv, m>> \in CrosstestMethods
  BY DEF CrosstestMethods
<1> QED BY <1>3, <1>4, <1>5

(* What a relation is asked about is what the call before it answered.     *)
LEMMA StitchFine ==
    ASSUME CInv, NEW c \in Callers, X!Stitch(c)
    PROVE  CInv'
<1> DEFINE o == call[c]
           next == IF o.method[2] = "ListParents" THEN "GetParentChildren" ELSE "GetChildParent"
           from == o.values
           origin == IF next = "GetParentChildren" THEN << >>
                     ELSE X!FlattenSeq([i \in DOMAIN from |-> [k \in DOMAIN from[i] |-> o.bases[i]]])
           bases == X!FlattenSeq(from)
           asked == <<X!RelationsServiceName, next>>
           r == X!begin("Fetch", asked, asked, bases, origin)
<1>1. /\ o # none /\ o.pc = "done" /\ o.method[2] \in {"ListParents", "GetParentChildren"}
      /\ UNCHANGED Stores
  BY Zenon DEF X!Stitch, Stores
<1>2. call = [d \in Callers |-> call[d]] /\ Listed(o)
  BY <1>1, UnderWay
<1>3. call' = [call EXCEPT ![c] =
         X!begin("Fetch", asked,
                 X!route(X!crosstestMux, X!endpointURL(X!gatewayRoute, asked[1], next), "POST"),
                 bases, origin)]
  BY Zenon DEF X!Stitch
<1>4. next \in {"GetChildParent", "GetParentChildren"}
  OBVIOUS
<1>5. /\ X!route(X!crosstestMux, X!endpointURL(X!gatewayRoute, asked[1], next), "POST") = asked
      /\ X!implementation[asked[1]][asked[2]] = "crosstest" /\ asked \in CrosstestMethods
  <2> HIDE DEF next
  <2> QED BY <1>4, RelationReached
<1>6. call' = [call EXCEPT ![c] = r]
  <2> HIDE DEF next, origin, bases
  <2> QED BY <1>3, <1>5
<1>7. ASSUME next = "GetParentChildren" PROVE bases \in Seq(Keys)
  <2>1. o.method[2] = "ListParents"
    BY <1>7
  <2>2. from \in Seq(Seq(Keys))
    BY <1>2, <2>1 DEF Listed, ParentsListed
  <2> DEFINE R == Keys \X Keys
  <2> HIDE DEF from
  <2>3. \A i \in 1 .. Len(from) : Aligned(R, from[i], from[i])
    <3> SUFFICES ASSUME NEW i \in 1 .. Len(from) PROVE Aligned(R, from[i], from[i])
      OBVIOUS
    <3>1. from[i] \in Seq(Keys)
      BY <2>2, ElementOfSeq
    <3> QED BY <3>1, ElementOfSeq DEF Aligned
  <2> HIDE DEF R
  <2> QED BY <2>2, <2>3, FlattenAligned
<1>8. ASSUME next = "GetChildParent"
      PROVE  /\ bases \in Seq(Kids) /\ origin \in Seq(Keys)
             /\ Aligned(FoundUnder, origin, bases)
  <2>1. o.method[2] = "GetParentChildren"
    BY <1>1, <1>8
  <2>2. /\ o.bases \in Seq(Keys) /\ from \in Seq(Seq(Kids)) /\ Len(from) = Len(o.bases)
        /\ \A i \in 1 .. Len(from) : \A k \in 1 .. Len(from[i]) :
              <<o.bases[i], from[i][k]>> \in FoundUnder
    BY <1>1, <1>2, <2>1 DEF Listed, ChildrenListed
  <2>3. origin = X!FlattenSeq([i \in DOMAIN from |-> [k \in DOMAIN from[i] |-> o.bases[i]]])
    BY <1>8
  <2> HIDE DEF from, origin, next
  <2> QED BY <2>2, <2>3, OriginsAligned
<1>9. Fine(r)
  <2>1. "GetChildParent" \notin Mutating /\ "GetParentChildren" \notin Mutating
    BY DEF Mutating
  <2>2. asked[2] = next
    OBVIOUS
  <2> HIDE DEF next, bases, origin, asked
  <2>3. asked[2] \notin Mutating
    BY <1>4, <2>1, <2>2
  <2> QED BY <1>5, <1>7, <1>8, <2>2, <2>3, BegunFine
<1> HIDE DEF r
<1>10. call'[c] = r /\ OnlyCall(c)
  BY <1>2, <1>6 DEF OnlyCall
<1>11. Fine(call[c])'
  BY <1>1, <1>9, <1>10, BecomesFine
<1> QED BY <1>1, <1>10, <1>11, QuietCall

-----------------------------------------------------------------------------
(* A behaviour of one of the programs.                                     *)

Programs == program \in {"knitgateway", "crosstest-server", "knit_test"}

(* Nothing is about to begin with.                                         *)
LEMMA CrosstestBegins == MCInit => Programs /\ CInv
<1> SUFFICES ASSUME MCInit PROVE Programs /\ CInv
  OBVIOUS
<1>1. Programs /\ X!Empty
  BY DEF MCInit, X!Init, Programs
<1>2. /\ parents = {} /\ parentIds = 0 /\ children = {} /\ childIds = 0 /\ gone = {}
      /\ call = [c \in Callers |-> none]
  BY <1>1 DEF X!Empty
<1>3. StoresFine
  BY <1>2 DEF StoresFine
<1>4. CallsFine
  BY <1>2, Zenon DEF CallsFine
<1> QED BY <1>1, <1>3, <1>4 DEF CInv

(* Every step of a caller keeps the invariant.                             *)
LEMMA CrosstestStep ==
    ASSUME CInv, program \in {"crosstest-server", "knit_test"}, X!Next
    PROVE  CInv'
<1>1. PICK c \in Callers :
         \/ X!Call(c) \/ X!Return(c) \/ X!Stitch(c)
         \/ X!GetParent(c) \/ X!CreateParent(c) \/ X!UpdateParent(c)
         \/ X!GetChild(c) \/ X!FindParent(c) \/ X!CreateChild(c) \/ X!UpdateChild(c)
         \/ X!Store(c) \/ X!DeleteParent(c) \/ X!DeleteChild(c)
         \/ X!BeginRange(c) \/ X!EndRange(c) \/ X!GetChildParent(c)
         \/ \E key \in parents \cup children : X!Visit(c, key)
  BY Zenon DEF X!Next
<1>2. CASE X!Call(c) \/ X!Return(c) \/ X!Stitch(c)
  BY <1>2, CallFine, ReturnFine, StitchFine
<1>3. CASE X!GetParent(c) \/ X!GetChild(c) \/ X!UpdateParent(c) \/ X!UpdateChild(c)
  BY <1>3, GetFine, UpdateFine
<1>4. CASE X!CreateParent(c) \/ X!FindParent(c) \/ X!CreateChild(c)
  BY <1>4, CreateParentFine, FindParentFine, CreateChildFine
<1>5. CASE X!Store(c) \/ X!DeleteParent(c) \/ X!DeleteChild(c)
  BY <1>5, StoreFine, DeleteFine
<1>6. CASE X!BeginRange(c) \/ X!EndRange(c) \/ X!GetChildParent(c)
  BY <1>6, BeginRangeFine, EndRangeFine, GetChildParentFine
<1>7. ASSUME NEW key \in parents \cup children, X!Visit(c, key) PROVE CInv'
  BY <1>7, VisitFine
<1> QED BY <1>1, <1>2, <1>3, <1>4, <1>5, <1>6, <1>7

(* A caller does not make it another program.                              *)
LEMMA SameProgram == X!Next => UNCHANGED program
BY Zenon DEF X!Next, X!Call, X!Return, X!Stitch, X!GetParent, X!CreateParent, X!UpdateParent,
   X!GetChild, X!FindParent, X!CreateChild, X!UpdateChild, X!Store, X!DeleteParent,
   X!DeleteChild, X!remove, X!BeginRange, X!EndRange, X!GetChildParent, X!Visit

(* Steps of the gateway's process are none of a caller.                    *)
LEMMA CrosstestRests ==
    ASSUME Programs, CInv, UNCHANGED crosstestVars
    PROVE  Programs' /\ CInv'
<1>1. UNCHANGED <<program, parents, parentIds, children, childIds, call, gone>>
  BY DEF crosstestVars
<1>2. PIds' = PIds /\ CIds' = CIds
  BY <1>1 DEF PIds, CIds
<1>3. StoresFine'
  BY <1>1, <1>2 DEF CInv, StoresFine
<1>4. ASSUME NEW d \in Callers, call'[d] # none PROVE Fine(call[d])'
  <2>1. call'[d] = call[d] /\ Fine(call[d])
    BY <1>1, <1>4 DEF CInv, CallsFine
  <2> QED BY <1>1, <1>2, <2>1, OtherCallsStayFine
<1>5. CallsFine'
  <2>1. call' = [d \in Callers |-> call'[d]]
    BY <1>1 DEF CInv, CallsFine
  <2> QED BY <1>4, <2>1, Zenon DEF CallsFine
<1>6. Programs'
  BY <1>1 DEF Programs
<1> QED BY <1>3, <1>5, <1>6 DEF CInv

(* Every store and every call is as the invariant says, always.            *)
LEMMA CrosstestInvariant == MCSpec => [](Programs /\ CInv)
<1>1. Programs /\ CInv /\ [Gateway \/ CrosstestServer]_allVars => (Programs /\ CInv)'
  <2> SUFFICES ASSUME Programs, CInv, [Gateway \/ CrosstestServer]_allVars
               PROVE  Programs' /\ CInv'
    OBVIOUS
  <2>1. CASE Gateway \/ UNCHANGED allVars
    BY <2>1, CrosstestRests DEF Gateway, allVars
  <2>2. CASE CrosstestServer
    <3>1. X!Next /\ program \in {"crosstest-server", "knit_test"}
      BY <2>2 DEF CrosstestServer, Programs
    <3>2. CInv'
      BY <3>1, CrosstestStep
    <3>3. Programs'
      BY <3>1, SameProgram DEF Programs
    <3> QED BY <3>2, <3>3
  <2> QED BY <2>1, <2>2
<1> QED BY CrosstestBegins, <1>1, PTL DEF MCSpec

(* A call arrives at the method that was meant, for every caller, base URL *)
(* and program, through a generated client or through the gateway          *)
(* (endpointURL in gateway.go, the clients of crosstest.knit.go).          *)
THEOREM EveryCallArrives == MCSpec => []RoutedToItsMethod
<1>1. CInv => RoutedToItsMethod
  BY DEF CInv, CallsFine, Fine, Routed, RoutedToItsMethod, X!RoutedToItsMethod
<1> QED BY CrosstestInvariant, <1>1, PTL

(* What was deleted does not come back: ids are never given out twice      *)
(* (services.go, idCounter), so it takes an update that was under way.     *)
THEOREM TheDeletedStayAway == MCSpec => []GoneStaysGone
<1>1. CInv => GoneStaysGone
  BY DEF CInv, StoresFine, GoneStaysGone, X!GoneStaysGone
<1> QED BY CrosstestInvariant, <1>1, PTL

(* A Fetch that asks for the children of all parents and for the parents   *)
(* of these gets each child's own parent, which may be another than the    *)
(* one it was listed under only where ListChildren takes a prefix for the  *)
(* parent (resolvers.go, services.go).                                     *)
THEOREM ThereAndBack == MCSpec => []ParentOfItsChild
<1>1. CInv => ParentOfItsChild
  <2> SUFFICES ASSUME CInv, NEW c \in Callers, X!at(c, "GetChildParent", "done")
               PROVE  /\ Len(call[c].values) = Len(call[c].origin)
                      /\ \A i \in DOMAIN call[c].origin :
                            /\ X!IsPrefix(call[c].origin[i], call[c].values[i][1])
                            /\ Len(call[c].origin[i]) = Len(call[c].values[i][1]) =>
                                  call[c].origin[i] = call[c].values[i][1]
    BY Zenon DEF ParentOfItsChild, X!ParentOfItsChild
  <2> DEFINE o == call[c]
  <2>1. o # none /\ o.method[2] = "GetChildParent" /\ o.pc = "done"
    BY DEF X!at
  <2>2. ParentsFound(o)
    BY <2>1, UnderWay DEF Listed
  <2>3. /\ Len(o.values) = Len(o.origin) /\ o.origin \in Seq(Keys)
        /\ \A i \in 1 .. Len(o.values) : <<o.origin[i], o.values[i]>> \in Returned
    BY <2>1, <2>2 DEF ParentsFound
  <2> HIDE DEF o
  <2>4. DOMAIN o.origin = 1 .. Len(o.values)
    BY <2>3, LenProperties
  <2>5. \A i \in DOMAIN o.origin :
           /\ X!IsPrefix(o.origin[i], o.values[i][1])
           /\ Len(o.origin[i]) = Len(o.values[i][1]) => o.origin[i] = o.values[i][1]
    <3> SUFFICES ASSUME NEW i \in 1 .. Len(o.values)
                 PROVE  /\ X!IsPrefix(o.origin[i], o.values[i][1])
                        /\ Len(o.origin[i]) = Len(o.values[i][1]) => o.origin[i] = o.values[i][1]
      BY <2>4
    <3> DEFINE t == <<o.origin[i], o.values[i]>>
    <3>1. t \in Returned /\ t[1] = o.origin[i] /\ t[2] = o.values[i]
      BY <2>3
    <3> HIDE DEF t
    <3>2. X!IsPrefix(t[1], t[2][1]) /\ (Len(t[1]) = Len(t[2][1]) => t[1] = t[2][1])
      BY <3>1, Zenon DEF Returned
    <3> QED BY <3>1, <3>2
  <2> QED BY <2>3, <2>5 DEF o
<1> QED BY CrosstestInvariant, <1>1, PTL

(* A step after which a caller that came to read has gone on.              *)
ReadsGoOn ==
    \A c \in Callers :
       call[c] # none /\ call[c].via \in {"Fetch", "GET"} /\ call'[c] # none
       /\ call'[c].pc # call[c].pc
       => UNCHANGED <<parents, parentIds, children, childIds>>

(* Another caller's step leaves a call's place alone, but for a delete,    *)
(* which takes a key from what its Range has still to meet.                *)
LEMMA OthersStayThere ==
    ASSUME CInv, NEW c \in Callers, NEW d \in Callers, c # d, call[c] # none,
           \/ OnlyCall(d) \/ X!remove(d)
    PROVE  call'[c].pc = call[c].pc
<1>1. Shape(call[c])
  BY UnderWay
<1>2. CASE OnlyCall(d)
  BY <1>2 DEF OnlyCall
<1>3. CASE X!remove(d)
  <2>1. call'[c] = [call[c] EXCEPT !.left = call[c].left \ {X!arg(d)}]
    BY <1>3 DEF X!remove
  <2> QED BY <1>1, <2>1 DEF Shape
<1> QED BY <1>2, <1>3
(* A step that may change a store is of a method that does, and of one     *)
(* call.                                                                   *)
LEMMA WhoChangesStores ==
    ASSUME CInv, NEW d \in Callers,
           X!CreateParent(d) \/ X!CreateChild(d) \/ X!Store(d) \/ X!DeleteParent(d) \/ X!DeleteChild(d)
    PROVE  /\ call[d] # none /\ call[d].via \notin {"Fetch", "GET"}
           /\ OnlyCall(d) \/ X!remove(d)
<1>1. /\ call[d] # none
      /\ call[d].pc = "store" \/ call[d].method[2] \in Mutating
  BY DEF X!CreateParent, X!CreateChild, X!Store, X!DeleteParent, X!DeleteChild, X!at, Mutating
<1>2. call = [c \in Callers |-> call[c]] /\ Routed(call[d]) /\ Pending(call[d])
  BY <1>1, UnderWay
<1>3. call[d].via \notin {"Fetch", "GET"}
  BY <1>1, <1>2 DEF Routed, Pending
<1>4. OnlyCall(d) \/ X!remove(d)
  <2>1. CASE X!CreateParent(d) \/ X!CreateChild(d)
    BY <1>2, <2>1 DEF X!CreateParent, X!CreateChild, X!willStore, OnlyCall
  <2>2. CASE X!Store(d)
    BY <1>2, <2>2 DEF X!Store, X!end, OnlyCall
  <2>3. CASE X!DeleteParent(d) \/ X!DeleteChild(d)
    BY <2>3 DEF X!DeleteParent, X!DeleteChild
  <2> QED BY <2>1, <2>2, <2>3
<1> QED BY <1>1, <1>3, <1>4

(* No Fetch and no GET changes a store, whichever method or relation it    *)
(* runs: what can be fetched is declared without side effects, and what    *)
(* is so declared has none (services.go).                                  *)
THEOREM ReadingChangesNothing == MCSpec => FetchChangesNothing
<1>1. CInv /\ Programs /\ [Gateway \/ CrosstestServer]_allVars => [ReadsGoOn]_crosstestVars
  <2> SUFFICES ASSUME CInv, Programs, Gateway \/ CrosstestServer \/ UNCHANGED allVars,
                      ~ UNCHANGED crosstestVars
               PROVE  ReadsGoOn
    BY DEF allVars
  <2>1. X!Next
    BY DEF Gateway, CrosstestServer, allVars
  <2>2. PICK d \in Callers :
           \/ X!Call(d) \/ X!Return(d) \/ X!Stitch(d)
           \/ X!GetParent(d) \/ X!CreateParent(d) \/ X!UpdateParent(d)
           \/ X!GetChild(d) \/ X!FindParent(d) \/ X!CreateChild(d) \/ X!UpdateChild(d)
           \/ X!Store(d) \/ X!DeleteParent(d) \/ X!DeleteChild(d)
           \/ X!BeginRange(d) \/ X!EndRange(d) \/ X!GetChildParent(d)
           \/ \E key \in parents \cup children : X!Visit(d, key)
    BY <2>1, Zenon DEF X!Next
  <2>3. CASE \/ X!CreateParent(d) \/ X!CreateChild(d) \/ X!Store(d)
             \/ X!DeleteParent(d) \/ X!DeleteChild(d)
    <3>1. /\ call[d] # none /\ call[d].via \notin {"Fetch", "GET"}
          /\ OnlyCall(d) \/ X!remove(d)
      BY <2>3, WhoChangesStores
    <3> SUFFICES ASSUME NEW c \in Callers, call[c] # none, call[c].via \in {"Fetch", "GET"},
                        call'[c].pc # call[c].pc
                 PROVE  FALSE
      BY Zenon DEF ReadsGoOn
    <3>2. c # d
      BY <3>1
    <3> QED BY <3>1, <3>2, OthersStayThere
  <2>4. CASE ~ \/ X!CreateParent(d) \/ X!CreateChild(d) \/ X!Store(d)
               \/ X!DeleteParent(d) \/ X!DeleteChild(d)
    <3>1. UNCHANGED <<parents, parentIds, children, childIds>>
      BY <2>2, <2>4, Zenon DEF X!Call, X!Return, X!Stitch, X!GetParent, X!UpdateParent,
         X!GetChild, X!FindParent, X!UpdateChild, X!BeginRange, X!EndRange, X!GetChildParent,
         X!Visit
    <3> QED BY <3>1 DEF ReadsGoOn
  <2> QED BY <2>3, <2>4
<1>2. [ReadsGoOn]_crosstestVars
         => [\A c \in Callers :
                 call[c] # none /\ call[c].via \in {"Fetch", "GET"} /\ call'[c] # none
                 /\ call'[c].pc # call[c].pc
                 => UNCHANGED <<parents, parentIds, children, childIds>>]_(X!vars)
  BY DEF ReadsGoOn, crosstestVars, X!vars
<1> QED BY CrosstestInvariant, <1>1, <1>2, PTL DEF MCSpec, FetchChangesNothing, X!FetchChangesNothing
=============================================================================
