------------------------- MODULE GatewayUpdatesProofs -------------------------
(***************************************************************************)
(* The hot swap for any number of services, sources and versions.          *)
(***************************************************************************)
EXTENDS GatewayUpdates, TLAPS

(* The updater builds handlers only when main has installed the first one, *)
(* and main never comes back to CreateHandler: at most one of them builds. *)
OneBuilder ==
    /\ delegate = Nil => pc["updater"] \in {"wait", "check", "stopped"}
    /\ delegate # Nil => pc["main"] \in {"serving", "exited"}
    /\ pc["main"] \in {"await", "read", "load", "drain", "cas", "serving", "exited"}
    /\ pc["main"] = "serving" => delegate # Nil
    /\ pc["updater"] \in {"wait", "check", "debounce", "read", "load", "store",
                          "stopped"}

(* What a builder has found is no newer than what the watcher holds, and   *)
(* no older than what is served.                                           *)
Ordered ==
    /\ \A p \in Pollers : watch[p] <= src[p]
    /\ \A q \in Procs : \A s \in Services : snap[q][s] <= live(s)
    /\ \A q \in Procs : pc[q] \in {"load", "store", "drain", "cas"} =>
           \A s \in Services : snap[q][s] # 0
    /\ delegate # Nil => \A s \in Services : delegate[s] <= live(s)
    /\ delegate # Nil /\ pc["updater"] \in {"read", "load", "store"} =>
           \A s \in Services : snap["updater"][s] # 0 =>
               snap["updater"][s] >= delegate[s]

(* An out of date entry of the updater's new handler has a signal coming   *)
(* after it; main's first handler is up to date while startup is quiet.    *)
Tracked ==
    /\ ~ctxDone /\ pc["updater"] \in {"read", "load", "store"} =>
           \A s \in Services :
               snap["updater"][s] \in {0, live(s)} \/ cb[PollerOf[s]] > 0 \/ chan = 1
    /\ pc["main"] \in {"read", "load", "drain", "cas"} =>
           \A s \in Services : snap["main"][s] \in {0, live(s)}
    /\ NoLostUpdate

-----------------------------------------------------------------------------
(* Every variable of the gateway keeps its type; the update channel never  *)
(* holds more than its one signal.                                         *)
THEOREM Typing == Spec => []TypeOK
<1>1. Init => TypeOK
  <2> SUFFICES ASSUME Init PROVE TypeOK
    OBVIOUS
  <2>1. pc \in [Procs -> PCs]
    BY DEF Init, PCs
  <2>2. snap \in [Procs -> [Services -> Versions]]
    BY GatewayAssumption DEF Init, Versions, nothing
  <2>3. again \in [Pollers -> BOOLEAN] /\ failed \in BOOLEAN
    BY DEF Init
  <2> QED
    BY <2>1, <2>2, <2>3, GatewayAssumption DEF Init, TypeOK, Versions
<1>2. TypeOK /\ [Next]_vars => TypeOK'
  <2> SUFFICES ASSUME TypeOK, [Next]_vars PROVE TypeOK'
    OBVIOUS
  <2> USE GatewayAssumption DEF TypeOK, Versions
  <2>1. ASSUME NEW p \in Pollers, Publish(p) PROVE TypeOK'
    BY <2>1 DEF Publish
  <2>2. ASSUME NEW p \in Pollers, Poll(p) PROVE TypeOK'
    BY <2>2 DEF Poll
  <2>3. ASSUME NEW p \in Pollers, PollFails(p) PROVE TypeOK'
    BY <2>3 DEF PollFails
  <2>4. ASSUME NEW p \in Pollers, OnUpdate(p) PROVE TypeOK'
    BY <2>4 DEF OnUpdate, signal
  <2>5. CASE ReloadNow
    BY <2>5 DEF ReloadNow
  <2>6. ASSUME NEW q \in Procs, CreateHandler(q) PROVE TypeOK'
    <3>1. ASSUME NEW s \in Services, Lookup(q, s) PROVE TypeOK'
      BY <3>1 DEF Lookup, live
    <3>2. ASSUME NEW s \in Services, LookupFails(q, s) PROVE TypeOK'
      <4>1. failed' \in BOOLEAN
        BY <3>2, Zenon DEF LookupFails
      <4> QED
        BY <3>2, <4>1 DEF LookupFails, PCs
    <3>3. CASE Built(q)
      BY <3>3 DEF Built, PCs
    <3>4. CASE Load(q)
      BY <3>4 DEF Load, PCs
    <3>5. CASE Store(q)
      <4>1. failed' \in BOOLEAN
        BY <3>5, Zenon DEF Store, succeed
      <4> QED
        BY <3>5, <4>1 DEF Store, succeed, PCs
    <3>6. CASE Drain(q)
      BY <3>6 DEF Drain, PCs
    <3>7. CASE CompareAndSwap(q)
      <4>1. failed' \in BOOLEAN
        BY <3>7, Zenon DEF CompareAndSwap, succeed
      <4> QED
        BY <3>7, <4>1 DEF CompareAndSwap, succeed, PCs
    <3> QED
      BY <2>6, <3>1, <3>2, <3>3, <3>4, <3>5, <3>6, <3>7 DEF CreateHandler
  <2>7. CASE AwaitReady
    BY <2>7 DEF AwaitReady, enterCreateHandler, nothing, Procs, PCs
  <2>8. CASE StartupTimesOut \/ Shutdown
    BY <2>8 DEF StartupTimesOut, Shutdown, PCs
  <2>9. CASE Receive \/ NotInitialized \/ UpdaterStops
    BY <2>9 DEF Receive, NotInitialized, UpdaterStops, PCs
  <2>10. CASE Update \/ Debounced
    BY <2>10 DEF Update, Debounced, enterCreateHandler, nothing, Procs, PCs
  <2>11. CASE UNCHANGED vars
    BY <2>11 DEF vars
  <2> QED
    BY <2>1, <2>2, <2>3, <2>4, <2>5, <2>6, <2>7, <2>8, <2>9, <2>10, <2>11
    DEF Next, Main, Updater, Environment, Procs
<1> QED
  BY <1>1, <1>2, PTL DEF Spec

-----------------------------------------------------------------------------
(* Main and the updater never build handlers at the same time.             *)
LEMMA Builders == Spec => []OneBuilder
<1>1. Init => OneBuilder
  BY DEF Init, OneBuilder, Procs
<1>2. TypeOK /\ OneBuilder /\ [Next]_vars => OneBuilder'
  <2> SUFFICES ASSUME TypeOK, OneBuilder, [Next]_vars PROVE OneBuilder'
    OBVIOUS
  <2> USE GatewayAssumption DEF OneBuilder
  <2>a. pc \in [Procs -> PCs] /\ "main" \in Procs /\ "updater" \in Procs
        /\ snap \in [Procs -> [Services -> 0 .. MaxVersion]]
    BY DEF TypeOK, Procs, Versions
  <2>1. ASSUME NEW p \in Pollers, Publish(p) \/ Poll(p) \/ PollFails(p) \/ OnUpdate(p)
        PROVE  OneBuilder'
    BY <2>1 DEF Publish, Poll, PollFails, OnUpdate
  <2>2. CASE ReloadNow
    BY <2>2 DEF ReloadNow
  <2>3. ASSUME NEW q \in Procs, CreateHandler(q) PROVE OneBuilder'
    <3>1. ASSUME NEW s \in Services, Lookup(q, s) \/ LookupFails(q, s)
          PROVE  OneBuilder'
      BY <2>a, <3>1 DEF Lookup, LookupFails, Procs
    <3>2. CASE Built(q) \/ Load(q) \/ Drain(q)
      BY <2>a, <3>2 DEF Built, Load, Drain, Procs
    <3>3. CASE Store(q)
      BY <2>a, <3>3 DEF Store, succeed, Procs
    <3>4. CASE CompareAndSwap(q)
      BY <2>a, <3>4 DEF CompareAndSwap, succeed, Procs
    <3> QED
      BY <2>3, <3>1, <3>2, <3>3, <3>4 DEF CreateHandler
  <2>4. CASE AwaitReady \/ StartupTimesOut \/ Shutdown
    BY <2>a, <2>4 DEF AwaitReady, StartupTimesOut, Shutdown, enterCreateHandler
  <2>5. CASE Receive \/ NotInitialized \/ Update \/ Debounced \/ UpdaterStops
    BY <2>a, <2>5 DEF Receive, NotInitialized, notInitialized, Update, Debounced,
       UpdaterStops, enterCreateHandler
  <2>6. CASE UNCHANGED vars
    BY <2>6 DEF vars
  <2> QED
    BY <2>1, <2>2, <2>3, <2>4, <2>5, <2>6 DEF Next, Main, Updater, Environment, Procs
<1> QED
  BY <1>1, <1>2, Typing, PTL DEF Spec

(* Versions are found and served in order.                                 *)
LEMMA Order == Spec => []Ordered
<1>1. Init => Ordered
  BY GatewayAssumption DEF Init, Ordered, live, Procs, nothing
<1>2. TypeOK /\ OneBuilder /\ Ordered /\ [Next]_vars => Ordered'
  <2> SUFFICES ASSUME TypeOK, OneBuilder, Ordered, [Next]_vars PROVE Ordered'
    OBVIOUS
  <2> USE GatewayAssumption DEF Ordered, live
  <2>a. /\ src \in [Pollers -> 1 .. MaxVersion]
        /\ watch \in [Pollers -> 0 .. MaxVersion]
        /\ delegate # Nil => delegate \in [Services -> 0 .. MaxVersion]
        /\ pc \in [Procs -> PCs]
        /\ snap \in [Procs -> [Services -> 0 .. MaxVersion]]
        /\ "main" \in Procs /\ "updater" \in Procs
    BY DEF TypeOK, Procs, Versions
  <2>1. ASSUME NEW p \in Pollers, Publish(p) PROVE Ordered'
    BY <2>a, <2>1 DEF Publish
  <2>2. ASSUME NEW p \in Pollers, Poll(p) PROVE Ordered'
    <3>1. \A w \in Pollers : watch[w] <= watch'[w] /\ watch'[w] <= src'[w]
      BY <2>a, <2>2 DEF Poll
    <3>2. watch' \in [Pollers -> 0 .. MaxVersion]
      BY <2>a, <2>2 DEF Poll
    <3>3. UNCHANGED <<delegate, pc, snap>>
      BY <2>2 DEF Poll
    <3> QED
      BY <2>a, <3>1, <3>2, <3>3
  <2>3. ASSUME NEW p \in Pollers, PollFails(p) \/ OnUpdate(p) PROVE Ordered'
    BY <2>3 DEF PollFails, OnUpdate
  <2>4. CASE ReloadNow
    BY <2>4 DEF ReloadNow
  <2>5. ASSUME NEW q \in Procs, CreateHandler(q) PROVE Ordered'
    <3>1. ASSUME NEW s \in Services, Lookup(q, s) PROVE Ordered'
      <4>1. /\ UNCHANGED <<src, watch, delegate, pc>>
            /\ pc[q] = "read"
            /\ snap' = [snap EXCEPT ![q][s] = watch[PollerOf[s]]]
        BY <3>1 DEF Lookup
      <4>2. \A r \in Procs : \A u \in Services :
               snap'[r][u] = IF r = q /\ u = s THEN watch[PollerOf[s]] ELSE snap[r][u]
        BY <2>a, <4>1
      <4>3. \A r \in Procs : \A u \in Services : (snap[r][u] <= live(u))'
        BY <2>a, <4>1, <4>2
      <4>4. \A r \in Procs : (pc[r] \in {"load", "store", "drain", "cas"})' =>
               \A u \in Services : (snap[r][u] # 0)'
        BY <2>a, <4>1, <4>2
      <4> QED
        BY <2>a, <4>1, <4>2, <4>3, <4>4
    <3>2. ASSUME NEW s \in Services, LookupFails(q, s) PROVE Ordered'
      BY <2>a, <3>2 DEF LookupFails, Procs
    <3>3. CASE Built(q) \/ Load(q) \/ Drain(q)
      BY <2>a, <3>3 DEF Built, Load, Drain, Procs, OneBuilder
    <3>4. CASE Store(q)
      <4>1. q = "updater" /\ delegate # Nil /\ delegate' = snap["updater"]
        BY <3>4 DEF Store, OneBuilder, Procs
      <4>2. pc' = [pc EXCEPT !["updater"] = "wait"] /\ UNCHANGED <<src, watch, snap>>
        BY <3>4, <4>1 DEF Store, succeed
      <4> QED
        BY <2>a, <4>1, <4>2
    <3>5. CASE CompareAndSwap(q)
      BY <2>a, <3>5 DEF CompareAndSwap, succeed, Procs, OneBuilder
    <3> QED
      BY <2>5, <3>1, <3>2, <3>3, <3>4, <3>5 DEF CreateHandler
  <2>6. CASE AwaitReady \/ Update \/ Debounced
    <3>1. UNCHANGED <<src, watch, delegate>>
      BY <2>6 DEF AwaitReady, Update, Debounced
    <3>2. PICK q \in Procs :
            \/ pc' = [pc EXCEPT ![q] = "read"] /\ snap' = [snap EXCEPT ![q] = nothing]
            \/ pc' = [pc EXCEPT ![q] = "debounce"] /\ snap' = snap
      BY <2>6 DEF AwaitReady, Update, Debounced, enterCreateHandler, Procs
    <3>3. /\ \A r \in Procs : \A s \in Services :
                snap'[r][s] = snap[r][s] \/ (r = q /\ snap'[r][s] = 0)
          /\ \A r \in Procs : r # q => pc'[r] = pc[r] /\ snap'[r] = snap[r]
          /\ pc'[q] \in {"read", "debounce"}
          /\ pc'[q] = "read" => \A s \in Services : snap'[q][s] = 0
      BY <2>a, <3>2 DEF nothing
    <3>4. \A r \in Procs : \A s \in Services : (snap[r][s] <= live(s))'
      BY <2>a, <3>1, <3>3
    <3>5. \A r \in Procs : (pc[r] \in {"load", "store", "drain", "cas"})' =>
             \A s \in Services : (snap[r][s] # 0)'
      BY <2>a, <3>3
    <3>6. (delegate # Nil /\ pc["updater"] \in {"read", "load", "store"})' =>
             \A s \in Services : (snap["updater"][s] # 0 =>
                                     snap["updater"][s] >= delegate[s])'
      BY <2>a, <3>1, <3>3
    <3> QED
      BY <3>1, <3>4, <3>5, <3>6
  <2>7. CASE StartupTimesOut \/ Shutdown
    BY <2>a, <2>7 DEF StartupTimesOut, Shutdown
  <2>8. CASE Receive \/ NotInitialized \/ UpdaterStops
    BY <2>a, <2>8 DEF Receive, NotInitialized, UpdaterStops
  <2>9. CASE UNCHANGED vars
    BY <2>9 DEF vars
  <2> QED
    BY <2>1, <2>2, <2>3, <2>4, <2>5, <2>6, <2>7, <2>8, <2>9
    DEF Next, Main, Updater, Environment, Procs
<1> QED
  BY <1>1, <1>2, Typing, Builders, PTL DEF Spec

(* The live handler is never replaced by one that is older for some        *)
(* service, and never taken away, whatever the watchers, main and the      *)
(* updater do at the same time.                                            *)
THEOREM SwapsForward == Spec => NeverOlder
<1>1. TypeOK /\ OneBuilder /\ Ordered /\ [Next]_vars =>
        [delegate # Nil =>
          delegate' # Nil /\ \A s \in Services : delegate'[s] >= delegate[s]]_vars
  <2> SUFFICES ASSUME TypeOK, OneBuilder, Ordered, Next, delegate # Nil
               PROVE  delegate' # Nil /\ \A s \in Services : delegate'[s] >= delegate[s]
    BY DEF vars
  <2>1. delegate \in [Services -> 0 .. MaxVersion]
    BY DEF TypeOK, Versions
  <2>2. CASE UNCHANGED delegate
    BY <2>1, <2>2
  <2>3. ASSUME NEW q \in Procs, Store(q) \/ CompareAndSwap(q), delegate' # delegate
        PROVE  /\ delegate' # Nil
               /\ \A s \in Services : delegate'[s] >= delegate[s]
    <3>1. q = "updater" /\ pc["updater"] = "store" /\ delegate' = snap["updater"]
      BY <2>3 DEF Store, CompareAndSwap, OneBuilder, Procs
    <3>2. snap["updater"] \in [Services -> 0 .. MaxVersion]
      BY DEF TypeOK, Versions, Procs
    <3>3. \A s \in Services : snap["updater"][s] # 0
      BY <3>1 DEF Ordered, Procs
    <3> QED
      BY <3>1, <3>2, <3>3, GatewayAssumption DEF Ordered
  <2>4. delegate' = delegate \/ \E q \in Procs : Store(q) \/ CompareAndSwap(q)
    BY DEF Next, Main, Updater, Environment, Publish, Poll, PollFails, OnUpdate,
       ReloadNow, CreateHandler, Lookup, LookupFails, Built, Load, Drain,
       AwaitReady, StartupTimesOut, Shutdown, Receive, NotInitialized, Update,
       Debounced, UpdaterStops, Procs
  <2> QED
    BY <2>2, <2>3, <2>4
<1> QED
  BY <1>1, Typing, Builders, Order, PTL DEF Spec, NeverOlder

(* No update is lost, for any number of services and sources, with or      *)
(* without debounce and jitter, if no watcher changes while main builds    *)
(* the first handler.                                                      *)
THEOREM NothingLost == ASSUME QuietStartup PROVE Spec => []NoLostUpdate
<1>1. Init => Tracked
  BY GatewayAssumption DEF Init, Tracked, NoLostUpdate, Procs
<1>2. TypeOK /\ OneBuilder /\ Ordered /\ Tracked /\ [Next]_vars => Tracked'
  <2> SUFFICES ASSUME TypeOK, OneBuilder, Ordered, Tracked, [Next]_vars PROVE Tracked'
    OBVIOUS
  <2> USE GatewayAssumption DEF Tracked, NoLostUpdate, onItsWay, ctxDone, live
  <2>a. /\ watch \in [Pollers -> 0 .. MaxVersion]
        /\ cb \in [Pollers -> Nat] /\ chan \in {0, 1}
        /\ delegate # Nil => delegate \in [Services -> 0 .. MaxVersion]
        /\ pc \in [Procs -> PCs]
        /\ snap \in [Procs -> [Services -> 0 .. MaxVersion]]
        /\ "main" \in Procs /\ "updater" \in Procs
    BY DEF TypeOK, Procs, Versions
  <2>1. ASSUME NEW p \in Pollers, Publish(p) \/ PollFails(p) PROVE Tracked'
    BY <2>1 DEF Publish, PollFails
  <2>2. ASSUME NEW p \in Pollers, Poll(p) PROVE Tracked'
    <3>1. UNCHANGED <<chan, delegate, pc, snap, failed>>
      BY <2>2 DEF Poll
    <3>2. \A w \in Pollers : (watch'[w] = watch[w] /\ cb'[w] = cb[w]) \/ cb'[w] > 0
      BY <2>a, <2>2 DEF Poll
    <3>3. starting => watch' = watch
      BY <2>a, <2>2 DEF Poll
    <3> QED
      BY <2>a, <3>1, <3>2, <3>3 DEF starting
  <2>3. ASSUME NEW p \in Pollers, OnUpdate(p) PROVE Tracked'
    BY <2>a, <2>3 DEF OnUpdate, signal
  <2>4. CASE ReloadNow
    BY <2>4 DEF ReloadNow
  <2>5. ASSUME NEW q \in Procs, CreateHandler(q) PROVE Tracked'
    <3>1. ASSUME NEW s \in Services, Lookup(q, s) PROVE Tracked'
      <4>1. /\ UNCHANGED <<watch, cb, chan, delegate, pc, failed>>
            /\ pc[q] = "read"
            /\ snap' = [snap EXCEPT ![q][s] = watch[PollerOf[s]]]
        BY <3>1 DEF Lookup
      <4>2. \A r \in Procs : \A u \in Services :
               snap'[r][u] = snap[r][u] \/ snap'[r][u] = watch[PollerOf[u]]
        BY <2>a, <4>1
      <4> QED
        BY <2>a, <4>1, <4>2
    <3>2. ASSUME NEW s \in Services, LookupFails(q, s) PROVE Tracked'
      BY <2>a, <3>2 DEF LookupFails, Procs
    <3>3. CASE Built(q) \/ Load(q)
      BY <2>a, <3>3 DEF Built, Load, Procs
    <3>4. CASE Drain(q)
      BY <2>a, <3>4 DEF Drain, Procs, OneBuilder
    <3>5. CASE Store(q)
      BY <2>a, <3>5 DEF Store, succeed, Procs, OneBuilder, Ordered
    <3>6. CASE CompareAndSwap(q)
      BY <2>a, <3>6 DEF CompareAndSwap, succeed, Procs, OneBuilder, Ordered
    <3> QED
      BY <2>5, <3>1, <3>2, <3>3, <3>4, <3>5, <3>6 DEF CreateHandler
  <2>6. CASE AwaitReady \/ Update \/ Debounced
    BY <2>a, <2>6 DEF AwaitReady, Update, Debounced, enterCreateHandler, nothing,
       OneBuilder
  <2>7. CASE StartupTimesOut \/ Shutdown
    BY <2>a, <2>7 DEF StartupTimesOut, Shutdown
  <2>8. CASE Receive \/ NotInitialized \/ UpdaterStops
    BY <2>a, <2>8 DEF Receive, NotInitialized, notInitialized, UpdaterStops
  <2>9. CASE UNCHANGED vars
    BY <2>9 DEF vars
  <2> QED
    BY <2>1, <2>2, <2>3, <2>4, <2>5, <2>6, <2>7, <2>8, <2>9
    DEF Next, Main, Updater, Environment, Procs
<1>3. Tracked => NoLostUpdate
  BY DEF Tracked
<1> QED
  BY <1>1, <1>2, <1>3, Typing, Builders, Order, PTL DEF Spec

-----------------------------------------------------------------------------
(* What a builder has found can be registered.                             *)
Registrable ==
    \A q \in Procs : \A s \in Services :
        snap[q][s] # 0 => <<s, snap[q][s]>> \notin Bad

(* It was checked service by service as it was looked up.                  *)
LEMMA Checked == Spec => []Registrable
<1>1. Init => Registrable
  BY DEF Init, Registrable, nothing
<1>2. TypeOK /\ Registrable /\ [Next]_vars => Registrable'
  <2> SUFFICES ASSUME TypeOK, Registrable, [Next]_vars PROVE Registrable'
    OBVIOUS
  <2>a. snap \in [Procs -> [Services -> 0 .. MaxVersion]]
    BY DEF TypeOK, Versions
  <2>1. ASSUME NEW q \in Procs, NEW s \in Services, Lookup(q, s)
        PROVE  Registrable'
    <3>1. <<s, live(s)>> \notin Bad /\ snap' = [snap EXCEPT ![q][s] = live(s)]
      BY <2>1 DEF Lookup
    <3>2. \A r \in Procs : \A u \in Services :
             snap'[r][u] = IF r = q /\ u = s THEN live(s) ELSE snap[r][u]
      BY <2>a, <3>1
    <3> QED
      BY <3>1, <3>2 DEF Registrable
  <2>2. CASE \E q \in Procs : snap' = [snap EXCEPT ![q] = nothing]
    <3>1. PICK q \in Procs : snap' = [snap EXCEPT ![q] = nothing]
      BY <2>2
    <3>2. \A r \in Procs : \A u \in Services :
             snap'[r][u] = IF r = q THEN 0 ELSE snap[r][u]
      BY <2>a, <3>1 DEF nothing
    <3> QED
      BY <3>2 DEF Registrable
  <2>3. CASE UNCHANGED snap
    BY <2>3 DEF Registrable
  <2>4. \/ UNCHANGED snap
        \/ \E q \in Procs : snap' = [snap EXCEPT ![q] = nothing]
        \/ \E q \in Procs : \E s \in Services : Lookup(q, s)
    BY DEF Next, Main, Updater, Environment, Publish, Poll, PollFails, OnUpdate,
       ReloadNow, CreateHandler, LookupFails, Built, Load, Store, Drain,
       CompareAndSwap, AwaitReady, StartupTimesOut, Shutdown, Receive,
       NotInitialized, Update, Debounced, UpdaterStops, enterCreateHandler,
       Procs, vars
  <2> QED
    BY <2>1, <2>2, <2>3, <2>4
<1> QED
  BY <1>1, <1>2, Typing, PTL DEF Spec

(* The gateway implements the register: whatever watchers, callbacks, main *)
(* and the updater do at the same time, callers see schemas that were at   *)
(* hand and could be registered, and see them go forward only.             *)
THEOREM GatewayIsARegister == Spec => SwapsLikeARegister
<1> DEFINE heldNow == [s \in Services |-> live(s)]
<1>1. Init => Served!Init
  BY GatewayAssumption DEF Init, Served!Init, live
<1>2. TypeOK /\ OneBuilder /\ Ordered /\ Ordered' /\ TypeOK' /\ Registrable /\ [Next]_vars
        => [Served!Next]_(Served!vars)
  <2> SUFFICES ASSUME TypeOK, OneBuilder, Ordered, Ordered', TypeOK', Registrable,
                      [Next]_vars
               PROVE  Served!Next \/ UNCHANGED Served!vars
    OBVIOUS
  <2>a. /\ src \in [Pollers -> 1 .. MaxVersion]
        /\ watch \in [Pollers -> 0 .. MaxVersion]
        /\ watch' \in [Pollers -> 0 .. MaxVersion]
        /\ delegate # Nil => delegate \in [Services -> 0 .. MaxVersion]
        /\ snap \in [Procs -> [Services -> 0 .. MaxVersion]]
        /\ PollerOf \in [Services -> Pollers]
    BY GatewayAssumption DEF TypeOK, Versions
  <2>1. ASSUME NEW p \in Pollers, Poll(p) PROVE Served!Next
    <3>1. UNCHANGED delegate /\ watch' = [watch EXCEPT ![p] = src[p]]
      BY <2>1 DEF Poll
    <3>2. \A w \in Pollers : watch[w] <= watch'[w]
      BY <2>a, <3>1 DEF Ordered
    <3>3. heldNow' \in Served!Vector
      BY <2>a DEF Served!Vector, live
    <3>4. Served!notOlder(heldNow', heldNow)
      BY <2>a, <3>2 DEF Served!notOlder, live
    <3> QED
      BY <3>1, <3>3, <3>4 DEF Served!Next, Served!Observe
  <2>2. ASSUME NEW q \in Procs, Store(q) \/ CompareAndSwap(q), delegate' # delegate
        PROVE  Served!Next
    <3>1. /\ delegate' = snap[q] /\ UNCHANGED watch
          /\ pc[q] \in {"store", "cas"}
          /\ delegate = Nil \/ (q = "updater" /\ pc["updater"] = "store")
      BY <2>2 DEF Store, CompareAndSwap, OneBuilder, Procs
    <3>2. delegate' \in Served!Vector
      BY <2>a, <3>1 DEF Served!Vector
    <3>3. Served!servable(delegate')
      BY <3>1 DEF Served!servable, Ordered, Registrable
    <3>4. Served!notOlder(heldNow, delegate')
      BY <2>a, <3>1 DEF Served!notOlder, Ordered, live
    <3>5. delegate # Nil => Served!notOlder(delegate', delegate)
      BY <2>a, <3>1 DEF Served!notOlder, Ordered, Procs
    <3>6. UNCHANGED heldNow
      BY <3>1 DEF live
    <3> QED
      BY <3>2, <3>3, <3>4, <3>5, <3>6 DEF Served!Next, Served!Serve
  <2>3. CASE UNCHANGED <<watch, delegate>>
    BY <2>3 DEF Served!vars, live
  <2>4. \/ UNCHANGED <<watch, delegate>>
        \/ \E p \in Pollers : Poll(p)
        \/ \E q \in Procs : Store(q) \/ CompareAndSwap(q)
    BY DEF Next, Main, Updater, Environment, Publish, PollFails, OnUpdate,
       ReloadNow, CreateHandler, Lookup, LookupFails, Built, Load, Drain,
       AwaitReady, StartupTimesOut, Shutdown, Receive, NotInitialized, Update,
       Debounced, UpdaterStops, Procs, vars
  <2>5. \A q \in Procs : Store(q) \/ CompareAndSwap(q) => UNCHANGED watch
    BY DEF Store, CompareAndSwap
  <2> QED
    BY <2>1, <2>2, <2>3, <2>4, <2>5
<1> QED
  BY <1>1, <1>2, Typing, Builders, Order, Checked, PTL DEF Spec, SwapsLikeARegister, Served!Spec
=============================================================================
