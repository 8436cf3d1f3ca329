---------------------------- MODULE GatewayUpdates ----------------------------
(***************************************************************************)
(* The hot-swappable gateway: schema watchers, the update signal, and the  *)
(* two goroutines that call CreateHandler (main once at startup, the       *)
(* updater of handleUpdates afterwards).                                   *)
(*                                                                         *)
(* Versions are numbered from 1; 0 is "nothing yet".  The schema watchers  *)
(* are a library: a watcher polls its source, keeps the last schema it     *)
(* got, and calls OnUpdate asynchronously after the schema has changed.    *)
(***************************************************************************)
EXTENDS Naturals

CONSTANTS
    Services,       \* the configured services
    Pollers,        \* the distinct descriptor sources, one watcher each
    PollerOf,       \* PollerOf[s]: the source of service s
    First,          \* with jitter: the poller that CreateGateway meets first
    Debounce,       \* PollingDebounce > 0
    Bad,            \* <<s, v>>: service s cannot be registered from version v
    QuietStartup,   \* no watcher changes while main builds the first handler
    MaxVersion,     \* bound: versions a source goes through
    Nil

ASSUME GatewayAssumption ==
    /\ PollerOf \in [Services -> Pollers]
    /\ First \in Pollers \cup {Nil}
    /\ Nil \notin Pollers
    /\ Debounce \in BOOLEAN
    /\ QuietStartup \in BOOLEAN
    /\ MaxVersion \in Nat \ {0}
    /\ Nil \notin [Services -> 0 .. MaxVersion]

VARIABLES
    src,        \* src[p]: the version the source offers
    watch,      \* watch[p]: the version the watcher holds
    again,      \* again[p]: ResolveNow was called
    cb,         \* cb[p]: OnUpdate calls under way
    chan,       \* signals in updateChan, capacity 1
    delegate,   \* Nil, or the version of each service in the live handler
    pc,         \* where main and the updater are
    snap,       \* snap[q][s]: the version q's CreateHandler found for s
    failed      \* history: the updater's last CreateHandler failed

vars == <<src, watch, again, cb, chan, delegate, pc, snap, failed>>

Procs     == {"main", "updater"}
Versions  == 0 .. MaxVersion
nothing   == [s \in Services |-> 0]
ctxDone   == pc["main"] = "exited"
live(s)   == watch[PollerOf[s]]

Init ==
    /\ src = [p \in Pollers |-> 1]
    /\ watch = [p \in Pollers |-> 0]
    /\ again = [p \in Pollers |-> FALSE]
    /\ cb = [p \in Pollers |-> 0]
    /\ chan = 0
    /\ delegate = Nil
    /\ pc = [q \in Procs |-> IF q = "main" THEN "await" ELSE "wait"]
    /\ snap = [q \in Procs |-> nothing]
    /\ failed = FALSE

-----------------------------------------------------------------------------
(* Sources and watchers.                                                   *)

Publish(p) ==
    /\ src[p] < MaxVersion
    /\ src' = [src EXCEPT ![p] = @ + 1]
    /\ UNCHANGED <<watch, again, cb, chan, delegate, pc, snap, failed>>

(* The first download is retried until it succeeds.  Later the watcher     *)
(* polls by its own period or when ResolveNow is called; with jitter, all  *)
(* periods but that of First are endless.                                  *)
polls(p) ==
    /\ ~ctxDone
    /\ watch[p] = 0 \/ First = Nil \/ p = First \/ again[p]

starting == pc["main"] \in {"read", "load", "store", "drain", "cas"}

Poll(p) ==
    /\ polls(p)
    /\ watch[p] # src[p] \/ again[p]
    /\ QuietStartup /\ starting => watch[p] = src[p]
    /\ watch' = [watch EXCEPT ![p] = src[p]]
    /\ cb' = [cb EXCEPT ![p] = IF watch[p] # src[p] THEN @ + 1 ELSE @]
    /\ again' = [again EXCEPT ![p] = FALSE]
    /\ UNCHANGED <<src, chan, delegate, pc, snap, failed>>

(* OnError only logs.                                                      *)
PollFails(p) ==
    /\ polls(p)
    /\ again[p]
    /\ again' = [again EXCEPT ![p] = FALSE]
    /\ UNCHANGED <<src, watch, cb, chan, delegate, pc, snap, failed>>

signalMissing == chan

(* The non-blocking send: a full buffer means a signal is pending already. *)
signal == IF ctxDone THEN chan ELSE 1

OnUpdate(p) ==
    /\ cb[p] > 0
    /\ cb' = [cb EXCEPT ![p] = @ - 1]
    /\ again' = [w \in Pollers |-> again[w] \/ (p = First /\ w # p)]
    /\ chan' = signal
    /\ UNCHANGED <<src, watch, delegate, pc, snap, failed>>

(* POST /admin/reload-now                                                  *)
ReloadNow ==
    /\ pc["main"] = "serving"
    /\ again' = [p \in Pollers |-> TRUE]
    /\ UNCHANGED <<src, watch, cb, chan, delegate, pc, snap, failed>>

-----------------------------------------------------------------------------
(* CreateHandler, run by q.                                                *)

enterCreateHandler(q) ==
    /\ pc' = [pc EXCEPT ![q] = "read"]
    /\ snap' = [snap EXCEPT ![q] = nothing]

(* main goes on to serve, the updater to wait for the next signal.         *)
succeed(q) ==
    /\ pc' = [pc EXCEPT ![q] = IF q = "main" THEN "serving" ELSE "wait"]
    /\ failed' = (failed /\ q = "main")

(* Slip: the error of AddService is not looked at.                         *)
LookupUnchecked(q, s) ==
    /\ pc[q] = "read"
    /\ snap[q][s] = 0
    /\ snap' = [snap EXCEPT ![q][s] = live(s)]
    /\ UNCHANGED <<src, watch, again, cb, chan, delegate, pc, failed>>

(* Find the service's descriptor in its watcher and register it.           *)
Lookup(q, s) ==
    /\ pc[q] = "read"
    /\ snap[q][s] = 0
    /\ <<s, live(s)>> \notin Bad
    /\ snap' = [snap EXCEPT ![q][s] = live(s)]
    /\ UNCHANGED <<src, watch, again, cb, chan, delegate, pc, failed>>

(* It is fatal to main and logged by the updater.                          *)
LookupFails(q, s) ==
    /\ pc[q] = "read"
    /\ snap[q][s] = 0
    /\ <<s, live(s)>> \in Bad
    /\ pc' = [pc EXCEPT ![q] = IF q = "main" THEN "exited" ELSE "wait"]
    /\ failed' = (failed \/ q = "updater")
    /\ UNCHANGED <<src, watch, again, cb, chan, delegate, snap>>

(* Slip: signals that came during the build are taken to be answered by it. *)
BuiltAndDrained(q) ==
    /\ pc[q] = "read"
    /\ \A s \in Services : snap[q][s] # 0
    /\ pc' = [pc EXCEPT ![q] = "load"]
    /\ chan' = 0
    /\ UNCHANGED <<src, watch, again, cb, delegate, snap, failed>>

Built(q) ==
    /\ pc[q] = "read"
    /\ \A s \in Services : snap[q][s] # 0
    /\ pc' = [pc EXCEPT ![q] = "load"]
    /\ UNCHANGED <<src, watch, again, cb, chan, delegate, snap, failed>>

Load(q) ==
    /\ pc[q] = "load"
    /\ pc' = [pc EXCEPT ![q] = IF delegate = Nil THEN "drain" ELSE "store"]
    /\ UNCHANGED <<src, watch, again, cb, chan, delegate, snap, failed>>

Store(q) ==
    /\ pc[q] = "store"
    /\ delegate' = snap[q]
    /\ succeed(q)
    /\ UNCHANGED <<src, watch, again, cb, chan, snap>>

Drain(q) ==
    /\ pc[q] = "drain"
    /\ chan' = 0
    /\ pc' = [pc EXCEPT ![q] = "cas"]
    /\ UNCHANGED <<src, watch, again, cb, delegate, snap, failed>>

CompareAndSwap(q) ==
    /\ pc[q] = "cas"
    /\ IF delegate = Nil
       THEN delegate' = snap[q] /\ succeed(q)
       ELSE /\ pc' = [pc EXCEPT ![q] = "load"]
            /\ UNCHANGED <<delegate, failed>>
    /\ UNCHANGED <<src, watch, again, cb, chan, snap>>

CreateHandler(q) ==
    \/ \E s \in Services : Lookup(q, s) \/ LookupFails(q, s)
    \/ Built(q) \/ Load(q) \/ Store(q) \/ Drain(q) \/ CompareAndSwap(q)

-----------------------------------------------------------------------------
(* main.                                                                   *)

AwaitReady ==
    /\ pc["main"] = "await"
    /\ \A p \in Pollers : watch[p] # 0
    /\ enterCreateHandler("main")
    /\ UNCHANGED <<src, watch, again, cb, chan, delegate, failed>>

(* StartupMaxWait elapses.                                                 *)
StartupTimesOut ==
    /\ pc["main"] = "await"
    /\ \E p \in Pollers : watch[p] = 0
    /\ pc' = [pc EXCEPT !["main"] = "exited"]
    /\ UNCHANGED <<src, watch, again, cb, chan, delegate, snap, failed>>

Shutdown ==
    /\ pc["main"] = "serving"
    /\ pc' = [pc EXCEPT !["main"] = "exited"]
    /\ UNCHANGED <<src, watch, again, cb, chan, delegate, snap, failed>>

-----------------------------------------------------------------------------
(* The updater: handleUpdates.                                             *)

Receive ==
    /\ pc["updater"] = "wait"
    /\ chan = 1
    /\ chan' = 0
    /\ pc' = [pc EXCEPT !["updater"] = "check"]
    /\ UNCHANGED <<src, watch, again, cb, delegate, snap, failed>>

(* handler not initialized yet                                             *)
notInitialized == delegate = Nil

NotInitialized ==
    /\ pc["updater"] = "check"
    /\ notInitialized
    /\ pc' = [pc EXCEPT !["updater"] = "wait"]
    /\ UNCHANGED <<src, watch, again, cb, chan, delegate, snap, failed>>

Update ==
    /\ pc["updater"] = "check"
    /\ ~notInitialized
    /\ IF Debounce
       THEN pc' = [pc EXCEPT !["updater"] = "debounce"] /\ UNCHANGED snap
       ELSE enterCreateHandler("updater")
    /\ UNCHANGED <<src, watch, again, cb, chan, delegate, failed>>

(* The timer fires; a signal that came during the debounce is cleared.     *)
Debounced ==
    /\ pc["updater"] = "debounce"
    /\ chan' = 0
    /\ enterCreateHandler("updater")
    /\ UNCHANGED <<src, watch, again, cb, delegate, failed>>

(* Slip: only the inner select watches the context.                        *)
UpdaterStopsInDebounce ==
    /\ ctxDone
    /\ pc["updater"] = "debounce"
    /\ pc' = [pc EXCEPT !["updater"] = "stopped"]
    /\ UNCHANGED <<src, watch, again, cb, chan, delegate, snap, failed>>

UpdaterStops ==
    /\ ctxDone
    /\ pc["updater"] \in {"wait", "debounce"}
    /\ pc' = [pc EXCEPT !["updater"] = "stopped"]
    /\ UNCHANGED <<src, watch, again, cb, chan, delegate, snap, failed>>

-----------------------------------------------------------------------------
Main == AwaitReady \/ CreateHandler("main")

Updater ==
    \/ Receive \/ NotInitialized \/ Update \/ Debounced \/ UpdaterStops
    \/ CreateHandler("updater")

Environment ==
    \/ \E p \in Pollers : Publish(p) \/ PollFails(p)
    \/ StartupTimesOut \/ Shutdown \/ ReloadNow

Next ==
    \/ Main \/ Updater \/ Environment
    \/ \E p \in Pollers : Poll(p) \/ OnUpdate(p)

(* Goroutines are scheduled, timers fire, and a poll that is due, time and *)
(* again, is sooner or later answered.                                     *)
Fairness ==
    /\ WF_vars(Main)
    /\ WF_vars(Updater)
    /\ \A p \in Pollers : WF_vars(Poll(p)) /\ WF_vars(OnUpdate(p))

Spec == Init /\ [][Next]_vars /\ Fairness

-----------------------------------------------------------------------------
PCs == {"await", "read", "load", "store", "drain", "cas", "serving", "exited",
        "wait", "check", "debounce", "stopped"}

(* The state space: in particular the channel holds at most one signal.    *)
TypeOK ==
    /\ src \in [Pollers -> 1 .. MaxVersion]
    /\ watch \in [Pollers -> Versions]
    /\ again \in [Pollers -> BOOLEAN]
    /\ cb \in [Pollers -> Nat]
    /\ chan \in {0, 1}
    /\ delegate \in [Services -> Versions] \cup {Nil}
    /\ pc \in [Procs -> PCs]
    /\ snap \in [Procs -> [Services -> Versions]]
    /\ failed \in BOOLEAN

(* The update of service s is on its way to the handler: the watcher has   *)
(* still to call OnUpdate, the signal is in the channel or in the          *)
(* updater's hands, or the handler it is building has the new version.     *)
onItsWay(s) ==
    \/ cb[PollerOf[s]] > 0
    \/ chan = 1
    \/ pc["updater"] \in {"check", "debounce"}
    \/ pc["updater"] = "read" /\ snap["updater"][s] \in {0, live(s)}
    \/ pc["updater"] \in {"load", "store"} /\ snap["updater"][s] = live(s)

(* No update is lost: while the gateway serves a service from a version    *)
(* its watcher has replaced, the replacement is on its way, or the updater *)
(* tried the last time and could not register some service.                *)
NoLostUpdate ==
    delegate # Nil /\ ~ctxDone =>
        \A s \in Services : delegate[s] # live(s) => onItsWay(s) \/ failed

(* The handler is never replaced by one that is older for some service:    *)
(* main and the updater do not build handlers at the same time.            *)
NeverOlder ==
    [][delegate # Nil =>
        delegate' # Nil /\ \A s \in Services : delegate'[s] >= delegate[s]]_vars

(* Once the sources stay as they are, the handler comes to serve what they *)
(* offer, unless a service cannot be registered from it.                   *)
EventuallyCurrent ==
    <>[](pc["main"] = "serving" =>
            failed \/ \A s \in Services : delegate[s] = src[PollerOf[s]])

(* What the callers see: the watchers' schemas by service, and the handler *)
(* that is live.                                                           *)
Served == INSTANCE ServedSchemas WITH
              held   <- [s \in Services |-> live(s)],
              served <- delegate

(* All the gateway does between a poll and the swap comes to one step of a *)
(* register: the live handler changes at one stroke, to descriptors that   *)
(* the watchers really held and that could be registered, service by       *)
(* service never older than those before, in spite of watchers that change *)
(* in the middle of CreateHandler and of its failures.                     *)
SwapsLikeARegister == Served!Spec

(* The updater goroutine terminates once the context is cancelled.         *)
UpdaterTerminates == ctxDone ~> pc["updater"] = "stopped"
=============================================================================
