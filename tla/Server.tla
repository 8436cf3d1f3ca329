------------------------------- MODULE Server -------------------------------
(***************************************************************************)
(* The gateway process from its first signal handler to its exit: main's   *)
(* errgroup with one goroutine per listener, and the goroutine that shuts  *)
(* every http.Server down when a listener stops or a signal comes.         *)
(*                                                                         *)
(* net/http is modelled as the code uses it: Shutdown closes a server's    *)
(* listeners, waits for its requests and gives up when its context ends;   *)
(* Serve returns ErrServerClosed once, or when already, shut down.  The    *)
(* requests counted are those Shutdown waits for; cleartext HTTP/2         *)
(* connections are taken over by h2c and not among them.                   *)
(***************************************************************************)
EXTENDS Naturals

CONSTANTS
    Listeners,      \* the configured addresses: main TCP, unix socket, admin
    Servers,        \* svr and, if it has listeners of its own, adminSvr
    ServerOf,       \* ServerOf[l]: the server that l serves
    MaxActive       \* bound: requests a server has at a time

ASSUME ServerAssumption ==
    /\ ServerOf \in [Listeners -> Servers]
    /\ MaxActive \in Nat

VARIABLES
    exit,       \* "no", or how the process ended: "status 0", "status 1", "killed"
    started,    \* the gateway has its handler, and the group was started
    caught,     \* signal.Notify(sig, ...) is in force
    sig,        \* signals in the channel, capacity 1
    lst,        \* lst[l]: the goroutine of listener l
    groupErr,   \* the group has recorded an error, grpCtx is done
    stopper,    \* "select", "shutdown" or "done": the goroutine that shuts down
    expired,    \* the 30 seconds of the shutdown are over
    shut,       \* shut[v]: server v's Shutdown
    active,     \* active[v]: requests being answered
    signalled   \* history: a signal was caught

vars == <<exit, started, caught, sig, lst, groupErr, stopper, expired, shut,
          active, signalled>>

running == exit = "no" /\ started

Init ==
    /\ exit = "no"
    /\ started = FALSE
    /\ caught = FALSE
    /\ sig = 0
    /\ lst = [l \in Listeners |-> "bind"]
    /\ groupErr = FALSE
    /\ stopper = "select"
    /\ expired = FALSE
    /\ shut = [v \in Servers |-> "no"]
    /\ active = [v \in Servers |-> 0]
    /\ signalled = FALSE

-----------------------------------------------------------------------------
(* Startup, signals and the end.                                           *)

(* Configuration, gateway and first handler are there.                     *)
Start ==
    /\ exit = "no" /\ ~started
    /\ started' = TRUE
    /\ caught' = TRUE
    /\ UNCHANGED <<exit, sig, lst, groupErr, stopper, expired, shut, active, signalled>>

(* fatalf                                                                  *)
StartupFails ==
    /\ exit = "no" /\ ~started
    /\ exit' = "status 1"
    /\ UNCHANGED <<started, caught, sig, lst, groupErr, stopper, expired, shut,
                   active, signalled>>

(* The channel has room for one signal; others are dropped meanwhile.      *)
notify == 1

(* SIGTERM and the like, deadly when they are not caught.                  *)
Signal ==
    /\ exit = "no"
    /\ IF caught
       THEN sig' = notify /\ signalled' = TRUE /\ UNCHANGED exit
       ELSE exit' = "killed" /\ UNCHANGED <<sig, signalled>>
    /\ UNCHANGED <<started, caught, lst, groupErr, stopper, expired, shut, active>>

groupDone == stopper = "done" /\ \A l \in Listeners : lst[l] = "done"

(* What group.Wait returns is discarded, and err is nil since CreateGateway *)
(* returned: the status is 0, whatever the group's error was.              *)
MainReturns ==
    /\ running
    /\ groupDone
    /\ exit' = "status 0"
    /\ UNCHANGED <<started, caught, sig, lst, groupErr, stopper, expired, shut,
                   active, signalled>>

-----------------------------------------------------------------------------
(* The goroutine of a listener.                                            *)

down(l) == shut[ServerOf[l]] # "no"

(* Slip: a goroutine whose listener is done returns nil.                   *)
ListenerReturnsNil(l) ==
    /\ lst' = [lst EXCEPT ![l] = "done"]
    /\ UNCHANGED groupErr

(* It returns an error, be it sentinelErr, and thereby ends grpCtx.        *)
ListenerReturns(l) ==
    /\ lst' = [lst EXCEPT ![l] = "done"]
    /\ groupErr' = TRUE

(* net.Listen                                                              *)
Bind(l) ==
    /\ running
    /\ lst[l] = "bind"
    /\ lst' = [lst EXCEPT ![l] = "bound"]
    /\ UNCHANGED <<exit, started, caught, sig, groupErr, stopper, expired, shut,
                   active, signalled>>

BindFails(l) ==
    /\ running
    /\ lst[l] = "bind"
    /\ ListenerReturns(l)
    /\ UNCHANGED <<exit, started, caught, sig, stopper, expired, shut, active,
                   signalled>>

Serve(l) ==
    /\ running
    /\ lst[l] = "bound"
    /\ ~down(l)
    /\ lst' = [lst EXCEPT ![l] = "serving"]
    /\ UNCHANGED <<exit, started, caught, sig, groupErr, stopper, expired, shut,
                   active, signalled>>

(* http.ErrServerClosed                                                    *)
ServeReturns(l) ==
    /\ running
    /\ lst[l] \in {"bound", "serving"}
    /\ down(l)
    /\ ListenerReturns(l)
    /\ UNCHANGED <<exit, started, caught, sig, stopper, expired, shut, active,
                   signalled>>

(* Any other error of Serve ends the process on the spot.                  *)
ServeFails(l) ==
    /\ running
    /\ lst[l] = "serving"
    /\ ~down(l)
    /\ exit' = "status 1"
    /\ UNCHANGED <<started, caught, sig, lst, groupErr, stopper, expired, shut,
                   active, signalled>>

Request(v) ==
    /\ running
    /\ \E l \in Listeners : ServerOf[l] = v /\ lst[l] = "serving" /\ ~down(l)
    /\ active[v] < MaxActive
    /\ active' = [active EXCEPT ![v] = @ + 1]
    /\ UNCHANGED <<exit, started, caught, sig, lst, groupErr, stopper, expired,
                   shut, signalled>>

Response(v) ==
    /\ running
    /\ active[v] > 0
    /\ active' = [active EXCEPT ![v] = @ - 1]
    /\ UNCHANGED <<exit, started, caught, sig, lst, groupErr, stopper, expired,
                   shut, signalled>>

-----------------------------------------------------------------------------
(* The goroutine that shuts down.                                          *)

(* Slip: the select has a default.                                         *)
wakesAtOnce == sig' = sig

(* grpCtx is done, or a signal is received.                                *)
wakes == (groupErr /\ sig' = sig) \/ (sig = 1 /\ sig' = 0)

Wake ==
    /\ running
    /\ stopper = "select"
    /\ wakes
    /\ stopper' = "shutdown"
    /\ UNCHANGED <<exit, started, caught, lst, groupErr, expired, shut, active,
                   signalled>>

Shutdown(v) ==
    /\ running
    /\ stopper = "shutdown"
    /\ shut[v] = "no"
    /\ shut' = [shut EXCEPT ![v] = "draining"]
    /\ UNCHANGED <<exit, started, caught, sig, lst, groupErr, stopper, expired,
                   active, signalled>>

Expire ==
    /\ running
    /\ stopper = "shutdown"
    /\ ~expired
    /\ expired' = TRUE
    /\ UNCHANGED <<exit, started, caught, sig, lst, groupErr, stopper, shut,
                   active, signalled>>

(* Slip: the shutdown's context is made from grpCtx.                       *)
timeoutCtxOfGroup == expired \/ groupErr

timeoutCtxDone == expired

(* Requests are answered, or the context has ended.                        *)
ShutdownReturns(v) ==
    /\ running
    /\ shut[v] = "draining"
    /\ active[v] = 0 \/ timeoutCtxDone
    /\ shut' = [shut EXCEPT ![v] = "returned"]
    /\ UNCHANGED <<exit, started, caught, sig, lst, groupErr, stopper, expired,
                   active, signalled>>

(* shutdownGroup.Wait returned, an error of it was logged; signal.Stop.    *)
StopperReturns ==
    /\ running
    /\ stopper = "shutdown"
    /\ \A v \in Servers : shut[v] = "returned"
    /\ stopper' = "done"
    /\ caught' = FALSE
    /\ UNCHANGED <<exit, started, sig, lst, groupErr, expired, shut, active,
                   signalled>>

-----------------------------------------------------------------------------
Listener(l) == Bind(l) \/ BindFails(l) \/ Serve(l) \/ ServeReturns(l)

Stopper ==
    \/ Wake \/ Expire \/ StopperReturns
    \/ \E v \in Servers : Shutdown(v) \/ ShutdownReturns(v)

Environment ==
    \/ Signal \/ StartupFails \/ Start
    \/ \E l \in Listeners : ServeFails(l)
    \/ \E v \in Servers : Request(v) \/ Response(v)

Next ==
    \/ Stopper \/ Environment \/ MainReturns
    \/ \E l \in Listeners : Listener(l)

(* Goroutines are scheduled and the timer of the shutdown fires.  No       *)
(* request need ever be answered.                                          *)
Fairness ==
    /\ WF_vars(MainReturns) /\ WF_vars(Stopper)
    /\ \A l \in Listeners : WF_vars(Listener(l))

Spec == Init /\ [][Next]_vars /\ Fairness

-----------------------------------------------------------------------------
(* The state space: in particular the signal channel holds one signal.     *)
TypeOK ==
    /\ exit \in {"no", "status 0", "status 1", "killed"}
    /\ started \in BOOLEAN /\ caught \in BOOLEAN
    /\ sig \in {0, 1}
    /\ lst \in [Listeners -> {"bind", "bound", "serving", "done"}]
    /\ groupErr \in BOOLEAN
    /\ stopper \in {"select", "shutdown", "done"}
    /\ expired \in BOOLEAN
    /\ shut \in [Servers -> {"no", "draining", "returned"}]
    /\ active \in [Servers -> 0 .. MaxActive]
    /\ signalled \in BOOLEAN

(* A process that ends with status 0 cut off no request of any server,     *)
(* unless the 30 seconds were over: main waits for the goroutine that      *)
(* shuts down, although all listeners return as soon as that begins.       *)
GracefulExit ==
    exit = "status 0" /\ ~expired => \A v \in Servers : active[v] = 0

(* If any listener stops, or a signal was caught, the whole process comes  *)
(* to an end: no listener goes on alone, and none that binds late escapes  *)
(* a shutdown that is already over.                                        *)
StopsAsAWhole ==
    ((\E l \in Listeners : lst[l] = "done") \/ sig = 1) ~> exit # "no"

(* The first Shutdown has a reason: a signal came, or a listener is done   *)
(* already, which before any Shutdown means that it could not be bound.    *)
ShutdownHasAReason ==
    [][ (\E v \in Servers : shut[v] = "no" /\ shut'[v] = "draining")
        /\ (\A v \in Servers : shut[v] = "no")
        => signalled \/ \E l \in Listeners : lst[l] = "done" ]_vars
=============================================================================
