-------------------------------- MODULE Startup --------------------------------
(***************************************************************************)
(* From the configuration file to a gateway whose watchers have their      *)
(* schemas: LoadConfig, CreateGateway, the first download of each watcher, *)
(* and the end: an error, the cancelled context, or a crash.  After it the *)
(* gateway may be started again with the same file and what the cache has  *)
(* kept.                                                                   *)
(*                                                                         *)
(* Watchers and caches are libraries.  A watcher calls GetSchema until it  *)
(* succeeds; when it fails, the watcher takes the schema its cache has, if *)
(* it was given a cache.  A schema that was downloaded is saved there, in  *)
(* a step of its own, which may fail or come too late; and a redis or      *)
(* memcached server may drop an entry at any time.                         *)
(***************************************************************************)
EXTENDS Config

CONSTANTS
    ExtConfigs,     \* the configuration files that are loaded
    Started,        \* bound: those of them that a gateway is created from,
                    \* with at most one source of each kind
    MaxRestarts,    \* bound
    Files, Deps, Symbols, FileOf, WholeReplies

ASSUME FilesAssumption == ExtConfigs \subseteq externalGatewayConfig

ASSUME ReflectionAssumption ==
    /\ Deps \in [Files -> SUBSET Files]
    /\ FileOf \in [Symbols -> Files]
    /\ WholeReplies \in BOOLEAN

(* The bound on Started.  Its services have files, so that a server that   *)
(* reflects them can answer, and there is one poller for a kind of source. *)
ASSUME StartedAssumption ==
    \A e \in Started : LoadConfig(e) # Nil =>
        LET services == LoadConfig(e).services
            poller(svc) == services[svc].descriptors
        IN  /\ DOMAIN services \subseteq Symbols
            /\ \A svc \in DOMAIN services : poller(svc) # Nil
            /\ \A svc, other \in DOMAIN services :
                  poller(svc).source.kind = poller(other).source.kind => poller(svc) = poller(other)

VARIABLES
    ext, conf,      \* the file, and Nil or what LoadConfig made of it
    pc,             \* where main is in all this
    todo, cur,      \* pollers the loop of CreateGateway has still to meet; its current one
    first,          \* the poller that got the jitter
    watchers,       \* gateway.watchers: pollers whose watcher is in the map
    w,              \* w[p]: the watcher of p is "none", "polling", "ready" or "stopped"
    schema,         \* schema[p]: the files it has
    sync,           \* syncOthers: "no", "due" or "ranging" over gateway.watchers
    cache,          \* "none", "open" or "closed"
    unsaved,        \* pollers whose download has still to be saved there
    saved,          \* the cache's contents, which outlive the process
    kept,           \* history: remote sources the cache should have: downloaded from,
                    \* the Save neither failed nor cut off, the entry not dropped
    down,           \* sources that do not answer
    restarts,
    symbols, asked, seen, results, queue, rpc   \* the reflection stream

R == INSTANCE GrpcReflection WITH pc <- rpc

caching == <<unsaved, saved, kept>>
stream  == <<symbols, asked, seen, results, queue, rpc>>
startup == <<ext, conf, pc, todo, cur, first, watchers, w, schema, sync, cache, caching,
             down, restarts>>
vars    == <<startup, stream>>

pollers == {conf.services[svc].descriptors : svc \in DOMAIN conf.services}
sources == {p.source : p \in pollers}

(* Slip: the last service that is met replaces those before it.            *)
symbolsLast(p) == {CHOOSE svc \in DOMAIN conf.services : conf.services[svc].descriptors = p}

symbolsOf(p) == {svc \in DOMAIN conf.services : conf.services[svc].descriptors = p}

(* The watcher of p is given the cache.                                    *)
cached(p) == conf.cache # Nil /\ \E svc \in symbolsOf(p) : conf.services[svc].cacheable

(* The sources of ps that the cache has nothing of.                        *)
missing(ps) == {p.source : p \in ps} \ DOMAIN saved

reset ==
    /\ conf' = Nil /\ todo' = {} /\ cur' = Nil /\ first' = Nil /\ watchers' = {}
    /\ w' = << >> /\ schema' = << >> /\ sync' = "no" /\ cache' = "none" /\ down' = {}
    /\ unsaved' = {} /\ kept' = kept \ missing(unsaved)

Init ==
    /\ ext \in ExtConfigs
    /\ pc = "load"
    /\ conf = Nil /\ todo = {} /\ cur = Nil /\ first = Nil /\ watchers = {}
    /\ w = << >> /\ schema = << >> /\ sync = "no" /\ cache = "none" /\ down = {}
    /\ unsaved = {} /\ saved = << >> /\ kept = {} /\ restarts = 0
    /\ R!Init

-----------------------------------------------------------------------------
Load ==
    /\ pc = "load"
    /\ conf' = LoadConfig(ext)
    /\ pc' = IF conf' = Nil THEN "rejected" ELSE IF ext \in Started THEN "create" ELSE "loaded"
    /\ UNCHANGED <<ext, todo, cur, first, watchers, w, schema, sync, cache, caching, down,
                   restarts, stream>>

(* CreateGateway: collect the pollers and open the cache.                  *)
OpenCache ==
    /\ pc = "create"
    /\ cache' = IF conf.cache = Nil THEN "none" ELSE "open"
    /\ todo' = pollers
    /\ w' = [p \in pollers |-> "none"]
    /\ schema' = [p \in pollers |-> {}]
    /\ down' \in SUBSET {src \in sources : src.kind # "file"}
    /\ pc' = "loop"
    /\ UNCHANGED <<ext, conf, cur, first, watchers, sync, caching, restarts, stream>>

(* toCache fails, perhaps with something open that has to be closed.       *)
CacheFails ==
    /\ pc = "create"
    /\ conf.cache # Nil
    /\ cache' \in {"none", "open"}
    /\ pc' = "closing"
    /\ UNCHANGED <<ext, conf, todo, cur, first, watchers, w, schema, sync, caching, down,
                   restarts, stream>>

(* An iteration of the loop: NewSchemaWatcher starts the watcher.          *)
NewWatcher(p) ==
    /\ pc = "loop"
    /\ p \in todo
    /\ cur' = p
    /\ first' = IF first = Nil /\ conf.pollingJitter # 0 THEN p ELSE first
    /\ w' = [w EXCEPT ![p] = "polling"]
    /\ pc' = "add"
    /\ UNCHANGED <<ext, conf, todo, watchers, schema, sync, cache, caching, down, restarts,
                   stream>>

(* Slip: what was started is left running.                                 *)
NewWatcherFailsOpen(p) ==
    /\ pc = "loop"
    /\ p \in todo
    /\ pc' = "stopped"
    /\ UNCHANGED <<ext, conf, todo, cur, first, watchers, w, schema, sync, cache, caching,
                   down, restarts, stream>>

NewWatcherFails(p) ==
    /\ pc = "loop"
    /\ p \in todo
    /\ pc' = "closing"
    /\ UNCHANGED <<ext, conf, todo, cur, first, watchers, w, schema, sync, cache, caching,
                   down, restarts, stream>>

(* The new watcher is written into the map.  A write while the callback of *)
(* the first watcher ranges over the map is a data race: the run time may  *)
(* notice it, which ends the process.                                      *)
AddWatcher ==
    /\ pc = "add"
    /\ \/ /\ watchers' = watchers \cup {cur}
          /\ todo' = todo \ {cur}
          /\ pc' = "loop"
       \/ /\ sync = "ranging"
          /\ pc' = "fatal"
          /\ UNCHANGED <<watchers, todo>>
    /\ UNCHANGED <<ext, conf, cur, first, w, schema, sync, cache, caching, down, restarts,
                   stream>>

Created ==
    /\ pc = "loop"
    /\ todo = {}
    /\ pc' = "running"
    /\ UNCHANGED <<ext, conf, todo, cur, first, watchers, w, schema, sync, cache, caching,
                   down, restarts, stream>>

-----------------------------------------------------------------------------
(* The watchers.                                                           *)

alive == pc \in {"loop", "add", "running", "closing", "stopping"}

syncs(p) == p = first /\ Cardinality(pollers) > 1

(* The watcher of p has its schema and will call OnUpdate.                 *)
ready(p, files) ==
    /\ w' = [w EXCEPT ![p] = "ready"]
    /\ schema' = [schema EXCEPT ![p] = files]
    /\ sync' = IF syncs(p) THEN "due" ELSE sync

downloaded(p, files) ==
    /\ ready(p, files)
    /\ unsaved' = IF cached(p) THEN unsaved \cup {p} ELSE unsaved
    /\ kept' = IF cache = "open" /\ p.source.kind # "file" THEN kept \cup {p.source} ELSE kept
    /\ UNCHANGED <<ext, conf, pc, todo, cur, first, watchers, cache, saved, down, restarts>>

polling(p) == alive /\ w[p] = "polling"

(* A file has everything; the module's registry answers with what the      *)
(* symbols need.                                                           *)
Download(p) ==
    /\ polling(p)
    /\ p.source.kind # "reflection"
    /\ p.source \notin down
    /\ downloaded(p, IF p.source.kind = "file" THEN Files
                     ELSE UNION {R!Closure[FileOf[svc]] : svc \in symbolsOf(p)})
    /\ UNCHANGED stream

(* What the watcher turns to when a download fails.                        *)
inCache(p) == cached(p) /\ cache = "open" /\ p.source \in DOMAIN saved

Reflect(p) ==
    /\ polling(p)
    /\ p.source.kind = "reflection"
    /\ \/ /\ rpc = "idle" \/ (rpc = "error" /\ ~inCache(p))
          /\ R!Begin(symbolsOf(p))
          /\ UNCHANGED startup
       \/ /\ p.source \notin down
          /\ R!Ask
          /\ UNCHANGED startup
       \/ /\ p.source \in down
          /\ R!AskFails
          /\ UNCHANGED startup
       \/ R!Return /\ UNCHANGED startup
       \/ /\ rpc = "ok"
          /\ downloaded(p, {f \in Files : results[f] > 0})
          /\ rpc' = "idle"
          /\ UNCHANGED <<symbols, asked, seen, results, queue>>

LoadFromCache(p) ==
    /\ polling(p)
    /\ p.source \in down
    /\ p.source.kind = "reflection" => rpc = "error"
    /\ inCache(p)
    /\ ready(p, saved[p.source])
    /\ UNCHANGED <<ext, conf, pc, todo, cur, first, watchers, cache, caching, down, restarts,
                   stream>>

(* What watcher p has downloaded is put into the cache.  An error is only  *)
(* logged; nobody tries again.                                             *)
Save(p) ==
    /\ alive
    /\ p \in unsaved /\ w[p] = "ready"
    /\ unsaved' = unsaved \ {p}
    /\ \/ /\ cache = "open"
          /\ saved' = put(saved, p.source, schema[p])
          /\ kept' = kept \cup {p.source}
       \/ /\ kept' = kept \ missing({p})
          /\ UNCHANGED saved
    /\ UNCHANGED <<ext, conf, pc, todo, cur, first, watchers, w, schema, sync, cache, down,
                   restarts, stream>>

(* expiry_seconds are over, or the server needs the room: whether or not a *)
(* gateway runs.                                                           *)
Expire(src) ==
    /\ ext.descriptors.cache \subseteq {"redis", "memcached"}
    /\ saved' = [s \in DOMAIN saved \ {src} |-> saved[s]]
    /\ kept' = kept \ {src}
    /\ UNCHANGED <<ext, conf, pc, todo, cur, first, watchers, w, schema, sync, cache, unsaved,
                   down, restarts, stream>>

(* OnUpdate of the first watcher ranges over the map.                      *)
SyncOthers ==
    /\ alive
    /\ sync # "no"
    /\ sync' = IF sync = "due" THEN "ranging" ELSE "no"
    /\ UNCHANGED <<ext, conf, pc, todo, cur, first, watchers, w, schema, cache, caching, down,
                   restarts, stream>>

SourceFails(src) ==
    /\ alive
    /\ src \in sources \ down
    /\ src.kind # "file"
    /\ down' = down \cup {src}
    /\ UNCHANGED <<ext, conf, pc, todo, cur, first, watchers, w, schema, sync, cache, caching,
                   restarts, stream>>

-----------------------------------------------------------------------------
(* The end.                                                                *)

Cancel ==
    /\ pc = "running"
    /\ pc' = "closing"
    /\ UNCHANGED <<ext, conf, todo, cur, first, watchers, w, schema, sync, cache, caching,
                   down, restarts, stream>>

(* closeAll: the cache, unless it is the file system, which has nothing to *)
(* close; then the watchers, in the order in which they were made.         *)
CloseCache ==
    /\ pc = "closing"
    /\ cache' = IF cache = "open" /\ conf.cache # "file_system" THEN "closed" ELSE cache
    /\ pc' = "stopping"
    /\ UNCHANGED <<ext, conf, todo, cur, first, watchers, w, schema, sync, caching, down,
                   restarts, stream>>

StopWatchers ==
    /\ pc = "stopping"
    /\ w' = [p \in DOMAIN w |-> IF p \in watchers THEN "stopped" ELSE w[p]]
    /\ pc' = "stopped"
    /\ UNCHANGED <<ext, conf, todo, cur, first, watchers, schema, sync, cache, caching, down,
                   restarts, stream>>

Crash ==
    /\ alive
    /\ pc' = "crashed"
    /\ UNCHANGED <<ext, conf, todo, cur, first, watchers, w, schema, sync, cache, caching,
                   down, restarts, stream>>

Restart ==
    /\ pc \in {"stopped", "fatal", "crashed"}
    /\ restarts < MaxRestarts
    /\ restarts' = restarts + 1
    /\ pc' = "load"
    /\ reset
    /\ symbols' = {} /\ asked' = {} /\ seen' = {} /\ queue' = << >>
    /\ results' = [f \in Files |-> 0] /\ rpc' = "idle"
    /\ UNCHANGED <<ext, saved>>

-----------------------------------------------------------------------------
Watch(p) == Download(p) \/ Reflect(p) \/ LoadFromCache(p)

Main ==
    \/ Load \/ OpenCache \/ AddWatcher \/ Created \/ CloseCache \/ StopWatchers
    \/ \E p \in todo : NewWatcher(p)

Next ==
    \/ Main \/ CacheFails \/ SyncOthers \/ Cancel \/ Crash \/ Restart
    \/ \E p \in todo : NewWatcherFails(p)
    \/ \E p \in DOMAIN w : Watch(p) \/ Save(p)
    \/ \E src \in DOMAIN saved : Expire(src)
    \/ conf # Nil /\ \E src \in sources : SourceFails(src)

Kinds == {"file", "module", "reflection"}

(* Goroutines are scheduled, and every watcher goes on until it has a      *)
(* schema.                                                                 *)
Fairness == \A k \in Kinds : WF_vars(\E p \in DOMAIN w : p.source.kind = k /\ Watch(p))

Spec == Init /\ [][Next]_vars /\ Fairness

-----------------------------------------------------------------------------
(* What LoadConfig makes of a file is complete: with the defaults it has a *)
(* usable value for every setting.  The rest of the state has its type.    *)
TypeOK ==
    /\ ext \in externalGatewayConfig
    /\ conf # Nil => conf \in GatewayConfig(DOMAIN conf.services)
    /\ \A p \in DOMAIN w :
          /\ p \in pollers
          /\ w[p] \in {"none", "polling", "ready", "stopped"}
          /\ schema[p] \subseteq Files
    /\ watchers \cup todo \subseteq DOMAIN w
    /\ first \in opt(DOMAIN w) /\ cur \in opt(DOMAIN w)
    /\ sync \in {"no", "due", "ranging"} /\ cache \in {"none", "open", "closed"}
    /\ unsaved \subseteq DOMAIN w
    /\ \A src \in DOMAIN saved : saved[src] \subseteq Files

(* In a configuration that LoadConfig accepts, a service is routed to the  *)
(* one backend of the file that lists it, and nothing else is routed.      *)
RoutedAsListed ==
    conf # Nil =>
        /\ DOMAIN conf.services =
              UNION {ToSet(ext.backends[i].services) : i \in DOMAIN ext.backends}
        /\ \A i \in DOMAIN ext.backends : \A svc \in ToSet(ext.backends[i].services) :
              conf.services[svc].baseURL = ext.backends[i].routeTo

(* The transport of every accepted service can carry its protocol: gRPC    *)
(* and gRPC reflection need HTTP/2, which is TLS or h2c; TLS settings are  *)
(* for https alone and h2c for http alone.  The reflection client may be   *)
(* the one of another backend, with which the service shares its poller.   *)
TransportFits ==
    conf # Nil =>
        \A svc \in DOMAIN conf.services :
            LET c == conf.services[svc]
                http2(client) == client.tls # Nil \/ client.h2c
            IN  /\ c.options.protocol = "grpc" => http2(c.client)
                /\ c.descriptors.source.kind = "reflection" => http2(c.descriptors.client)
                /\ (c.client.tls # Nil) = (c.baseURL.scheme = "https")
                /\ c.client.h2c => c.client.tls = Nil

(* Services share a poller, and later a watcher, when they have the same   *)
(* source, and only then.                                                  *)
OnePollerPerSource ==
    conf # Nil => \A p, q \in pollers : p.source = q.source => p = q

(* The settings in backend_tls only fill the gaps of a backend's own tls   *)
(* stanza: a backend that could do without them has, for everything its    *)
(* own stanza says, the TLS settings it would have without them.  To its   *)
(* cacert there is one exception: where the stanza leaves skip_verify to   *)
(* the defaults and these set it, no authority is asked for.               *)
DefaultsFillGaps ==
    LET alone == LoadConfig([ext EXCEPT !.backendTLS = Nil])
        b     == ext.backends[1]
    IN  conf # Nil /\ alone # Nil /\ Len(ext.backends) = 1 /\ b.tls # Nil =>
            \A svc \in DOMAIN conf.services :
                LET mine   == conf.services[svc].client
                    theirs == alone.services[svc].client
                IN  /\ mine.serverName = theirs.serverName
                    /\ b.tls.cert # Nil => mine.tls.certificate = theirs.tls.certificate
                    /\ b.tls.minVersion # Nil => mine.tls.minVersion = theirs.tls.minVersion
                    /\ b.tls.ciphers # Nil => mine.tls.suites = theirs.tls.suites
                    /\ b.tls.skipVerify # Nil =>
                          mine.tls.insecureSkipVerify = theirs.tls.insecureSkipVerify
                    /\ b.tls.cacert # Nil =>
                          \/ mine.tls.rootCAs = theirs.tls.rootCAs
                          \/ b.tls.skipVerify = Nil /\ mine.tls.insecureSkipVerify

(* Without the exception: what a backend says of its authorities prevails  *)
(* over the defaults.                                                      *)
StanzaPrevails ==
    LET alone == LoadConfig([ext EXCEPT !.backendTLS = Nil])
    IN  conf # Nil /\ alone # Nil /\ Len(ext.backends) = 1 =>
            \A svc \in DOMAIN conf.services :
                ext.backends[1].tls # Nil /\ ext.backends[1].tls.cacert # Nil =>
                    conf.services[svc].client.tls.rootCAs = alone.services[svc].client.tls.rootCAs

(* The admin endpoints are on the main listeners only if the file says so; *)
(* a listener of their own has another port than the main one, and leaves  *)
(* TLS off beside a main listener with TLS only if the file says so.       *)
AdminApart ==
    conf # Nil /\ conf.admin # Nil =>
        IF conf.admin.useMainListeners THEN ext.admin.useMainListeners
        ELSE /\ conf.listen # Nil => conf.admin.listen[2] # conf.listen[2]
             /\ conf.admin.useTLS => conf.tls # Nil
             /\ conf.tls # Nil /\ ~conf.admin.useTLS => ext.admin.useTLS = FALSE

(* A browser's origin is let in only if the file lists it, or all.         *)
OriginsAsListed ==
    conf # Nil =>
        \A o \in {"https://a", "https://b"} :
            corsAllows(conf.cors, o) => ext.origins \cap {o, "*"} # {}

(* An accepted configuration is what the file says: who answers for which  *)
(* service, which services share a poller, what the admin endpoints are    *)
(* exposed to, and which origins are let in.                               *)
AsTheFileSays == RoutedAsListed /\ OnePollerPerSource /\ AdminApart /\ OriginsAsListed

(* A watcher that is ready has, for each service that is configured with   *)
(* its source, the file of the service with everything it imports: also    *)
(* when the schema came from the cache, and whatever was answered in which *)
(* order by a reflecting server.                                           *)
SchemasWhole ==
    \A p \in DOMAIN w : w[p] = "ready" =>
        \A svc \in {s \in DOMAIN conf.services : conf.services[s].descriptors = p} :
            R!Closure[FileOf[svc]] \subseteq schema[p]

(* When CreateGateway has returned an error, or the context has ended, no  *)
(* watcher is left running and no connection to a cache is left open.      *)
NothingLeftOpen ==
    pc = "stopped" =>
        /\ \A p \in DOMAIN w : w[p] \in {"none", "stopped"}
        /\ cache = "open" => conf.cache = "file_system"

(* The callback of the first watcher syncs all other watchers: while it    *)
(* ranges over the map they are all there, and nothing is written to it.   *)
SyncsAllOthers == sync = "ranging" => watchers = pollers

(* The source answers; or it does not, but the cache should have what this *)
(* process, or one before it, has downloaded.                              *)
obtainable(p) == p.source \notin down \/ p.source \in kept

(* A running gateway gets every schema that stays obtainable.              *)
ComesReady ==
    \A k \in Kinds :
        (pc = "running" /\ \E p \in DOMAIN w : p.source.kind = k /\ obtainable(p))
        ~> (pc = "running" => \E p \in DOMAIN w :
                p.source.kind = k /\ (w[p] = "ready" \/ ~obtainable(p)))
=============================================================================
