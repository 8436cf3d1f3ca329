-------------------------------- MODULE Config --------------------------------
(***************************************************************************)
(* LoadConfig: from the configuration file to the gateway's settings.  ext *)
(* is the file's contents, nested as in the file; absent values are Nil,   *)
(* and empty strings stay empty strings.  A URL has the scheme as it is    *)
(* spelled in the file (text) and as it is parsed (scheme), and a host; a  *)
(* jitter is in hundredths, times are in seconds.                          *)
(***************************************************************************)
EXTENDS TLSSettings, Integers, Sequences, SequencesExt, FiniteSets

CONSTANTS
    SetFiles,       \* files that hold descriptor sets
    Modules,        \* modules the environment has a BUF_TOKEN for
    LiveSockets     \* unix sockets that accept connections

ASSUME ConfigAssumption == "" \notin SetFiles \cup LiveSockets \cup CAFiles

(* The provers do not know of literals that they are strings.              *)
ASSUME LiteralsAssumption == {"", "0.0.0.0", "127.0.0.1"} \subseteq STRING

-----------------------------------------------------------------------------
(* What a file may say, and what is made of it.                            *)
opt(S) == {Nil} \cup S

(* Parsing leaves a scheme in lower case as it is.                         *)
URLs == {u \in [text : STRING, scheme : STRING, host : STRING] :
            u.text = "https" => u.scheme = "https"}

externalListenConfig ==
    [bindAddress : STRING, port : opt(Int), unixSocket : STRING,
     tls : opt(externalServerTLSConfig)]

externalDescriptorConfig == [file : STRING, module : STRING, reflection : BOOLEAN]

externalBackendConfig ==
    [routeTo : opt(URLs), unixSocket : STRING, tls : opt(externalClientTLSConfig),
     h2c : opt(BOOLEAN), protocol : STRING, encoding : STRING,
     descriptors : externalDescriptorConfig, services : Seq(STRING)]

(* cache: the kinds of cache that have a stanza.                           *)
externalDescriptorPollingConfig ==
    [startupMaxWait : Int, pollingPeriod : Int, pollingJitter : opt(Int),
     pollingDebounce : Int, cache : SUBSET {"file_system", "redis", "memcached"}]

externalAdminConfig ==
    [enabled : opt(BOOLEAN), useMainListeners : BOOLEAN, bindAddress : STRING, port : Int,
     useTLS : opt(BOOLEAN)]

(* origins: cors.allowed_origins; parallelism: limits.per_request_parallelism. *)
externalGatewayConfig ==
    [listen : externalListenConfig, backends : Seq(externalBackendConfig),
     backendTLS : opt(externalClientTLSConfig), parallelism : Int,
     descriptors : externalDescriptorPollingConfig, admin : externalAdminConfig,
     origins : SUBSET STRING]

HTTPClient ==
    [tls : opt(ClientTLS), serverName : STRING, unixSocket : STRING, h2c : BOOLEAN]

connectOptions ==
    [protocol : {"connect", "grpc", "grpcweb"}, encoding : {"proto", "json"}]

Poller ==
    [source : [kind : {"file", "module"}, of : STRING] \cup [kind : {"reflection"}, of : URLs],
     client : HTTPClient, options : connectOptions, id : Nat]

ServiceConfig ==
    [baseURL : URLs, client : HTTPClient, options : connectOptions, descriptors : Poller,
     cacheable : BOOLEAN]

AdminConfig ==
    [useMainListeners : BOOLEAN, listen : opt(STRING \X Int), useTLS : BOOLEAN]

(* What is left open by neither the file nor the defaults: every duration  *)
(* is positive, or zero where zero turns something off.                    *)
GatewayConfig(services) ==
    [listen : opt(STRING \X Int), unixSocket : STRING, tls : opt(ServerTLS),
     services : [services -> ServiceConfig],
     parallelism : Int, startupMaxWait : Nat \ {0}, pollingPeriod : Nat \ {0},
     pollingJitter : 0 .. 100, pollingDebounce : Nat,
     cache : opt({"file_system", "redis", "memcached"}), admin : opt(AdminConfig),
     cors : [origins : SUBSET STRING, refuseAll : BOOLEAN]]

-----------------------------------------------------------------------------
(* Admin.                                                                  *)

adminEnabled(a) == a.enabled = Nil \/ a.enabled

ownListener(a) == a.bindAddress # "" \/ a.port # 0 \/ a.useTLS # Nil

adminValid(ext) ==
    LET a == ext.admin
    IN  IF ~adminEnabled(a) THEN ~a.useMainListeners /\ ~ownListener(a)
        ELSE IF a.useMainListeners THEN ~ownListener(a)
        ELSE /\ a.useTLS # Nil /\ a.useTLS => ext.listen.tls # Nil
             /\ ext.listen.port # Nil => a.port # ext.listen.port

loadAdminConfig(ext) ==
    LET a == ext.admin
    IN  IF ~adminEnabled(a) THEN Nil
        ELSE IF a.useMainListeners
        THEN [useMainListeners |-> TRUE, listen |-> Nil, useTLS |-> FALSE]
        ELSE [useMainListeners |-> FALSE,
              listen |-> <<IF a.bindAddress = "" THEN "127.0.0.1" ELSE a.bindAddress, a.port>>,
              useTLS |-> IF a.useTLS # Nil THEN a.useTLS ELSE ext.listen.tls # Nil]

-----------------------------------------------------------------------------
(* Where a backend's descriptors come from.                                *)

(* Slip: a source that is reflected needs no HTTP/2.                       *)
sourceValidAnyTransport(d, url, h2c) ==
    Cardinality({f \in {"file", "module"} : d[f] # ""}) + (IF d.reflection THEN 1 ELSE 0) = 1

(* newDescriptorSource succeeds.  It goes by the spelling of the URL.      *)
sourceValid(d, url, h2c) ==
    /\ Cardinality({f \in {"file", "module"} : d[f] # ""}) + (IF d.reflection THEN 1 ELSE 0) = 1
    /\ d.reflection => url.text = "https" \/ h2c

newDescriptorSource(d, url) ==
    IF d.file # "" THEN [kind |-> "file", of |-> d.file]
    ELSE IF d.module # "" THEN [kind |-> "module", of |-> d.module]
    ELSE [kind |-> "reflection", of |-> url]

(* Slip: what a backend reflects is not cached.                            *)
cacheableModulesOnly(src) == src.kind = "module"

isCacheable(src) == src.kind # "file"

(* newPoller succeeds.                                                     *)
pollable(src) ==
    /\ src.kind = "file" => src.of \in SetFiles
    /\ src.kind = "module" => src.of \in Modules

-----------------------------------------------------------------------------
(* One backend.                                                            *)

(* Slip: plaintext gRPC does not turn h2c on.                              *)
usesH2CIfAsked(b) == b.h2c # Nil /\ b.h2c

usesH2C(b) ==
    IF b.h2c # Nil THEN b.h2c
    ELSE b.protocol = "grpc" /\ b.routeTo.scheme = "http"

(* The TLS settings in force for a backend.                                *)
tlsOf(b, ext) == mergeClientTLSConfig(b.tls, ext.backendTLS)

backendValid(b, ext) ==
    /\ b.routeTo # Nil /\ b.routeTo.scheme \in {"http", "https"}
    /\ b.services # << >>
    /\ b.encoding \in {"", "proto", "json"}
    /\ b.protocol \in {"", "connect", "grpc", "grpcweb"}
    /\ usesH2C(b) => b.routeTo.scheme # "https"
    /\ b.protocol = "grpc" => b.h2c # FALSE
    /\ IF b.routeTo.scheme = "https" THEN clientTLSValid(tlsOf(b, ext)) ELSE b.tls = Nil
    /\ b.unixSocket = "" \/ b.unixSocket \in LiveSockets
    /\ sourceValid(b.descriptors, b.routeTo, usesH2C(b))
    /\ pollable(newDescriptorSource(b.descriptors, b.routeTo))

(* makeHTTPClient: TLS for https only, h2c for plaintext only.             *)
makeHTTPClient(b, ext) ==
    [tls |-> IF b.routeTo.scheme = "https"
             THEN configureClientTLS(tlsOf(b, ext)) ELSE Nil,
     serverName |-> IF b.tls # Nil THEN b.tls.serverName ELSE "",
     unixSocket |-> b.unixSocket, h2c |-> usesH2C(b)]

options(b) ==
    [protocol |-> IF b.protocol = "" THEN "connect" ELSE b.protocol,
     encoding |-> IF b.encoding = "" THEN "proto" ELSE b.encoding]

(* One poller for each source, made with the client and the options of the *)
(* first backend that has it.                                              *)
pollerFor(acc, src, client, opts) ==
    IF src \in DOMAIN acc.pollers THEN acc.pollers[src]
    ELSE [source |-> src, client |-> client, options |-> opts, id |-> Cardinality(DOMAIN acc.pollers)]

(* The map in which k has the value v.                                     *)
put(map, k, v) == [x \in DOMAIN map \cup {k} |-> IF x = k THEN v ELSE map[x]]

addService(acc, svc, conf) ==
    IF svc \in DOMAIN acc.services THEN [acc EXCEPT !.err = TRUE]
    ELSE [acc EXCEPT !.services = put(@, svc, conf)]

(* The loops, by the number of their turns.                                *)
addServices(acc, svcs, conf) ==
    LET turn[n \in 0 .. Len(svcs)] ==
            IF n = 0 THEN acc ELSE addService(turn[n - 1], svcs[n], conf)
    IN  turn[Len(svcs)]

loadBackend(acc, b, ext) ==
    IF acc.err \/ ~backendValid(b, ext) THEN [acc EXCEPT !.err = TRUE]
    ELSE LET src    == newDescriptorSource(b.descriptors, b.routeTo)
             client == makeHTTPClient(b, ext)
             poller == pollerFor(acc, src, client, options(b))
             conf   == [baseURL |-> b.routeTo, client |-> client, options |-> options(b),
                        descriptors |-> poller, cacheable |-> isCacheable(src)]
         IN  addServices([acc EXCEPT !.pollers = put(@, src, poller)], b.services, conf)

loadBackends(ext) ==
    LET turn[n \in 0 .. Len(ext.backends)] ==
            IF n = 0 THEN [services |-> << >>, pollers |-> << >>, err |-> FALSE]
            ELSE loadBackend(turn[n - 1], ext.backends[n], ext)
    IN  turn[Len(ext.backends)]

-----------------------------------------------------------------------------
(* Polling, cache and CORS.                                                *)
pollingValid(d) ==
    /\ d.pollingPeriod >= 0 /\ d.pollingDebounce >= 0 /\ d.startupMaxWait >= 0
    /\ d.pollingJitter # Nil => d.pollingJitter \in 0 .. 100

(* newCacheConfig succeeds; cacheables: some source is cacheable.          *)
cacheValid(caches, cacheables) ==
    caches = {} \/ (Cardinality(caches) = 1 /\ cacheables)

(* Slip: the list is handed to the library as it is.                       *)
corsListed(origins) == [origins |-> origins, refuseAll |-> FALSE]

(* The library takes an empty list for "any origin"; so with an empty list *)
(* it is given a function that refuses every origin.                       *)
corsOptions(origins) == [origins |-> origins, refuseAll |-> origins = {}]

(* The library's decision.                                                 *)
corsAllows(cors, origin) ==
    /\ ~cors.refuseAll
    /\ cors.origins = {} \/ "*" \in cors.origins \/ origin \in cors.origins

(* Slip: zero is taken as it is.                                           *)
orDefaultUnlessSet(n, default) == IF n >= 0 THEN n ELSE default

orDefault(n, default) == IF n > 0 THEN n ELSE default

LoadConfig(ext) ==
    LET loaded == loadBackends(ext)
        cacheables == \E svc \in DOMAIN loaded.services : loaded.services[svc].cacheable
        d == ext.descriptors
    IN  IF \/ ext.listen.port = Nil /\ ext.listen.unixSocket = ""
           \/ ext.backends = << >>
           \/ ~adminValid(ext)
           \/ ~serverTLSValid(ext.listen.tls)
           \/ ~clientTLSValid(ext.backendTLS)
           \/ ext.backendTLS # Nil /\ ext.backendTLS.serverName # ""
           \/ loaded.err
           \/ ~pollingValid(d)
           \/ ~cacheValid(d.cache, cacheables)
        THEN Nil
        ELSE [listen  |-> IF ext.listen.port = Nil THEN Nil
                          ELSE <<IF ext.listen.bindAddress = "" THEN "0.0.0.0"
                                 ELSE ext.listen.bindAddress, ext.listen.port>>,
              unixSocket |-> ext.listen.unixSocket,
              tls        |-> configureServerTLS(ext.listen.tls),
              services   |-> loaded.services,
              parallelism |-> ext.parallelism,
              startupMaxWait  |-> orDefault(d.startupMaxWait, 15),
              pollingPeriod   |-> orDefault(d.pollingPeriod, 900),
              pollingJitter   |-> IF d.pollingJitter = Nil THEN 25 ELSE d.pollingJitter,
              pollingDebounce |-> d.pollingDebounce,
              cache      |-> IF d.cache = {} THEN Nil ELSE CHOOSE c \in d.cache : TRUE,
              admin      |-> loadAdminConfig(ext),
              cors       |-> corsOptions(ext.origins)]
=============================================================================
