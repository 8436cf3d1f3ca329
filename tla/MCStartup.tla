------------------------------- MODULE MCStartup -------------------------------
(* Configuration files, a family for each part of the file that is varied. *)
EXTENDS AdminSchemas

CONSTANT none   \* the model value that stands for Nil

Url(text, scheme, host) == [text |-> text, scheme |-> scheme, host |-> host]
http(h)  == Url("http", "http", h)
https(h) == Url("https", "https", h)

file(f)    == [file |-> f, module |-> "", reflection |-> FALSE]
module(m)  == [file |-> "", module |-> m, reflection |-> FALSE]
reflection == [file |-> "", module |-> "", reflection |-> TRUE]
nowhere    == [file |-> "", module |-> "", reflection |-> FALSE]
everywhere == [file |-> "set", module |-> "mod", reflection |-> FALSE]

backend ==
    [routeTo |-> http("a"), unixSocket |-> "", tls |-> none, h2c |-> none, protocol |-> "",
     encoding |-> "", descriptors |-> module("mod"), services |-> <<"Films">>]

base ==
    [listen      |-> [bindAddress |-> "", port |-> 80, unixSocket |-> "", tls |-> none],
     backends    |-> <<backend>>,
     backendTLS  |-> none,
     parallelism |-> 0,
     descriptors |-> [startupMaxWait |-> 0, pollingPeriod |-> 0, pollingJitter |-> none,
                      pollingDebounce |-> 0, cache |-> {}],
     admin       |-> [enabled |-> none, useMainListeners |-> FALSE, bindAddress |-> "",
                      port |-> 81, useTLS |-> none],
     origins     |-> {}]

clientTLS ==
    [minVersion |-> none, ciphers |-> none, cacert |-> none, skipVerify |-> none,
     cert |-> none, key |-> none, serverName |-> ""]

serverTLS ==
    [cert |-> "c1", key |-> "k1", minVersion |-> "", ciphers |-> none, clientCerts |-> none]

(* How a backend is reached and where its descriptors come from.           *)
transports ==
    {[base EXCEPT !.backends = <<[backend EXCEPT !.routeTo = u, !.h2c = h, !.protocol = p,
                                                 !.descriptors = d, !.tls = t]>>] :
        u \in {http("a"), https("a"), Url("HTTPS", "https", "a"), Url("ftp", "ftp", "a")},
        h \in {none, TRUE, FALSE},
        p \in {"", "connect", "grpc", "grpcweb", "soap"},
        d \in {file("set"), file("gone"), module("mod"), module("private"), reflection, nowhere,
               everywhere},
        t \in {none, clientTLS}}

encodings ==
    {[base EXCEPT !.backends = <<[backend EXCEPT !.encoding = e, !.unixSocket = x,
                                                 !.routeTo = u]>>] :
        e \in {"", "proto", "json", "xml"}, x \in {"", "live", "dead"},
        u \in {http("a"), https("a"), none}}

(* Two backends that share, or repeat, services and sources.               *)
lists == {<<"Films">>, <<"People">>, <<"Films", "Music">>, <<"Music", "Music">>, << >>}
sharing ==
    {[base EXCEPT
        !.backends = <<[backend EXCEPT !.h2c = TRUE, !.services = s1, !.descriptors = d1],
                       [backend EXCEPT !.h2c = TRUE, !.services = s2, !.descriptors = d2,
                                       !.routeTo = http(h), !.unixSocket = "live"]>>,
        !.descriptors.cache = c] :
        s1 \in lists, s2 \in lists, h \in {"a", "b"},
        d1 \in {file("set"), module("mod"), reflection},
        d2 \in {file("set"), module("mod"), module("mod2"), reflection},
        c \in {{}, {"redis"}, {"redis", "file_system"}}}

(* A backend's own TLS settings and the defaults.                          *)
stanzas ==
    {none} \cup
    {[clientTLS EXCEPT !.cert = c, !.key = k, !.skipVerify = v[1], !.cacert = v[2]] :
        c \in {none, "c1", "c2"}, k \in {none, "k1", "k2"},
        v \in {<<none, none>>, <<TRUE, "gone">>, <<FALSE, none>>, <<none, "ca">>}}
versions ==
    {[clientTLS EXCEPT !.minVersion = m, !.serverName = n] :
        m \in {none, "1.1", "1.3", "2.0"}, n \in {"", "name"}}
suiteLists ==
    {[clientTLS EXCEPT !.ciphers = c] :
        c \in {none, [allow |-> {"aes"}, disallow |-> none], [allow |-> none, disallow |-> {"aes"}],
               [allow |-> {"none"}, disallow |-> none], [allow |-> {"aes"}, disallow |-> {"rc4"}],
               [allow |-> none, disallow |-> none]}}
tlsSettings ==
    {[base EXCEPT !.backends = <<[backend EXCEPT !.routeTo = https("a"), !.tls = t]>>,
                  !.backendTLS = d] :
        <<t, d>> \in (stanzas \X stanzas) \cup (versions \X versions)
                   \cup (suiteLists \X suiteLists)}

listeners ==
    {[base EXCEPT !.listen = [bindAddress |-> b, port |-> p, unixSocket |-> x, tls |-> t],
                  !.admin = [enabled |-> e, useMainListeners |-> m, bindAddress |-> ab,
                             port |-> ap, useTLS |-> at]] :
        b \in {"", "127.0.0.1"}, p \in {none, 0, 80}, x \in {"", "sock"},
        t \in {none, serverTLS, [serverTLS EXCEPT !.key = "k2"]},
        e \in {none, TRUE, FALSE}, m \in BOOLEAN, ab \in {"", "0.0.0.0"}, ap \in {0, 80, 81},
        at \in {none, TRUE, FALSE}}

serverSettings ==
    {[base EXCEPT !.listen.tls = [serverTLS EXCEPT !.minVersion = m, !.clientCerts = c]] :
        m \in {"", "1.0", "2.0"},
        c \in {none} \cup [require : BOOLEAN, cacert : {"", "ca", "gone"}]}

periods ==
    {[base EXCEPT !.descriptors = [startupMaxWait |-> x, pollingPeriod |-> p,
                                   pollingJitter |-> j, pollingDebounce |-> b, cache |-> {}],
                  !.origins = o] :
        x \in {-1, 0, 5}, p \in {-1, 0, 60}, j \in {none, -1, 0, 100, 101}, b \in {-1, 0, 1},
        o \in {{}, {"https://a"}, {"*"}}}

(* The gateways that are started: reflection of two services beside a      *)
(* module and a file, and so on; with and without jitter and cache.        *)
reflecting == [backend EXCEPT !.h2c = TRUE, !.services = <<"Films", "People">>,
                              !.descriptors = reflection]
inModule   == [backend EXCEPT !.services = <<"Music", "Books">>, !.routeTo = http("b")]
inFile     == [backend EXCEPT !.services = <<"Games">>, !.descriptors = file("set"),
                              !.routeTo = http("c")]
MCStarted ==
    {[base EXCEPT !.backends = <<reflecting, inFile>>, !.descriptors.cache = {"file_system"}],
     [base EXCEPT !.backends = <<reflecting, inModule>>, !.descriptors.pollingJitter = 0,
                  !.descriptors.cache = {"redis"}],
     [base EXCEPT !.backends = <<inModule, inFile>>],
     [base EXCEPT !.backends = <<reflecting>>, !.descriptors.cache = {"memcached"}]}

MCExtConfigs ==
    transports \cup encodings \cup sharing \cup tlsSettings \cup listeners \cup serverSettings
    \cup periods \cup MCStarted
    \cup {[base EXCEPT !.backends = << >>]}

(* To start none of them.                                                  *)
MCNone == {}

MCPairs   == {<<"c1", "k1">>, <<"c2", "k2">>}
MCSymbols == {"Films", "People", "Music", "Books", "Games"}
MCFiles   == {"films", "people", "music", "common", "money"}
MCDeps    == [f \in MCFiles |->
                CASE f = "films"  -> {"people", "common"}
                  [] f \in {"people", "music"} -> {"common"}
                  [] f = "common" -> {"money"}
                  [] f = "money"  -> {}]
MCFileOf  == [s \in MCSymbols |->
                CASE s = "Films" -> "films" [] s \in {"People", "Books"} -> "people"
                  [] OTHER -> "music"]
=============================================================================
