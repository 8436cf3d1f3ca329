----------------------------- MODULE TLSSettings -----------------------------
(***************************************************************************)
(* tls.go: the TLS settings of the configuration file, and what becomes of *)
(* them.  A setting that is absent is Nil.  Of files only this is known:   *)
(* which hold certificates of authorities (CAFiles), and which two hold a  *)
(* certificate and its key (Pairs).  An empty name is no file.             *)
(***************************************************************************)
EXTENDS Naturals

CONSTANTS
    DefaultSuites,  \* defaultCipherSuites
    AllSuites,      \* allCipherSuites
    Pairs,          \* <<cert, key>>
    CAFiles,
    Nil

ASSUME TLSAssumption == DefaultSuites \subseteq AllSuites /\ Pairs \subseteq STRING \X STRING

(* loadCertificateAndKey and loadCertificatePool succeed.                  *)
loadCertificateAndKey(cert, key) == cert # "" /\ key # "" /\ <<cert, key>> \in Pairs

loadCertificatePool(cacert) == cacert # "" /\ cacert \in CAFiles

(* parseTLSVersion; other names are not valid.                             *)
tlsVersion == [v \in {"1.0", "1.1", "1.2", "1.3"} |->
    CASE v = "1.0" -> 10 [] v = "1.1" -> 11 [] v = "1.2" -> 12 [] v = "1.3" -> 13]

defaultServerMinTLSVersion == 10
defaultClientMinTLSVersion == 12

(* Exactly one of the two may be present.                                  *)
externalCiphersConfig ==
    [allow : {Nil} \cup SUBSET STRING, disallow : {Nil} \cup SUBSET STRING]

ciphersValid(c) ==
    /\ (c.allow = Nil) # (c.disallow = Nil)
    /\ (IF c.allow # Nil THEN c.allow ELSE c.disallow) \subseteq AllSuites

parseCipherSuites(c) ==
    IF c.allow # Nil THEN c.allow ELSE AllSuites \ c.disallow

(* A version that is absent is Nil in a client's settings and empty in the *)
(* listener's.                                                             *)
minVersionValid(v, absent) == v = absent \/ v \in DOMAIN tlsVersion

minVersion(v, absent, default) == IF v = absent THEN default ELSE tlsVersion[v]

suites(c) == IF c = Nil THEN DefaultSuites ELSE parseCipherSuites(c)

-----------------------------------------------------------------------------
(* listen.tls.                                                             *)
externalClientCertsConfig == [require : BOOLEAN, cacert : STRING]

externalServerTLSConfig ==
    [cert : STRING, key : STRING, minVersion : STRING,
     ciphers : {Nil} \cup externalCiphersConfig,
     clientCerts : {Nil} \cup externalClientCertsConfig]

serverTLSValid(c) ==
    \/ c = Nil
    \/ /\ loadCertificateAndKey(c.cert, c.key)
       /\ minVersionValid(c.minVersion, "")
       /\ c.ciphers = Nil \/ ciphersValid(c.ciphers)
       /\ c.clientCerts = Nil \/ loadCertificatePool(c.clientCerts.cacert)

ServerTLS ==
    [certificate : Pairs, minVersion : 10 .. 13, suites : SUBSET AllSuites,
     clientAuth : {"none", "require", "if given"}]

configureServerTLS(c) ==
    IF c = Nil THEN Nil
    ELSE [certificate |-> <<c.cert, c.key>>,
          minVersion  |-> minVersion(c.minVersion, "", defaultServerMinTLSVersion),
          suites      |-> suites(c.ciphers),
          clientAuth  |-> IF c.clientCerts = Nil THEN "none"
                          ELSE IF c.clientCerts.require THEN "require" ELSE "if given"]

-----------------------------------------------------------------------------
(* backend.tls and backend_tls.                                            *)
externalClientTLSConfig ==
    [minVersion : {Nil} \cup STRING, ciphers : {Nil} \cup externalCiphersConfig,
     cacert : {Nil} \cup STRING, skipVerify : {Nil} \cup BOOLEAN,
     cert : {Nil} \cup STRING, key : {Nil} \cup STRING, serverName : STRING]

(* Slip: the defaults win.                                                 *)
mergeOverridden(conf, defaults) ==
    IF conf = Nil THEN defaults
    ELSE IF defaults = Nil THEN conf
    ELSE [f \in DOMAIN conf |->
            IF defaults[f] # Nil /\ f # "serverName" THEN defaults[f] ELSE conf[f]]

(* A backend takes from the defaults, setting by setting, what it does not *)
(* say itself, but never the server name.                                  *)
mergeClientTLSConfig(conf, defaults) ==
    IF conf = Nil THEN defaults
    ELSE IF defaults = Nil THEN conf
    ELSE [f \in DOMAIN conf |->
            IF conf[f] = Nil /\ f # "serverName" THEN defaults[f] ELSE conf[f]]

skips(c) == c.skipVerify # Nil /\ c.skipVerify

clientTLSValid(c) ==
    \/ c = Nil
    \/ /\ (c.cert = Nil /\ c.key = Nil) \/ loadCertificateAndKey(c.cert, c.key)
       /\ minVersionValid(c.minVersion, Nil)
       /\ c.ciphers = Nil \/ ciphersValid(c.ciphers)
       /\ skips(c) \/ c.cacert = Nil \/ loadCertificatePool(c.cacert)

ClientTLS ==
    [certificate : {Nil} \cup Pairs, minVersion : 10 .. 13, suites : SUBSET AllSuites,
     insecureSkipVerify : BOOLEAN, rootCAs : {Nil} \cup CAFiles]

(* Settings that were made are not taken for absent ones.                  *)
ASSUME NilAssumption == Nil \notin STRING \cup externalClientTLSConfig \cup ServerTLS \cup ClientTLS

configureClientTLS(c) ==
    IF c = Nil
    THEN [certificate |-> Nil, minVersion |-> defaultClientMinTLSVersion,
          suites |-> DefaultSuites, insecureSkipVerify |-> FALSE, rootCAs |-> Nil]
    ELSE [certificate |-> IF c.cert = Nil THEN Nil ELSE <<c.cert, c.key>>,
          minVersion  |-> minVersion(c.minVersion, Nil, defaultClientMinTLSVersion),
          suites      |-> suites(c.ciphers),
          insecureSkipVerify |-> skips(c),
          rootCAs     |-> IF skips(c) THEN Nil ELSE c.cacert]
=============================================================================
