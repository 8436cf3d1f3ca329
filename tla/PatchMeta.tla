------------------------------ MODULE PatchMeta -------------------------------
(***************************************************************************)
(* What a patch carries beside the value it is for: the place in the       *)
(* request's mask, from which the path of an error is made, and the        *)
(* resolveMeta, from which the headers of the resolver's call are made.    *)
(***************************************************************************)
EXTENDS Naturals, Sequences, SequencesExt

CONSTANTS
    Mask,       \* the names in the request's mask, in the order of the mask:
                \* each name after the one it is below
    Within,         \* Within[n]: the name whose mask n is in, or Method
    Path,       \* Path[n]: the names from Method down to n, what the code means to keep
    Relations,  \* the names that are relations; the others are fields
    Method,     \* the entry point, first element of every path
    Procedure,  \* the method of the Knit service that was called
    Inbound,    \* the headers of that call: name -> value
    Kept,       \* names that are not forbidden and have no forbidden prefix
    Subjects,   \* of the certificates with which the client may have connected
    none

Names == ToSet(Mask)

ASSUME PathsAssumption ==
    /\ Relations \subseteq Names
    /\ Method \notin Names
    /\ \A i \in DOMAIN Mask :
           Within[Mask[i]] = Method \/ \E j \in 1 .. i - 1 : Mask[j] = Within[Mask[i]]
    /\ \A h \in DOMAIN Inbound : Inbound[h] \in Seq(STRING)

(* Path is what Within makes of it.                                            *)
ASSUME PathAssumption ==
    /\ Within \in [Names -> Names \cup {Method}]
    /\ Path \in [Names \cup {Method} -> Seq(Names \cup {Method})]
    /\ Path[Method] = <<Method>>
    /\ \A n \in Names : Path[n] = Append(Path[Within[n]], n)
    /\ \A n \in Names : \A i \in DOMAIN Path[n] : Path[Path[n][i]] = SubSeq(Path[n], 1, i)

-----------------------------------------------------------------------------
(* Headers: src's are added to dest's.                                     *)
propagateHeaders(src, dest) ==
    [h \in DOMAIN dest \cup (DOMAIN src \cap Kept) |->
        IF h \in DOMAIN dest THEN dest[h] ELSE src[h]]

knitOperationsHeader == "Knit-Operations"

(* Slip: operations that came with the client's headers are kept.          *)
toHeadersPolitely(m) ==
    [h \in DOMAIN m.headers \cup {knitOperationsHeader} |->
        IF h \in DOMAIN m.headers THEN m.headers[h] ELSE m.operations]

toHeaders(m) ==
    [h \in DOMAIN m.headers \cup {knitOperationsHeader} |->
        IF h = knitOperationsHeader THEN m.operations ELSE m.headers[h]]

clientIdentityHeader == "Knit-Client-Subject"
userAgentHeader      == "User-Agent"

set(headers, name, value) ==
    [h \in DOMAIN headers \cup {name} |-> IF h = name THEN value ELSE headers[h]]

(* The certificate is in the request's context, which every call is made   *)
(* with.                                                                   *)
certForwardingInterceptor(cert, headers) ==
    IF cert = none THEN headers ELSE set(headers, clientIdentityHeader, <<cert>>)

(* The client library has put its own name there.                          *)
UserAgentInterceptor(headers) ==
    set(headers, userAgentHeader,
        (IF userAgentHeader \in DOMAIN headers THEN headers[userAgentHeader] ELSE <<"connect">>)
        \o <<"knitgateway">>)

outbound(m) == certForwardingInterceptor(m.cert, UserAgentInterceptor(toHeaders(m)))

(* The first resolveMeta has the client's headers and certificate.         *)
newMeta(cert) ==
    [operations |-> <<Procedure, Method>>, cert |-> cert,
     headers |-> propagateHeaders(Inbound, << >>)]

resolveMeta ==
    [operations : Seq(Names \cup {Procedure, Method}), cert : Subjects \cup {none},
     headers : {propagateHeaders(Inbound, << >>)}]

slices == [arr : Names \cup {Method}, len : Nat]

ASSUME NoneAssumption == none \notin resolveMeta \cup slices
=============================================================================
