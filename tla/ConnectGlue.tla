----------------------------- MODULE ConnectGlue -----------------------------
(***************************************************************************)
(* What protoc-gen-connect-go makes of a service: the procedures under     *)
(* which its methods are called, a client, and a handler to mount.         *)
(*                                                                         *)
(* A service is a function from its methods to [safe, stream]: whether the *)
(* method is declared without side effects, and whether the server streams *)
(* its responses.  A URL is the sequence of its words: the origin and the  *)
(* words of the path, with the slashes between them.                       *)
(***************************************************************************)
EXTENDS Integers, Sequences, SequencesExt, TLC

safe   == [safe |-> TRUE,  stream |-> FALSE]
unsafe == [safe |-> FALSE, stream |-> FALSE]
stream == [safe |-> FALSE, stream |-> TRUE]

procedures(service, methods) == [m \in DOMAIN methods |-> <<"/", service, "/", m>>]

(* The URL of every method, and whether it may be called by GET.           *)
newClient(baseURL, procs, methods) ==
    LET base == SubSeq(baseURL, 1, SelectLastInSeq(baseURL, LAMBDA word : word # "/"))
    IN  [m \in DOMAIN methods |-> [url |-> base \o procs[m], get |-> methods[m].safe]]

(* The path on which to mount the handler, and what it serves there: GET   *)
(* is for methods without side effects.                                    *)
newHandler(service, procs, methods) ==
    [pattern |-> <<"/", service, "/">>,
     serve   |-> [path \in {procs[m] : m \in DOMAIN methods} |->
                     LET m == CHOOSE m \in DOMAIN methods : procs[m] = path
                     IN  [method |-> <<service, m>>,
                          verbs  |-> IF methods[m].safe THEN {"POST", "GET"} ELSE {"POST"}]]]

(* What a service answers that embeds the stub and nothing else.           *)
unimplemented(methods) == [m \in DOMAIN methods |-> "unimplemented"]
=============================================================================
