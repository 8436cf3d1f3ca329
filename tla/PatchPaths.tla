------------------------------ MODULE PatchPaths ------------------------------
(***************************************************************************)
(* What goes down a query beside the values: the paths that errors are     *)
(* reported with, and the headers of the resolvers' calls.                 *)
(*                                                                         *)
(* A path is a Go slice: a view of the first len elements of an array, and *)
(* append writes into the array when it has room behind them.  Formatting  *)
(* appends the name of every field to the path of the message it is in,    *)
(* patches keep the path of their message, and goroutines of one round     *)
(* append the relation's name to it when a resolver fails.  So arrays are  *)
(* shared between the fields of a message, one after the other, and        *)
(* between goroutines.                                                     *)
(*                                                                         *)
(* A string is two words, a pointer and a length, which a goroutine writes *)
(* one after the other and another may read in between: a slot of an array *)
(* is a pair of names, those its pointer and its length come from.         *)
(***************************************************************************)
EXTENDS PatchMeta

VARIABLES
    heap,       \* heap[n]: the array allocated for n's path, << >> if none
    slice,      \* slice[n]: [arr, len], the path of the value of n, or none
    fields,     \* fields[n]: the fields in the value of Method or a relation
    stage,      \* stage[n]: "none", "queued", "call", "format", "append" or "done"
    words,      \* words[r]: words of r's name that its append still writes
    reported,   \* reported[r]: the path of r's error as joined, or none
    meta,       \* meta[n]: the resolveMeta of a value of Method or a relation, or none
    sent        \* sent[r]: the headers of the call that resolves r, or none

pathVars == <<heap, slice, fields, stage, words, reported, meta, sent>>

Words == {"ptr", "len"}

slot(n) == [w \in Words |-> n]
noString == [w \in Words |-> none]

-----------------------------------------------------------------------------
(* Go's append.                                                            *)

room(path) == path.len + 1 \in DOMAIN heap[path.arr]

(* A new array, with what path is a view of, and n behind it.              *)
copied(path, n, size) ==
    [i \in 1 .. size |->
        CASE i <= path.len    -> heap[path.arr][i]
          [] i = path.len + 1 -> slot(n)
          [] OTHER            -> noString]

(* append(path, n), and what the path of n is then.  A full array is       *)
(* copied to one of twice the size.                                        *)
append(path, n) ==
    IF room(path)
    THEN [heap  |-> [heap EXCEPT ![path.arr][path.len + 1] = slot(n)],
          slice |-> [slice EXCEPT ![n] = [arr |-> path.arr, len |-> path.len + 1]]]
    ELSE [heap  |-> [heap EXCEPT ![n] = copied(path, n, 2 * path.len)],
          slice |-> [slice EXCEPT ![n] = [arr |-> n, len |-> path.len + 1]]]

-----------------------------------------------------------------------------
(* What is formatted.                                                      *)

Fields == Names \ Relations

Bases == Relations \cup {Method}

(* base is the last relation on a path, or the entry point if none is.     *)
lastBase(path, base) ==
    \E i \in DOMAIN path :
        path[i] = base /\ \A j \in i + 1 .. Len(path) : path[j] \in Fields

(* The relation, or the entry point, whose value n is a part of.           *)
Base == [n \in Names |-> CHOOSE base \in Bases : lastBase(Path[Within[n]], base)]

(* The fields of the value of base, and of the messages in it.             *)
InValue == [base \in Bases |-> {n \in Fields : Base[n] = base}]

(* The meta of r's values: the headers as they are, the operations copied  *)
(* and the resolver added.                                                 *)
metaFor(r) == [meta EXCEPT ![r] = [meta[Base[r]] EXCEPT !.operations = Append(@, r)]]

(* What a value of base may contain: no field without the one it is in.    *)
shapes(base) ==
    {present \in SUBSET InValue[base] :
        \A n \in present : Within[n] \in present \cup {base}}

(* The path and the value of base are there, and are going to be formatted.*)
begin(base, path) ==
    /\ heap' = path.heap
    /\ slice' = path.slice
    /\ \E present \in shapes(base) : fields' = [fields EXCEPT ![base] = present]
    /\ stage' = [stage EXCEPT ![base] = "format"]

unformatted(base) == {n \in fields[base] : slice[n] = none}

(* n is the first of S in the order of the mask.                           *)
first(n, S) == \E i \in DOMAIN Mask : Mask[i] = n /\ \A j \in 1 .. i - 1 : Mask[j] \notin S

(* The relations for which base's value makes patches.                     *)
patches(base) == {r \in Relations : Within[r] \in {base} \cup fields[base]}

-----------------------------------------------------------------------------

(* []string{methodName}                                                    *)
methodPath == <<slot(Method)>>

PathsInit ==
    /\ heap = [n \in Names \cup {Method} |-> << >>]
    /\ slice = [n \in Names \cup {Method} |-> none]
    /\ fields = [base \in Bases |-> {}]
    /\ stage = [base \in Bases |-> "none"]
    /\ words = [r \in Relations |-> {}]
    /\ reported = [r \in Relations |-> none]
    /\ meta = [base \in Bases |-> none]
    /\ sent = [r \in Relations |-> none]

(* The entry point's response is there.                                    *)
FormatResponse ==
    /\ stage[Method] = "none"
    /\ begin(Method, [heap  |-> [heap EXCEPT ![Method] = methodPath],
                      slice |-> [slice EXCEPT ![Method] = [arr |-> Method, len |-> 1]]])
    /\ \E cert \in Subjects \cup {none} : meta' = [meta EXCEPT ![Method] = newMeta(cert)]
    /\ UNCHANGED <<words, reported, sent>>

(* formatNormalMessage, one iteration of the loop: n is appended to the    *)
(* path of the message that it is a field of.                              *)
FormatField(base, n) ==
    /\ stage[base] = "format"
    /\ n \in unformatted(base)
    /\ first(n, unformatted(base))
    /\ LET path == append(slice[Within[n]], n)
       IN  heap' = path.heap /\ slice' = path.slice
    /\ UNCHANGED <<fields, stage, words, reported, meta, sent>>

(* The value is formatted, and its patches are for the next round.         *)
Formatted(base) ==
    /\ stage[base] = "format"
    /\ unformatted(base) = {}
    /\ stage' = [b \in Bases |->
                 IF b = base THEN "done" ELSE IF b \in patches(base) THEN "queued" ELSE stage[b]]
    /\ UNCHANGED <<heap, slice, fields, words, reported, meta, sent>>

StartCalls ==
    /\ \E r \in Relations : stage[r] = "queued"
    /\ \A base \in Bases : stage[base] \in {"none", "queued", "done"}
    /\ stage' = [base \in Bases |-> IF stage[base] = "queued" THEN "call" ELSE stage[base]]
    /\ sent' = [r \in Relations |->
                    IF stage[r] = "queued" THEN outbound(meta[Base[r]]) ELSE sent[r]]
    /\ UNCHANGED <<heap, slice, fields, words, reported, meta>>

(* Slip: the path of the resolved value is appended to, not copied.        *)
resolvedPathAppended(r) == append(slice[Within[r]], r)

(* The path of a resolved value: a copy that has no room.                  *)
resolvedPath(r) ==
    LET path == slice[Within[r]]
    IN  [heap  |-> [heap EXCEPT ![r] = copied(path, r, path.len + 1)],
         slice |-> [slice EXCEPT ![r] = [arr |-> r, len |-> path.len + 1]]]

Resolve(r) ==
    /\ stage[r] = "call"
    /\ begin(r, resolvedPath(r))
    /\ meta' = metaFor(r)
    /\ UNCHANGED <<words, reported, sent>>

(* The resolver leaves the relation absent.                                *)
ResolveToNothing(r) ==
    /\ stage[r] = "call"
    /\ stage' = [stage EXCEPT ![r] = "done"]
    /\ UNCHANGED <<heap, slice, fields, words, reported, meta, sent>>

(* The resolver fails: append(patch.path, patch.mask.Name) either writes   *)
(* to the shared array, in as many steps as the string has words, or makes *)
(* an array that nobody else has.                                          *)
ResolveFails(r) ==
    /\ stage[r] = "call"
    /\ stage' = [stage EXCEPT ![r] = "append"]
    /\ words' = [words EXCEPT ![r] = IF room(slice[Within[r]]) THEN Words ELSE {}]
    /\ UNCHANGED <<heap, slice, fields, reported, meta, sent>>

WriteWord(r, w) ==
    /\ stage[r] = "append"
    /\ w \in words[r]
    /\ LET path == slice[Within[r]]
       IN  heap' = [heap EXCEPT ![path.arr][path.len + 1][w] = r]
    /\ words' = [words EXCEPT ![r] = @ \ {w}]
    /\ UNCHANGED <<slice, fields, stage, reported, meta, sent>>

(* The names that a path of this length has in this array.                 *)
contents(path) == [i \in 1 .. path.len |-> heap[path.arr][i]]

(* Slip: the relation's own name is left out.                              *)
joinedWithout(r) == contents(slice[Within[r]])

joined(r) ==
    LET path == slice[Within[r]]
    IN  IF room(path) THEN contents([path EXCEPT !.len = @ + 1])
        ELSE copied(path, r, path.len + 1)

(* strings.Join and formatError.                                           *)
Join(r) ==
    /\ stage[r] = "append"
    /\ words[r] = {}
    /\ reported' = [reported EXCEPT ![r] = joined(r)]
    /\ stage' = [stage EXCEPT ![r] = "done"]
    /\ UNCHANGED <<heap, slice, fields, words, meta, sent>>

PathsNext ==
    \/ FormatResponse \/ StartCalls
    \/ \E base \in Bases : Formatted(base) \/ \E n \in Fields : FormatField(base, n)
    \/ \E r \in Relations :
         \/ Resolve(r) \/ ResolveToNothing(r) \/ ResolveFails(r) \/ Join(r)
         \/ \E w \in Words : WriteWord(r, w)

PathsSpec == PathsInit /\ [][PathsNext]_pathVars

-----------------------------------------------------------------------------
(* ops are the RPCs that led to a value of n: the client's call, the entry *)
(* point, and the resolver of each relation from there down to n.          *)
Trace(ops, n) ==
    /\ Len(ops) >= 2 /\ ops[1] = Procedure /\ ops[2] = Method /\ ops[Len(ops)] = n
    /\ \A i \in 3 .. Len(ops) : ops[i] \in Relations /\ ops[i - 1] = Base[ops[i]]

siblings(n) == {s \in Names : Within[s] = Within[n]}

(* The names that are appended to the same path as n, where it has room    *)
(* for one: all of them are written to the same place.  They need not be   *)
(* siblings: siblings that got the same path hand it on to their masks.    *)
rivals(n) ==
    IF room(slice[Within[n]]) THEN {m \in Names : slice[Within[m]] = slice[Within[n]]} ELSE {n}

(* What may be read for n in the path of a value: it was copied if n is a  *)
(* relation.                                                               *)
mayRead(n) == IF n \in Fields THEN rivals(n) ELSE {n}

(* Some append on the way to r found room in an array that another name of *)
(* the same mask also appends to.                                          *)
shared(r) ==
    \E i \in DOMAIN Path[r] :
        LET n == Path[r][i]
        IN  (n \in Fields \/ n = r) /\ room(slice[Within[n]]) /\ siblings(n) # {n}

(* The path reported with an error leads to the mask of the relation that  *)
(* failed, unless a mask on the way has several names and the path had     *)
(* room for them: goroutines that fail at the same time, and messages      *)
(* formatted after one another, do not disturb any other path.  Where it   *)
(* does go wrong, a name gives way to one that was appended to the same    *)
(* path, never to one of another array or another depth, nor to no name.   *)
RightUnlessShared ==
    \A r \in Relations : reported[r] # none =>
        LET path == Path[r]
        IN  /\ DOMAIN reported[r] = DOMAIN path
            /\ \A i \in DOMAIN path, w \in Words :
                  reported[r][i][w] \in IF path[i] = r THEN rivals(r) ELSE mayRead(path[i])
            /\ ~shared(r) => reported[r] = [i \in DOMAIN path |-> slot(path[i])]

(* The path of a resolved value is its own: once made, it stays as it is,  *)
(* whatever is formatted below it and whatever fails beside it.            *)
ResolvedPathsStay ==
    [][\A r \in Relations : slice[r] # none =>
          slice'[r] = slice[r] /\ contents(slice[r])' = contents(slice[r])]_pathVars

(* A resolver at any depth is called with the client's headers, but for    *)
(* those of the connection; with the true operations, and with who the     *)
(* client has proved to be, also when the client sent headers of those     *)
(* names; and in the gateway's name.                                       *)
HeadersReachResolvers ==
    \A r \in Relations : sent[r] # none =>
        LET cert == meta[Method].cert
            own  == {knitOperationsHeader, userAgentHeader}
                    \cup (IF cert = none THEN {} ELSE {clientIdentityHeader})
        IN  /\ Trace(sent[r][knitOperationsHeader], Base[r])
            /\ cert # none => sent[r][clientIdentityHeader] = <<cert>>
            /\ Last(sent[r][userAgentHeader]) = "knitgateway"
            /\ DOMAIN sent[r] = (DOMAIN Inbound \cap Kept) \cup own
            /\ \A h \in DOMAIN sent[r] \ own : sent[r][h] = Inbound[h]
=============================================================================
