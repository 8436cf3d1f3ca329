---------------------------- MODULE GrpcReflection ----------------------------
(***************************************************************************)
(* grpcReflectionPoller.GetSchema: download, over one reflection stream,   *)
(* the files that define the configured services and what they import.     *)
(*                                                                         *)
(* The reflection protocol lets a server answer with the file asked for    *)
(* alone, or send imported files along and leave out those already sent.   *)
(***************************************************************************)
EXTENDS Naturals, Sequences, SequencesExt

CONSTANTS
    Files,
    Deps,           \* Deps[f]: the files f imports
    Symbols,        \* what may be asked for
    FileOf,         \* FileOf[sym]: the file that defines the symbol
    WholeReplies    \* the server sends every import it has not sent yet

VARIABLES
    symbols,    \* the symbols of this call, never none
    asked,      \* those looked up
    seen, queue,
    results,    \* how often each file was appended
    pc          \* "idle", "ask", "ok" or "error"

vars == <<symbols, asked, seen, results, queue, pc>>

Init ==
    /\ symbols = {} /\ asked = {} /\ seen = {}
    /\ queue = << >>
    /\ results = [f \in Files |-> 0]
    /\ pc = "idle"

(* f with everything it imports, directly or not: the least set of files   *)
(* that has f and, with each file, those it imports.                       *)
Closure ==
    [f \in Files |->
        LET closed == {C \in SUBSET Files : f \in C /\ \A h \in C : Deps[h] \subseteq C}
        IN  {h \in Files : \A C \in closed : h \in C}]

(* A reply to a question whose answer is file f.                           *)
replies(f) ==
    LET whole == Closure[f]
    IN  {fs \in SUBSET whole : f \in fs /\ (WholeReplies => whole \subseteq fs \cup seen)}

-----------------------------------------------------------------------------
(* handleFiles, first pass: new files are added to the results.            *)

(* Slips: files that another file of the reply imports are left for later; *)
(* files are not checked against those seen before.                        *)
newFilesRootsOnly(fs) == {f \in fs \ seen : \A h \in fs : f \notin Deps[h]}

newFiles(fs) == fs \ seen

(* Second pass: the imports of files not seen, now that all of fs are.     *)
toQueue(fs) ==
    LET known == seen \cup newFiles(fs)
    IN  UNION {Deps[f] \ known : f \in fs \ known}

handleFiles(fs) ==
    /\ results' = [f \in Files |->
                      IF f \in newFiles(fs) THEN results[f] + 1 ELSE results[f]]
    /\ queue' = (IF asked = symbols THEN Tail(queue) ELSE queue)
                    \o SetToSeq(toQueue(fs))
    /\ seen' = seen \cup newFiles(fs) \cup toQueue(fs)

more == asked # symbols \/ queue # << >>

(* GetSchema is called: a new stream, nothing seen.                        *)
Begin(syms) ==
    /\ pc # "ask"
    /\ pc' = "ask"
    /\ symbols' = syms
    /\ asked' = {} /\ seen' = {} /\ queue' = << >>
    /\ results' = [f \in Files |-> 0]

(* Look up a symbol of interest or, when there is none left, the next file *)
(* of the queue.                                                           *)
Ask ==
    /\ pc = "ask"
    /\ IF asked = symbols
       THEN /\ more
            /\ \E fs \in replies(Head(queue)) : handleFiles(fs)
            /\ UNCHANGED asked
       ELSE \E sym \in symbols \ asked :
            /\ \E fs \in replies(FileOf[sym]) : handleFiles(fs)
            /\ asked' = asked \cup {sym}
    /\ UNCHANGED <<symbols, pc>>

AskFails ==
    /\ pc = "ask"
    /\ more
    /\ pc' = "error"
    /\ UNCHANGED <<symbols, asked, seen, results, queue>>

Return ==
    /\ pc = "ask"
    /\ ~more
    /\ pc' = "ok"
    /\ UNCHANGED <<symbols, asked, seen, results, queue>>

Next == (pc = "idle" /\ Begin(Symbols)) \/ Ask \/ AskFails \/ Return

Spec == Init /\ [][Next]_vars /\ WF_vars(Next)

-----------------------------------------------------------------------------
(* The schema has every file at most once; a second copy would make the    *)
(* descriptor set unusable.                                                *)
NoDuplicates == \A f \in Files : results[f] <= 1

(* The schema that is returned has the files of all symbols and, with      *)
(* every file, the files it imports: the whole dependency graph.           *)
WholeGraph ==
    pc = "ok" => \A sym \in symbols : \A f \in Closure[FileOf[sym]] : results[f] > 0
=============================================================================
