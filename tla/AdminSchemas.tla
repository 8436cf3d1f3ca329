----------------------------- MODULE AdminSchemas -----------------------------
(***************************************************************************)
(* The download of a service's schema from the admin endpoints.            *)
(***************************************************************************)
EXTENDS Startup

(* There are finitely many files, and they do not import one another in    *)
(* circles: descriptors cannot be linked otherwise.                        *)
ASSUME ImportsAssumption ==
    IsFiniteSet(Files) /\ \A f \in Files : \A h \in Deps[f] : f \notin R!Closure[h]

(* The arguments that accumulateFiles changes.                             *)
Accs == [seen : SUBSET Files, target : Seq(Files)]

Imports(file, files) == SetToSeq(Deps[file] \cap files)

(* The loop over imports.                                                  *)
visitAll(imps, deeper, acc) ==
    LET after[i \in 0 .. Len(imps)] ==
            IF i = 0 THEN acc ELSE deeper[imps[i]][after[i - 1]]
    IN  after[Len(imps)]

(* A file, after what it imports, of the files that the watcher has.       *)
visit(files, deeper, depth) ==
    [file \in Files |-> [acc \in Accs |->
        IF depth = 0 \/ file \in acc.seen THEN acc
        ELSE LET imported == visitAll(Imports(file, files), deeper,
                                      [acc EXCEPT !.seen = @ \cup {file}])
             IN  [imported EXCEPT !.target = Append(@, file)]]]

(* A call is nested in calls for the files it is imported by: never in     *)
(* more than there are files.                                              *)
accumulateFiles(files) ==
    LET nested[depth \in 0 .. Cardinality(Files)] == visit(files, nested[depth - 1], depth)
    IN  nested[Cardinality(Files)]

(* Nil is 404.                                                             *)
handleServiceSchema(svc) ==
    IF svc \notin DOMAIN conf.services THEN Nil
    ELSE accumulateFiles(schema[conf.services[svc].descriptors])
             [FileOf[svc]][[seen |-> {}, target |-> << >>]].target

-----------------------------------------------------------------------------
(* files can be linked one after the other: each comes once, and after     *)
(* those it imports.                                                       *)
linkable(files) ==
    \A i \in DOMAIN files : Deps[files[i]] \subseteq {files[j] : j \in 1 .. i - 1}
                            /\ files[i] \notin {files[j] : j \in 1 .. i - 1}

(* A watcher that is ready has the file of each of its services with all   *)
(* that it imports, and a reflecting server's answers leave no file twice, *)
(* which would make the schema unusable.  The admin endpoints then hand    *)
(* out, for each service, a schema that stands by itself: those files and  *)
(* no others, in an order in which they can be linked.                     *)
ReadyIsComplete ==
    /\ SchemasWhole
    /\ R!NoDuplicates
    /\ \A p \in DOMAIN w : w[p] = "ready" =>
          \A svc \in {s \in DOMAIN conf.services : conf.services[s].descriptors = p} :
              /\ ToSet(handleServiceSchema(svc)) = R!Closure[FileOf[svc]]
              /\ linkable(handleServiceSchema(svc))
=============================================================================
