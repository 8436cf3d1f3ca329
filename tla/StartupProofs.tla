----------------------------- MODULE StartupProofs -----------------------------
(***************************************************************************)
(* Theorems about Startup: how a gateway ends, and that the schemas of its *)
(* watchers are whole; that what LoadConfig makes of any file it accepts   *)
(* is what the file says; and that the admin endpoints hand out schemas    *)
(* that stand by themselves.                                               *)
(*                                                                         *)
(* In the first part LoadConfig is not unfolded: what is proved holds      *)
(* whatever settings it makes of a file, within the bound on Started.  In  *)
(* the second its loops, over backends and over their services, are taken  *)
(* turn by turn, by induction on the number of turns; and in the third the *)
(* recursion of accumulateFiles, by induction on the depth that is left,   *)
(* with its loop over imports inside.                                      *)
(***************************************************************************)
EXTENDS AdminSchemas, FunctionTheorems, FiniteSetTheorems, SequenceTheorems, WellFoundedInduction,
        TLAPS

-----------------------------------------------------------------------------
(* The inductive invariant.                                                *)

Fresh == {"load", "rejected", "loaded", "create"}

(* Before CreateGateway has opened the cache nothing has been started, and *)
(* afterwards the settings are those of the file, and the watchers those   *)
(* of its pollers.  When there are no watchers yet, DOMAIN w is empty.     *)
Shape ==
    /\ pc \in Fresh \cup {"loop", "add", "running", "closing", "stopping", "stopped", "crashed",
                          "fatal"}
    /\ conf # Nil => conf = LoadConfig(ext)
    /\ pc \notin Fresh \ {"create"} => conf # Nil /\ ext \in Started
    /\ pc \in Fresh =>
          /\ DOMAIN w = {} /\ todo = {} /\ watchers = {} /\ first = Nil
          /\ sync = "no" /\ cache = "none" /\ rpc = "idle"
    /\ DOMAIN w # {} =>
          /\ w \in [pollers -> {"none", "polling", "ready", "stopped"}]
          /\ DOMAIN schema = pollers
    /\ todo \subseteq DOMAIN w

(* A watcher that runs is in the map, or is just being put into it.        *)
Watched ==
    /\ pc \in {"loop", "running", "closing", "stopping"} =>
          \A p \in DOMAIN w : w[p] \in {"polling", "ready"} => p \in watchers
    /\ pc = "add" =>
          \A p \in DOMAIN w : w[p] \in {"polling", "ready"} => p \in watchers \cup {cur}
    /\ pc = "stopped" => \A p \in DOMAIN w : w[p] \in {"none", "stopped"}
    /\ pc \in {"stopping", "stopped"} => (cache = "open" => conf.cache = "file_system")

(* The reflection stream: what was seen is what was appended, once, and    *)
(* the queue of imports stays empty.                                       *)
Stream ==
    /\ asked \subseteq symbols /\ symbols \subseteq Symbols
    /\ results \in [Files -> {0, 1}]
    /\ seen = {f \in Files : results[f] > 0}
    /\ queue = << >>
    /\ rpc \in {"idle", "ask", "ok", "error"}
    /\ rpc = "ok" => asked = symbols

(* The stream asks for the services of the poller that reflects.           *)
OfPoller ==
    rpc \in {"ask", "ok"} =>
        \E p \in pollers : p.source.kind = "reflection" /\ symbols = symbolsOf(p)

(* With a server that sends every import, the files of what was asked for  *)
(* have been seen with all they import.                                    *)
AskedWhole == \A sym \in asked : R!Closure[FileOf[sym]] \subseteq seen

(* What the cache has kept of a source is whole for every service that the *)
(* file configures with it, also before the file is loaded again.          *)
SavedWhole ==
    \A src \in DOMAIN saved :
        LET services == LoadConfig(ext).services
        IN  \A svc \in DOMAIN services :
                services[svc].descriptors.source = src => R!Closure[FileOf[svc]] \subseteq saved[src]

Ends == Shape /\ Watched

Schemas == Shape /\ Stream /\ OfPoller /\ AskedWhole /\ SavedWhole /\ SchemasWhole

-----------------------------------------------------------------------------
(* A tuple of nothing has no indices.                                      *)
LEMMA NoIndices == DOMAIN << >> = {}
  OBVIOUS

(* The pollers of a gateway that is started: none is Nil, and there is one *)
(* for each kind of source.                                                *)
LEMMA StartedPollers ==
  ASSUME Shape, pc \notin Fresh \ {"create"}
  PROVE  /\ conf = LoadConfig(ext)
         /\ DOMAIN conf.services \subseteq Symbols
         /\ Nil \notin pollers
         /\ \A p, q \in pollers : p.source.kind = q.source.kind => p = q
  BY StartedAssumption DEF Shape, pollers

(* What a file imports is of the files there are, and has the file.        *)
LEMMA ClosureInFiles ==
  ASSUME NEW f \in Files
  PROVE  R!Closure[f] \subseteq Files /\ f \in R!Closure[f]
  BY DEF R!Closure

(* A sequence of the elements of the empty set is empty.                   *)
LEMMA NothingInSeq == R!SetToSeq({}) = << >>
<1>1. Cardinality({}) = 0
  BY FS_EmptySet
<1>2. << >> \in [1 .. 0 -> {}]
  OBVIOUS
<1>3. \A g \in [1 .. 0 -> {}] : g = << >>
  OBVIOUS
<1>4. R!IsInjective(<< >>)
  BY DEF R!IsInjective
<1> QED BY <1>1, <1>2, <1>3, <1>4 DEF R!SetToSeq

-----------------------------------------------------------------------------
(* A step of main.                                                         *)

Starts == Load \/ OpenCache \/ CacheFails \/ AddWatcher \/ Created
          \/ \E p \in todo : NewWatcher(p) \/ NewWatcherFails(p)

(* A step of the cache.                                                    *)
Caches == (\E p \in DOMAIN w : Save(p)) \/ \E src \in DOMAIN saved : Expire(src)

Stops == Cancel \/ CloseCache \/ StopWatchers \/ Crash \/ Restart

(* Whichever step is taken, it is one of these.                            *)
LEMMA StepCases ==
  ASSUME Next
  PROVE  Starts \/ Stops \/ Caches \/ SyncOthers \/ (\E src \in sources : conf # Nil /\ SourceFails(src))
         \/ \E p \in DOMAIN w : Watch(p)
  BY DEF Next, Main, Starts, Stops, Caches

(* What main and the other watchers see of a watcher's step: it goes on as *)
(* it was or becomes ready, and the rest is left alone.                    *)
LEMMA WatchSeen ==
  ASSUME NEW p \in DOMAIN w, Watch(p)
  PROVE  /\ alive /\ w[p] = "polling"
         /\ UNCHANGED <<ext, conf, pc, todo, cur, first, watchers, cache, saved, down, restarts>>
         /\ unsaved' \subseteq unsaved \cup {p}
         /\ \/ UNCHANGED <<w, schema, sync>>
            \/ \E files : ready(p, files)
  BY DEF Watch, Download, Reflect, LoadFromCache, downloaded, polling, startup, caching

(* What main and the watchers see of a step of the cache: nothing.         *)
LEMMA CachesSeen ==
  ASSUME Caches
  PROVE  UNCHANGED <<ext, conf, pc, todo, cur, first, watchers, w, schema, sync, cache, down,
                     restarts, stream>> /\ unsaved' \subseteq unsaved
  BY DEF Caches, Save, Expire

(* The shape of the state is kept.                                         *)
LEMMA ShapeKept ==
  ASSUME Shape, [Next]_vars
  PROVE  Shape'
<1> USE DEF Fresh
<1>1. CASE Starts
  <2>1. CASE Load
    BY <2>1 DEF Load, Shape, stream
  <2>2. CASE OpenCache
    <3>1. pollers' = pollers
      BY <2>2 DEF OpenCache, pollers
    <3>2. w' \in [pollers -> {"none"}] /\ DOMAIN schema' = pollers /\ todo' = DOMAIN w'
      BY <2>2 DEF OpenCache
    <3> QED BY <2>2, <3>1, <3>2 DEF OpenCache, Shape, stream
  <2>3. CASE CacheFails
    <3>1. pollers' = pollers
      BY <2>3 DEF CacheFails, pollers
    <3> QED BY <2>3, <3>1 DEF CacheFails, Shape, stream
  <2>4. CASE AddWatcher
    <3>1. pollers' = pollers
      BY <2>4 DEF AddWatcher, pollers
    <3> QED BY <2>4, <3>1 DEF AddWatcher, Shape, stream
  <2>5. CASE Created
    <3>1. pollers' = pollers
      BY <2>5 DEF Created, pollers
    <3> QED BY <2>5, <3>1 DEF Created, Shape, stream
  <2>6. ASSUME NEW p \in todo, NewWatcher(p)
        PROVE  Shape'
    <3>1. pollers' = pollers
      BY <2>6 DEF NewWatcher, pollers
    <3>2. DOMAIN w' = DOMAIN w
      BY <2>6 DEF NewWatcher
    <3> QED BY <2>6, <3>1, <3>2 DEF NewWatcher, Shape, stream
  <2>7. ASSUME NEW p \in todo, NewWatcherFails(p)
        PROVE  Shape'
    <3>1. pollers' = pollers
      BY <2>7 DEF NewWatcherFails, pollers
    <3> QED BY <2>7, <3>1 DEF NewWatcherFails, Shape, stream
  <2> QED BY <1>1, <2>1, <2>2, <2>3, <2>4, <2>5, <2>6, <2>7 DEF Starts
<1>2. CASE Stops
  <2>1. CASE Cancel \/ CloseCache \/ Crash
    <3>1. pollers' = pollers
      BY <2>1 DEF Cancel, CloseCache, Crash, pollers
    <3> QED BY <2>1, <3>1 DEF Cancel, CloseCache, Crash, alive, Shape, stream
  <2>2. CASE StopWatchers
    <3>1. pollers' = pollers
      BY <2>2 DEF StopWatchers, pollers
    <3>2. DOMAIN w' = DOMAIN w
      BY <2>2 DEF StopWatchers
    <3> QED BY <2>2, <3>1, <3>2 DEF StopWatchers, Shape, stream
  <2>3. CASE Restart
    BY <2>3, NoIndices DEF Restart, reset, Shape
  <2> QED BY <1>2, <2>1, <2>2, <2>3 DEF Stops
<1>3. CASE SyncOthers \/ \E src \in sources : SourceFails(src)
  <2>1. pollers' = pollers
    BY <1>3 DEF SyncOthers, SourceFails, pollers
  <2> QED BY <1>3, <2>1 DEF SyncOthers, SourceFails, alive, Shape, stream
<1>4. ASSUME NEW p \in DOMAIN w, Watch(p)
      PROVE  Shape'
  <2>1. /\ alive
        /\ UNCHANGED <<ext, conf, pc, todo, cur, first, watchers, cache, saved, down, restarts>>
        /\ UNCHANGED <<w, schema, sync>> \/ \E files : ready(p, files)
    BY <1>4, WatchSeen
  <2>2. pollers' = pollers
    BY <2>1 DEF pollers
  <2>3. DOMAIN w' = DOMAIN w /\ DOMAIN schema' = DOMAIN schema
    BY <2>1 DEF ready
  <2>4. w' \in [pollers -> {"none", "polling", "ready", "stopped"}]
    BY <2>1 DEF ready, Shape
  <2> QED BY <2>1, <2>2, <2>3, <2>4 DEF alive, Shape
<1>5. CASE UNCHANGED vars
  <2>1. pollers' = pollers
    BY <1>5 DEF vars, startup, caching, pollers
  <2> QED BY <1>5, <2>1 DEF vars, startup, caching, stream, Shape
<1>6. CASE Caches
  <2>1. /\ UNCHANGED <<ext, conf, pc, todo, first, watchers, w, schema, sync, cache>>
        /\ UNCHANGED stream
    BY <1>6, CachesSeen
  <2>2. pollers' = pollers
    BY <2>1 DEF pollers
  <2> QED BY <2>1, <2>2 DEF stream, Shape
<1> QED BY <1>1, <1>2, <1>3, <1>4, <1>5, <1>6, StepCases

(* No watcher that runs is lost sight of.                                  *)
LEMMA WatchedKept ==
  ASSUME Shape, Watched, [Next]_vars
  PROVE  Watched'
<1> USE DEF Fresh
<1>1. CASE Starts
  <2>1. CASE Load \/ Created
    BY <1>1, <2>1 DEF Load, Created, Watched, Shape
  <2>2. CASE OpenCache
    BY <2>2 DEF OpenCache, Watched
  <2>3. CASE CacheFails
    BY <2>3 DEF CacheFails, Watched, Shape
  <2>4. CASE AddWatcher
    BY <2>4 DEF AddWatcher, Watched
  <2>5. ASSUME NEW p \in todo, NewWatcher(p)
        PROVE  Watched'
    BY <2>5 DEF NewWatcher, Watched
  <2>6. ASSUME NEW p \in todo, NewWatcherFails(p)
        PROVE  Watched'
    BY <2>6 DEF NewWatcherFails, Watched
  <2> QED BY <1>1, <2>1, <2>2, <2>3, <2>4, <2>5, <2>6 DEF Starts
<1>2. CASE Stops
  <2>1. CASE Cancel \/ Crash
    BY <2>1 DEF Cancel, Crash, Watched
  <2>2. CASE CloseCache
    BY <2>2 DEF CloseCache, Watched
  <2>3. CASE StopWatchers
    <3>1. \A p \in DOMAIN w : w[p] \in {"none", "polling", "ready", "stopped"}
      BY DEF Shape
    <3> QED BY <2>3, <3>1 DEF StopWatchers, Watched
  <2>4. CASE Restart
    BY <2>4 DEF Restart, Watched
  <2> QED BY <1>2, <2>1, <2>2, <2>3, <2>4 DEF Stops
<1>3. CASE SyncOthers \/ \E src \in sources : SourceFails(src)
  BY <1>3 DEF SyncOthers, SourceFails, Watched
<1>4. ASSUME NEW p \in DOMAIN w, Watch(p)
      PROVE  Watched'
  <2>1. /\ alive /\ w[p] = "polling"
        /\ UNCHANGED <<ext, conf, pc, todo, cur, first, watchers, cache, saved, down, restarts>>
        /\ UNCHANGED <<w, schema, sync>> \/ \E files : ready(p, files)
    BY <1>4, WatchSeen
  <2>2. DOMAIN w' = DOMAIN w /\ \A q \in DOMAIN w \ {p} : w'[q] = w[q]
    BY <2>1 DEF ready
  <2> QED BY <2>1, <2>2 DEF alive, Watched
<1>5. CASE UNCHANGED vars
  BY <1>5 DEF vars, startup, caching, Watched
<1>6. CASE Caches
  BY <1>6, CachesSeen DEF Watched
<1> QED BY <1>1, <1>2, <1>3, <1>4, <1>5, <1>6, StepCases

(* How main goes, and what it leaves behind, is an invariant.              *)
THEOREM EndsInvariant == Spec => []Ends
<1>1. Init => Ends
  BY NoIndices DEF Init, R!Init, Ends, Shape, Watched, Fresh
<1>2. Ends /\ [Next]_vars => Ends'
  BY ShapeKept, WatchedKept DEF Ends
<1> QED BY <1>1, <1>2, PTL DEF Spec

(* When CreateGateway has failed halfway, or the context has ended, every  *)
(* watcher that was started has been stopped and the cache is closed: each *)
(* was in what closeAll goes through.                                      *)
THEOREM ClosesEverything == Spec => []NothingLeftOpen
<1>1. Ends => NothingLeftOpen
  BY DEF Ends, Watched, NothingLeftOpen
<1> QED BY <1>1, EndsInvariant, PTL

-----------------------------------------------------------------------------
(* The reflection stream.                                                  *)

(* The files of a reply are appended unless they were seen; every one of   *)
(* them is known before the second pass, which so finds nothing to queue.  *)
LEMMA RepliesHandled ==
  ASSUME Stream, NEW f \in Files, NEW fs \in R!replies(f), R!handleFiles(fs), asked # symbols
  PROVE  /\ fs \subseteq Files
         /\ seen' = seen \cup fs
         /\ queue' = << >>
         /\ results' \in [Files -> {0, 1}]
         /\ seen' = {h \in Files : results'[h] > 0}
<1>1. fs \subseteq Files
  BY ClosureInFiles DEF R!replies
<1>2. R!toQueue(fs) = {}
  BY DEF R!toQueue, R!newFiles
<1>3. seen' = seen \cup fs
  BY <1>2 DEF R!handleFiles, R!newFiles
<1>4. queue' = << >>
  BY <1>2, NothingInSeq DEF R!handleFiles, Stream
<1>5. results' \in [Files -> {0, 1}] /\ \A h \in Files : results'[h] > 0 <=> h \in seen \cup fs
  BY <1>1 DEF R!handleFiles, R!newFiles, Stream
<1> QED BY <1>1, <1>3, <1>4, <1>5 DEF Stream

(* What a watcher's step does to the stream.                               *)
LEMMA StreamSteps ==
  ASSUME NEW p \in DOMAIN w, Watch(p)
  PROVE  \/ UNCHANGED stream
         \/ p.source.kind = "reflection" /\ R!Begin(symbolsOf(p))
         \/ R!Ask \/ R!AskFails \/ R!Return
         \/ rpc' = "idle" /\ UNCHANGED <<symbols, asked, seen, results, queue>>
  BY DEF Watch, Download, Reflect, LoadFromCache

(* The other steps leave the stream alone, or forget it.                   *)
LEMMA StreamAlone ==
  ASSUME [Next]_vars
  PROVE  \/ UNCHANGED stream
         \/ Restart
         \/ \E p \in DOMAIN w : Watch(p)
  BY DEF Next, Main, Load, OpenCache, AddWatcher, Created, CloseCache, StopWatchers, NewWatcher,
         CacheFails, SyncOthers, Cancel, Crash, NewWatcherFails, SourceFails, Save, Expire, vars

(* A file comes once, and the queue stays empty.                           *)
LEMMA StreamKept ==
  ASSUME Shape, Stream, [Next]_vars
  PROVE  Stream'
<1>1. CASE UNCHANGED stream
  BY <1>1 DEF stream, Stream
<1>2. CASE Restart
  BY <1>2 DEF Restart, Stream
<1>3. ASSUME NEW p \in DOMAIN w, Watch(p)
      PROVE  Stream'
  <2>1. symbolsOf(p) \subseteq Symbols
    BY <1>3, WatchSeen, StartedPollers DEF alive, Fresh, symbolsOf
  <2>2. CASE R!Begin(symbolsOf(p))
    BY <2>1, <2>2 DEF R!Begin, Stream
  <2>3. CASE R!Ask
    <3>1. asked # symbols
      BY <2>3 DEF R!Ask, R!more, Stream
    <3>2. PICK sym \in symbols \ asked :
             /\ \E fs \in R!replies(FileOf[sym]) : R!handleFiles(fs)
             /\ asked' = asked \cup {sym}
      BY <2>3, <3>1 DEF R!Ask
    <3>3. FileOf[sym] \in Files
      BY ReflectionAssumption DEF Stream
    <3>4. /\ queue' = << >>
          /\ results' \in [Files -> {0, 1}]
          /\ seen' = {h \in Files : results'[h] > 0}
      BY <3>1, <3>2, <3>3, RepliesHandled
    <3> QED BY <2>3, <3>2, <3>4 DEF R!Ask, Stream
  <2>4. CASE R!AskFails \/ R!Return
    BY <2>4 DEF R!AskFails, R!Return, R!more, Stream
  <2>5. CASE UNCHANGED stream
    BY <2>5 DEF stream, Stream
  <2>6. CASE rpc' = "idle" /\ UNCHANGED <<symbols, asked, seen, results, queue>>
    BY <2>6 DEF Stream
  <2> QED BY <1>3, <2>2, <2>3, <2>4, <2>5, <2>6, StreamSteps
<1> QED BY <1>1, <1>2, <1>3, StreamAlone

(* However a reflecting server splits its answers, and however often the   *)
(* download is taken up again, the schema has each file at most once.      *)
THEOREM FilesComeOnce == Spec => []R!NoDuplicates
<1>1. Init => Shape /\ Stream
  BY NoIndices DEF Init, R!Init, Shape, Stream, Fresh
<1>2. Shape /\ Stream /\ [Next]_vars => (Shape /\ Stream)'
  BY ShapeKept, StreamKept
<1>3. Stream => R!NoDuplicates
  BY DEF Stream, R!NoDuplicates
<1> QED BY <1>1, <1>2, <1>3, PTL DEF Spec

-----------------------------------------------------------------------------
(* The schemas.                                                            *)

(* The stream asks for the services of one poller until it is done.        *)
LEMMA OfPollerKept ==
  ASSUME Shape, OfPoller, [Next]_vars
  PROVE  OfPoller'
<1>1. CASE Restart
  BY <1>1 DEF Restart, OfPoller
<1>2. CASE UNCHANGED stream /\ Load
  BY <1>2 DEF Load, Shape, Fresh, stream, OfPoller
<1>3. CASE UNCHANGED stream /\ UNCHANGED conf
  BY <1>3 DEF stream, OfPoller, pollers, symbolsOf
<1>4. ASSUME NEW p \in DOMAIN w, Watch(p)
      PROVE  OfPoller'
  <2>1. UNCHANGED conf /\ p \in pollers
    BY <1>4, WatchSeen DEF Shape
  <2>2. pollers' = pollers /\ \A q : symbolsOf(q)' = symbolsOf(q)
    BY <2>1 DEF pollers, symbolsOf
  <2>3. CASE p.source.kind = "reflection" /\ R!Begin(symbolsOf(p))
    BY <2>1, <2>2, <2>3 DEF R!Begin, OfPoller
  <2>4. CASE R!Ask \/ R!AskFails \/ R!Return
    BY <2>2, <2>4 DEF R!Ask, R!AskFails, R!Return, OfPoller
  <2>5. CASE UNCHANGED stream \/ rpc' = "idle"
    BY <2>2, <2>5 DEF stream, OfPoller
  <2> QED BY <1>4, <2>3, <2>4, <2>5, StreamSteps
<1>5. Load \/ UNCHANGED conf \/ Restart \/ \E p \in DOMAIN w : Watch(p)
  BY DEF Next, Main, OpenCache, AddWatcher, Created, CloseCache, StopWatchers, NewWatcher,
         CacheFails, SyncOthers, Cancel, Crash, NewWatcherFails, SourceFails, Save, Expire, vars,
         startup
<1> QED BY <1>1, <1>2, <1>3, <1>4, <1>5, StreamAlone

(* Each symbol that is asked for brings its file with all it imports.      *)
LEMMA AskedWholeKept ==
  ASSUME WholeReplies, Shape, Stream, AskedWhole, [Next]_vars
  PROVE  AskedWhole'
<1>1. CASE UNCHANGED stream
  BY <1>1 DEF stream, AskedWhole
<1>2. CASE Restart
  BY <1>2 DEF Restart, AskedWhole
<1>3. ASSUME NEW p \in DOMAIN w, Watch(p)
      PROVE  AskedWhole'
  <2>1. CASE R!Begin(symbolsOf(p))
    BY <2>1 DEF R!Begin, AskedWhole
  <2>2. CASE R!Ask
    <3>1. asked # symbols
      BY <2>2 DEF R!Ask, R!more, Stream
    <3>2. PICK sym \in symbols \ asked :
             /\ \E fs \in R!replies(FileOf[sym]) : R!handleFiles(fs)
             /\ asked' = asked \cup {sym}
      BY <2>2, <3>1 DEF R!Ask
    <3>3. FileOf[sym] \in Files
      BY ReflectionAssumption DEF Stream
    <3>4. PICK fs \in R!replies(FileOf[sym]) : seen' = seen \cup fs
      BY <3>1, <3>2, <3>3, RepliesHandled
    <3>5. R!Closure[FileOf[sym]] \subseteq fs \cup seen
      BY <3>4 DEF R!replies
    <3> QED BY <3>2, <3>4, <3>5 DEF AskedWhole
  <2>3. CASE UNCHANGED stream \/ R!AskFails \/ R!Return
             \/ UNCHANGED <<symbols, asked, seen, results, queue>>
    BY <2>3 DEF stream, R!AskFails, R!Return, AskedWhole
  <2> QED BY <1>3, <2>1, <2>2, <2>3, StreamSteps
<1> QED BY <1>1, <1>2, <1>3, StreamAlone

(* files has, for every service configured with the source of p, the       *)
(* service's file with all that it imports.                                *)
WholeFor(p, files) == \A svc \in symbolsOf(p) : R!Closure[FileOf[svc]] \subseteq files

(* What a watcher takes for its schema is whole: what was downloaded, and  *)
(* what was in the cache.                                                  *)
LEMMA TakesWhole ==
  ASSUME Schemas, NEW p \in DOMAIN w, Watch(p)
  PROVE  \/ UNCHANGED <<w, schema>>
         \/ \E files : WholeFor(p, files) /\ ready(p, files)
<1>1. /\ p \in pollers /\ conf = LoadConfig(ext) /\ DOMAIN conf.services \subseteq Symbols
      /\ \A q \in pollers : p.source.kind = q.source.kind => p = q
  BY WatchSeen, StartedPollers DEF Schemas, Shape, alive, Fresh
<1>2. \A svc \in symbolsOf(p) : FileOf[svc] \in Files
  BY <1>1, ReflectionAssumption DEF symbolsOf
<1>3. CASE Download(p)
  <2>1. WholeFor(p, Files)
    BY <1>2, ClosureInFiles DEF WholeFor
  <2>2. WholeFor(p, UNION {R!Closure[FileOf[svc]] : svc \in symbolsOf(p)})
    BY DEF WholeFor
  <2> QED BY <1>3, <2>1, <2>2 DEF Download, downloaded
<1>4. CASE Reflect(p)
  <2>1. CASE UNCHANGED startup
    BY <2>1 DEF startup
  <2>2. CASE rpc = "ok" /\ downloaded(p, {f \in Files : results[f] > 0})
    <3>1. symbols = symbolsOf(p) /\ asked = symbols
      BY <1>1, <1>4, <2>2 DEF Reflect, Schemas, OfPoller, Stream
    <3>2. WholeFor(p, {f \in Files : results[f] > 0})
      BY <3>1 DEF Schemas, Stream, AskedWhole, WholeFor
    <3> QED BY <2>2, <3>2 DEF downloaded
  <2> QED BY <1>4, <2>1, <2>2 DEF Reflect
<1>5. CASE LoadFromCache(p)
  <2>1. p.source \in DOMAIN saved
    BY <1>5 DEF LoadFromCache, inCache
  <2>2. WholeFor(p, saved[p.source])
    BY <1>1, <2>1 DEF Schemas, SavedWhole, WholeFor, symbolsOf
  <2> QED BY <1>5, <2>2 DEF LoadFromCache
<1> QED BY <1>3, <1>4, <1>5 DEF Watch

(* The cache keeps whole schemas, over restarts too: what is saved is the  *)
(* schema of a watcher that is ready.                                      *)
LEMMA SavedWholeKept ==
  ASSUME Schemas, [Next]_vars
  PROVE  SavedWhole'
<1>1. UNCHANGED ext
  BY DEF Next, Main, Load, OpenCache, AddWatcher, Created, CloseCache, StopWatchers, NewWatcher,
         CacheFails, SyncOthers, Cancel, Crash, Restart, NewWatcherFails, SourceFails, Watch,
         Download, Reflect, LoadFromCache, downloaded, Save, Expire, vars, startup
<1>2. CASE UNCHANGED saved
  BY <1>1, <1>2 DEF Schemas, SavedWhole
<1>3. ASSUME NEW p \in DOMAIN w, Save(p), saved' = put(saved, p.source, schema[p])
      PROVE  SavedWhole'
  <2>1. pc \notin Fresh
    BY <1>3 DEF Save, alive, Fresh
  <2>2. /\ p \in pollers /\ conf = LoadConfig(ext)
        /\ \A q \in pollers : p.source.kind = q.source.kind => p = q
    BY <1>3, <2>1, StartedPollers DEF Schemas, Shape
  <2>3. /\ DOMAIN saved' = DOMAIN saved \cup {p.source}
        /\ \A src \in DOMAIN saved' :
              saved'[src] = IF src = p.source THEN schema[p] ELSE saved[src]
    BY <1>3 DEF put
  <2>4. \A svc \in DOMAIN conf.services :
           conf.services[svc].descriptors = p => R!Closure[FileOf[svc]] \subseteq schema[p]
    BY <1>3 DEF Save, Schemas, SchemasWhole
  <2>5. \A svc \in DOMAIN conf.services :
           conf.services[svc].descriptors.source = p.source => conf.services[svc].descriptors = p
    BY <2>2 DEF pollers
  <2> QED BY <1>1, <2>2, <2>3, <2>4, <2>5 DEF Schemas, SavedWhole
<1>4. ASSUME NEW src \in DOMAIN saved, Expire(src)
      PROVE  SavedWhole'
  BY <1>1, <1>4 DEF Expire, Schemas, SavedWhole
<1>5. \/ UNCHANGED saved
      \/ \E p \in DOMAIN w : Save(p) /\ saved' = put(saved, p.source, schema[p])
      \/ \E src \in DOMAIN saved : Expire(src)
  <2>1. CASE \E p \in DOMAIN w : Watch(p)
    BY <2>1, WatchSeen
  <2>2. CASE Caches
    BY <2>2 DEF Caches, Save
  <2>3. CASE ~(Caches \/ \E p \in DOMAIN w : Watch(p))
    BY <2>3 DEF Caches, Next, Main, Load, OpenCache, AddWatcher, Created, CloseCache,
           StopWatchers, NewWatcher, CacheFails, SyncOthers, Cancel, Crash, Restart,
           NewWatcherFails, SourceFails, vars, startup, caching
  <2> QED BY <2>1, <2>2, <2>3
<1> QED BY <1>2, <1>3, <1>4, <1>5

(* A watcher that is ready goes on having a whole schema.                  *)
LEMMA SchemasWholeKept ==
  ASSUME Schemas, [Next]_vars
  PROVE  SchemasWhole'
<1>1. CASE DOMAIN w' = {}
  BY <1>1 DEF SchemasWhole
<1>2. CASE OpenCache
  BY <1>2 DEF OpenCache, SchemasWhole
<1>3. CASE UNCHANGED <<conf, schema>> /\ DOMAIN w' = DOMAIN w
           /\ \A p \in DOMAIN w : w'[p] = "ready" => w[p] = "ready"
  BY <1>3 DEF Schemas, SchemasWhole
<1>4. ASSUME NEW p \in DOMAIN w, Watch(p)
      PROVE  SchemasWhole'
  <2>1. UNCHANGED conf
    BY <1>4, WatchSeen
  <2>2. CASE UNCHANGED <<w, schema>>
    BY <2>1, <2>2 DEF Schemas, SchemasWhole
  <2>3. ASSUME NEW files, WholeFor(p, files), ready(p, files)
        PROVE  SchemasWhole'
    <3>1. DOMAIN w' = DOMAIN w /\ \A q \in DOMAIN w \ {p} : w'[q] = w[q] /\ schema'[q] = schema[q]
      BY <2>3 DEF ready, Schemas, Shape
    <3>2. schema'[p] = files
      BY <2>3 DEF ready, Schemas, Shape
    <3>3. \A svc \in DOMAIN conf.services :
             conf.services[svc].descriptors = p => R!Closure[FileOf[svc]] \subseteq files
      BY <2>3 DEF WholeFor, symbolsOf
    <3> QED BY <2>1, <3>1, <3>2, <3>3 DEF Schemas, SchemasWhole
  <2> QED BY <1>4, <2>2, <2>3, TakesWhole
<1>5. CASE Load \/ Restart
  BY <1>1, <1>5, NoIndices DEF Load, Restart, reset, Schemas, Shape, Fresh
<1>6. CASE \E p \in todo : NewWatcher(p)
  BY <1>3, <1>6 DEF NewWatcher
<1>7. CASE StopWatchers
  BY <1>3, <1>7 DEF StopWatchers
<1>8. CASE UNCHANGED <<conf, schema, w>>
  BY <1>3, <1>8
<1>9. Load \/ OpenCache \/ Restart \/ StopWatchers \/ (\E p \in todo : NewWatcher(p))
      \/ (\E p \in DOMAIN w : Watch(p)) \/ UNCHANGED <<conf, schema, w>>
  BY DEF Next, Main, AddWatcher, Created, CloseCache, CacheFails, SyncOthers, Cancel, Crash,
         NewWatcherFails, SourceFails, Save, Expire, vars, startup
<1> QED BY <1>2, <1>4, <1>5, <1>6, <1>7, <1>8, <1>9

(* With reflecting servers that send every import, the watcher of a source *)
(* is ready only with the file of each service configured with the source  *)
(* and with all it imports: whether a file, a module or a reflecting       *)
(* server was asked, or, after a failure or a restart, the cache.          *)
THEOREM SchemasAreWhole ==
  ASSUME WholeReplies
  PROVE  Spec => []SchemasWhole
<1>1. Init => Schemas
  BY NoIndices DEF Init, R!Init, Schemas, Shape, Stream, OfPoller, AskedWhole, SavedWhole,
                   SchemasWhole, Fresh
<1>2. Schemas /\ [Next]_vars => Schemas'
  BY ShapeKept, StreamKept, OfPollerKept, AskedWholeKept, SavedWholeKept, SchemasWholeKept
     DEF Schemas
<1>3. Schemas => SchemasWhole
  BY DEF Schemas
<1> QED BY <1>1, <1>2, <1>3, PTL DEF Spec

-----------------------------------------------------------------------------
(* The second part: LoadConfig.                                            *)

(* Induction on numbers, for sets: that of the least number that is not in *)
(* S there is none.                                                        *)
LEMMA NumbersInduct ==
    ASSUME NEW S, 0 \in S, \A n \in Nat : n \in S => n + 1 \in S
    PROVE  \A n \in Nat : n \in S
<1> DEFINE less == {p \in Nat \X Nat : p[1] < p[2]}
<1> SUFFICES ASSUME Nat \ S # {} PROVE FALSE
  BY Zenon
<1>1. IsWellFoundedOn(less, Nat)
  BY NatLessThanWellFounded DEF OpToRel
<1> HIDE DEF less
<1>2. PICK x \in Nat \ S : \A y \in Nat \ S : ~(<<y, x>> \in less)
  BY <1>1, WFMin, Nat \ S \subseteq Nat
<1> USE DEF less
<1>3. x # 0 /\ x - 1 \in Nat /\ x - 1 < x
  BY <1>2
<1>4. x - 1 \in S
  BY <1>2, <1>3
<1>5. (x - 1) + 1 \in S
  BY <1>3, <1>4
<1> QED BY <1>2, <1>5

-----------------------------------------------------------------------------
(* What becomes of the TLS settings.                                       *)

(* A version that is valid is known, and so is the default.                *)
LEMMA VersionsKnown ==
    ASSUME NEW v, NEW absent, minVersionValid(v, absent), NEW d \in 10 .. 13
    PROVE  minVersion(v, absent, d) \in 10 .. 13
BY DEF minVersionValid, minVersion, tlsVersion

(* Suites that are valid are known ones.                                   *)
LEMMA SuitesKnown ==
    ASSUME NEW c \in {Nil} \cup externalCiphersConfig, c = Nil \/ ciphersValid(c)
    PROVE  suites(c) \in SUBSET AllSuites
<1>1. CASE c = Nil
  BY <1>1, TLSAssumption DEF suites
<1>2. CASE c # Nil
  BY <1>2 DEF suites, ciphersValid, parseCipherSuites
<1> QED BY <1>1, <1>2

(* What is made of a valid stanza for a client.                            *)
LEMMA ClientTLSTyped ==
    ASSUME NEW c \in {Nil} \cup externalClientTLSConfig, clientTLSValid(c)
    PROVE  configureClientTLS(c) \in ClientTLS
<1>1. CASE c = Nil
  BY <1>1, TLSAssumption DEF configureClientTLS, ClientTLS, defaultClientMinTLSVersion
<1>2. CASE c # Nil
  <2>1. (IF c.cert = Nil THEN Nil ELSE <<c.cert, c.key>>) \in {Nil} \cup Pairs
    BY <1>2 DEF clientTLSValid, loadCertificateAndKey
  <2>2. minVersion(c.minVersion, Nil, defaultClientMinTLSVersion) \in 10 .. 13
    BY <1>2, VersionsKnown DEF clientTLSValid, defaultClientMinTLSVersion
  <2>3. suites(c.ciphers) \in SUBSET AllSuites
    BY <1>2, SuitesKnown DEF clientTLSValid, externalClientTLSConfig
  <2>4. skips(c) \in BOOLEAN
    BY DEF skips
  <2>5. (IF skips(c) THEN Nil ELSE c.cacert) \in {Nil} \cup CAFiles
    BY <1>2 DEF clientTLSValid, loadCertificatePool
  <2> QED BY <1>2, <2>1, <2>2, <2>3, <2>4, <2>5 DEF configureClientTLS, ClientTLS
<1> QED BY <1>1, <1>2

(* What is made of a valid stanza for the listener.                        *)
LEMMA ServerTLSTyped ==
    ASSUME NEW c \in {Nil} \cup externalServerTLSConfig, serverTLSValid(c), c # Nil
    PROVE  configureServerTLS(c) \in ServerTLS
<1>1. <<c.cert, c.key>> \in Pairs
  BY DEF serverTLSValid, loadCertificateAndKey
<1>2. minVersion(c.minVersion, "", defaultServerMinTLSVersion) \in 10 .. 13
  <2>1. minVersionValid(c.minVersion, "")
    BY DEF serverTLSValid
  <2>2. defaultServerMinTLSVersion \in 10 .. 13
    BY DEF defaultServerMinTLSVersion
  <2> DEFINE absent == ""
  <2>3. minVersionValid(c.minVersion, absent)
    BY <2>1
  <2> HIDE DEF absent
  <2>4. minVersion(c.minVersion, absent, defaultServerMinTLSVersion) \in 10 .. 13
    BY <2>2, <2>3, VersionsKnown
  <2> QED BY <2>4 DEF absent
<1>3. suites(c.ciphers) \in SUBSET AllSuites
  BY SuitesKnown DEF serverTLSValid, externalServerTLSConfig
<1> QED BY <1>1, <1>2, <1>3 DEF configureServerTLS, ServerTLS

(* Two stanzas are merged into a stanza.                                   *)
LEMMA MergedTyped ==
    ASSUME NEW c \in externalClientTLSConfig, NEW d \in externalClientTLSConfig
    PROVE  mergeClientTLSConfig(c, d) \in externalClientTLSConfig
<1>1. c # Nil /\ d # Nil
  BY NilAssumption
<1>2. DOMAIN c = {"minVersion", "ciphers", "cacert", "skipVerify", "cert", "key", "serverName"}
  BY DEF externalClientTLSConfig
<1>3. mergeClientTLSConfig(c, d) =
          [f \in DOMAIN c |-> IF c[f] = Nil /\ f # "serverName" THEN d[f] ELSE c[f]]
  BY <1>1 DEF mergeClientTLSConfig
<1> QED BY <1>2, <1>3 DEF externalClientTLSConfig

(* The settings in force are a stanza, if there are any.                   *)
LEMMA MergeTyped ==
    ASSUME NEW c \in {Nil} \cup externalClientTLSConfig, NEW d \in {Nil} \cup externalClientTLSConfig
    PROVE  mergeClientTLSConfig(c, d) \in {Nil} \cup externalClientTLSConfig
  BY MergedTyped DEF mergeClientTLSConfig

-----------------------------------------------------------------------------
(* The loops of LoadConfig.                                                *)

(* The turns of the loop over a backend's services.                        *)
ServiceTurns(g, acc, svcs, c) ==
    g = [n \in 0 .. Len(svcs) |-> IF n = 0 THEN acc ELSE addService(g[n - 1], svcs[n], c)]

(* The loop over a backend's services is what its equation says.           *)
LEMMA LoopOfServices ==
    ASSUME NEW acc, NEW svcs, NEW c, Len(svcs) \in Nat
    PROVE  \E g : ServiceTurns(g, acc, svcs, c) /\ addServices(acc, svcs, c) = g[Len(svcs)]
<1> DEFINE step(x, n) == addService(x, svcs[n], c)
           part(g, n) == g = [i \in 0 .. n |-> IF i = 0 THEN acc ELSE step(g[i - 1], i)]
           S == {n \in Nat : \E g : part(g, n)}
           f == CHOOSE g : part(g, Len(svcs))
<1> HIDE DEF step
<1>1. 0 \in S
  <2>1. part([i \in 0 .. 0 |-> acc], 0)
    OBVIOUS
  <2> QED BY <2>1
<1>2. ASSUME NEW n \in Nat, n \in S PROVE n + 1 \in S
  <2>1. PICK g : part(g, n)
    BY <1>2
  <2> DEFINE k == [i \in 0 .. n + 1 |-> IF i = n + 1 THEN step(g[n], n + 1) ELSE g[i]]
  <2>2. \A i \in 0 .. n + 1 : k[i] = IF i = 0 THEN acc ELSE step(k[i - 1], i)
    BY <2>1
  <2>3. part(k, n + 1)
    BY <2>2
  <2>4. \E x : part(x, n + 1)
    <3> HIDE DEF k, part
    <3> QED BY <2>3
  <2> QED BY <2>4
<1>3. \A n \in Nat : n \in S
  <2> HIDE DEF S
  <2> QED BY <1>1, <1>2, NumbersInduct
<1>4. part(f, Len(svcs))
  BY <1>3, Zenon
<1>5. addServices(acc, svcs, c) = f[Len(svcs)]
  BY Zenon DEF addServices, step
<1> HIDE DEF f
<1> QED BY <1>4, <1>5, Zenon DEF step, ServiceTurns

(* What the loop over the backends starts from.                            *)
NothingLoaded == [services |-> << >>, pollers |-> << >>, err |-> FALSE]

(* The loop over the backends is what its equation says.                   *)
LEMMA LoopOfBackends ==
    ASSUME NEW e, Len(e.backends) \in Nat
    PROVE  \E g : /\ g = [n \in 0 .. Len(e.backends) |->
                            IF n = 0 THEN NothingLoaded
                            ELSE loadBackend(g[n - 1], e.backends[n], e)]
                  /\ loadBackends(e) = g[Len(e.backends)]
<1> DEFINE L == Len(e.backends)
           b == NothingLoaded
           step(x, n) == loadBackend(x, e.backends[n], e)
           part(g, n) == g = [i \in 0 .. n |-> IF i = 0 THEN b ELSE step(g[i - 1], i)]
           S == {n \in Nat : \E g : part(g, n)}
           f == CHOOSE g : part(g, L)
<1> HIDE DEF step, b
<1>1. 0 \in S
  <2>1. part([i \in 0 .. 0 |-> b], 0)
    OBVIOUS
  <2> QED BY <2>1
<1>2. ASSUME NEW n \in Nat, n \in S PROVE n + 1 \in S
  <2>1. PICK g : part(g, n)
    BY <1>2
  <2> DEFINE k == [i \in 0 .. n + 1 |-> IF i = n + 1 THEN step(g[n], n + 1) ELSE g[i]]
  <2>2. \A i \in 0 .. n + 1 : k[i] = IF i = 0 THEN b ELSE step(k[i - 1], i)
    BY <2>1
  <2>3. part(k, n + 1)
    BY <2>2
  <2>4. \E x : part(x, n + 1)
    <3> HIDE DEF k, part
    <3> QED BY <2>3
  <2> QED BY <2>4
<1>3. \A n \in Nat : n \in S
  <2> HIDE DEF S
  <2> QED BY <1>1, <1>2, NumbersInduct
<1>4. part(f, L)
  BY <1>3, Zenon
<1>5. loadBackends(e) = f[L]
  BY Zenon DEF loadBackends, step, b, NothingLoaded
<1> HIDE DEF f
<1> QED BY <1>4, <1>5, Zenon DEF step, b

IsMap(map) == map = [k \in DOMAIN map |-> map[k]]

Record(acc) ==
    /\ acc = [services |-> acc.services, pollers |-> acc.pollers, err |-> acc.err]
    /\ IsMap(acc.services)

(* The loop over a backend's services adds them with one configuration; if *)
(* one was there before, from this backend or another, that is an error.   *)
LEMMA ServicesAdded ==
    ASSUME NEW acc, Record(acc), NEW svcs \in Seq(STRING), NEW c
    PROVE  LET r == addServices(acc, svcs, c)
           IN  /\ Record(r) /\ r.pollers = acc.pollers
               /\ ~r.err => /\ ~acc.err
                            /\ DOMAIN r.services = DOMAIN acc.services \cup ToSet(svcs)
                            /\ \A s \in ToSet(svcs) :
                                  s \notin DOMAIN acc.services /\ r.services[s] = c
                            /\ \A s \in DOMAIN acc.services : r.services[s] = acc.services[s]
<1> DEFINE L == Len(svcs)
<1>1. L \in Nat /\ DOMAIN svcs = 1 .. L
  BY LenProperties
<1>0. PICK g : ServiceTurns(g, acc, svcs, c) /\ addServices(acc, svcs, c) = g[L]
  BY <1>1, LoopOfServices
<1>2. /\ g = [n \in 0 .. L |-> IF n = 0 THEN acc ELSE addService(g[n - 1], svcs[n], c)]
      /\ addServices(acc, svcs, c) = g[L]
  BY <1>0 DEF ServiceTurns
<1> HIDE DEF L
<1> DEFINE met(n) == {svcs[i] : i \in 1 .. n}
           P(n, r) == /\ Record(r) /\ r.pollers = acc.pollers
                      /\ ~r.err => /\ ~acc.err
                                   /\ DOMAIN r.services = DOMAIN acc.services \cup met(n)
                                   /\ \A s \in met(n) :
                                         s \notin DOMAIN acc.services /\ r.services[s] = c
                                   /\ \A s \in DOMAIN acc.services :
                                         r.services[s] = acc.services[s]
           S == {n \in Nat : n <= L => P(n, g[n])}
<1>3. 0 \in S
  <2>1. g[0] = acc
    BY <1>1, <1>2
  <2>2. met(0) = {}
    OBVIOUS
  <2> QED BY <2>1, <2>2
<1>4. ASSUME NEW n \in Nat, n \in S PROVE n + 1 \in S
  <2> SUFFICES ASSUME n + 1 <= L PROVE P(n + 1, g[n + 1])
    OBVIOUS
  <2> DEFINE a == g[n]  s0 == svcs[n + 1]  r == g[n + 1]
  <2>1. n <= L /\ n + 1 \in 0 .. L /\ n + 1 # 0 /\ (n + 1) - 1 = n
    BY <1>1
  <2>2. r = addService(a, s0, c)
    BY <1>2, <2>1
  <2>3. P(n, a)
    BY <1>4, <2>1
  <2>4. met(n + 1) = met(n) \cup {s0}
    OBVIOUS
  <2> HIDE DEF a, r, s0, met
  <2>5. CASE s0 \in DOMAIN a.services
    <3>1. r = [services |-> a.services, pollers |-> a.pollers, err |-> TRUE]
      BY <2>2, <2>3, <2>5 DEF addService, Record
    <3> QED BY <2>3, <3>1 DEF Record, r
  <2>6. CASE s0 \notin DOMAIN a.services
    <3> DEFINE m == put(a.services, s0, c)
    <3>1. r = [services |-> m, pollers |-> a.pollers, err |-> a.err]
      <4> HIDE DEF m
      <4>1. r = [a EXCEPT !.services = m]
        BY <2>2, <2>6 DEF addService, m
      <4> QED BY <2>3, <4>1 DEF Record
    <3>2. /\ DOMAIN m = DOMAIN a.services \cup {s0}
          /\ m[s0] = c /\ IsMap(m)
          /\ \A s \in DOMAIN a.services : m[s] = a.services[s]
      BY <2>6 DEF put, IsMap
    <3> HIDE DEF m
    <3>3. Record(r) /\ r.pollers = acc.pollers
      BY <2>3, <3>1, <3>2 DEF Record
    <3>4. ASSUME ~r.err
          PROVE  /\ ~acc.err
                 /\ DOMAIN r.services = DOMAIN acc.services \cup met(n + 1)
                 /\ \A s \in met(n + 1) : s \notin DOMAIN acc.services /\ r.services[s] = c
                 /\ \A s \in DOMAIN acc.services : r.services[s] = acc.services[s]
      BY <2>3, <2>4, <2>6, <3>1, <3>2, <3>4
    <3> QED BY <3>3, <3>4 DEF r
  <2> QED BY <2>5, <2>6
<1>5. \A n \in Nat : n \in S
  <2> HIDE DEF S
  <2> QED BY <1>3, <1>4, NumbersInduct
<1>6. P(L, g[L])
  BY <1>1, <1>5
<1>7. met(L) = ToSet(svcs)
  BY <1>1 DEF ToSet
<1> QED BY <1>2, <1>6, <1>7

sourceOf(b) == newDescriptorSource(b.descriptors, b.routeTo)

(* What a service gets from the i-th backend, and a source from the first  *)
(* backend that has it.                                                    *)
Made(e, acc, i) ==
    LET b == e.backends[i]
    IN  [baseURL |-> b.routeTo, client |-> makeHTTPClient(b, e), options |-> options(b),
         descriptors |-> acc.pollers[sourceOf(b)], cacheable |-> isCacheable(sourceOf(b))]

MadePoller(e, i, id) ==
    LET b == e.backends[i]
    IN  [source |-> sourceOf(b), client |-> makeHTTPClient(b, e), options |-> options(b), id |-> id]

Listed(e, n) == UNION {ToSet(e.backends[i].services) : i \in 1 .. n}

(* What the first n backends come to: they are valid, and every service    *)
(* that they list has what its backend says, with the poller of its source.*)
Loaded(e, n, acc) ==
    /\ Record(acc)
    /\ ~acc.err =>
          /\ \A i \in 1 .. n : /\ backendValid(e.backends[i], e)
                               /\ sourceOf(e.backends[i]) \in DOMAIN acc.pollers
          /\ DOMAIN acc.services = Listed(e, n)
          /\ \A i \in 1 .. n : \A s \in ToSet(e.backends[i].services) :
                acc.services[s] = Made(e, acc, i)
          /\ \A src \in DOMAIN acc.pollers : \E i \in 1 .. n, id \in Nat :
                src = sourceOf(e.backends[i]) /\ acc.pollers[src] = MadePoller(e, i, id)
          /\ IsFiniteSet(DOMAIN acc.pollers)

(* One more backend.                                                       *)
LEMMA BackendLoaded ==
    ASSUME NEW e \in externalGatewayConfig, NEW n \in Nat, n + 1 \in 1 .. Len(e.backends), NEW acc,
           Loaded(e, n, acc)
    PROVE  Loaded(e, n + 1, loadBackend(acc, e.backends[n + 1], e))
<1> DEFINE b == e.backends[n + 1]
           src == sourceOf(b)
           client == makeHTTPClient(b, e)
           poller == pollerFor(acc, src, client, options(b))
           c == [baseURL |-> b.routeTo, client |-> client, options |-> options(b),
                 descriptors |-> poller, cacheable |-> isCacheable(src)]
           map == put(acc.pollers, src, poller)
           a == [acc EXCEPT !.pollers = map]
           r == loadBackend(acc, b, e)
<1>0. Record(acc)
  BY DEF Loaded
<1>1. b.services \in Seq(STRING)
  <2>1. e.backends \in Seq(externalBackendConfig)
    BY DEF externalGatewayConfig
  <2>2. b \in externalBackendConfig
    BY <2>1, ElementOfSeq
  <2> QED BY <2>2 DEF externalBackendConfig
<1>2. CASE acc.err \/ ~backendValid(b, e)
  <2>1. r = [acc EXCEPT !.err = TRUE]
    BY <1>2 DEF loadBackend
  <2>2. r = [services |-> acc.services, pollers |-> acc.pollers, err |-> TRUE]
    BY <1>0, <2>1 DEF Record
  <2> HIDE DEF r
  <2> QED BY <2>2 DEF Loaded, Record, r
<1>3. CASE ~acc.err /\ backendValid(b, e)
  <2>1. r = addServices(a, b.services, c)
    BY <1>3 DEF loadBackend, sourceOf
  <2>2. a = [services |-> acc.services, pollers |-> map, err |-> acc.err]
    <3> HIDE DEF map
    <3> QED BY <1>0 DEF Record
  <2>3. Record(a) /\ a.services = acc.services /\ a.pollers = map /\ ~a.err
    <3> HIDE DEF a, map
    <3> QED BY <1>0, <1>3, <2>2 DEF Record
  <2> HIDE DEF a, r, c
  <2>4. /\ Record(r) /\ r.pollers = map
        /\ ~r.err => /\ DOMAIN r.services = DOMAIN acc.services \cup ToSet(b.services)
                     /\ \A s \in ToSet(b.services) :
                           s \notin DOMAIN acc.services /\ r.services[s] = c
                     /\ \A s \in DOMAIN acc.services : r.services[s] = acc.services[s]
    <3> DEFINE svcs == b.services
    <3> HIDE DEF map, svcs
    <3>1. svcs \in Seq(STRING) /\ r = addServices(a, svcs, c)
      BY <1>1, <2>1 DEF svcs
    <3> QED BY <2>3, <3>1, ServicesAdded DEF svcs
  <2>5. /\ DOMAIN map = DOMAIN acc.pollers \cup {src} /\ map[src] = poller
        /\ \A x \in DOMAIN acc.pollers : map[x] = acc.pollers[x]
    BY DEF put, pollerFor
  <2> HIDE DEF map
  <2> SUFFICES ASSUME ~r.err PROVE Loaded(e, n + 1, r)
    BY <2>4 DEF Loaded, r
  <2>6. \A i \in 1 .. n + 1 : i \in 1 .. n \/ i = n + 1
    OBVIOUS
  <2>7. \A i \in 1 .. n + 1 : /\ backendValid(e.backends[i], e)
                             /\ sourceOf(e.backends[i]) \in DOMAIN r.pollers
    BY <1>3, <2>4, <2>5, <2>6 DEF Loaded
  <2>8. DOMAIN r.services = Listed(e, n + 1)
    <3>1. Listed(e, n + 1) = Listed(e, n) \cup ToSet(b.services)
      BY <2>6 DEF Listed
    <3> QED BY <1>3, <2>4, <3>1 DEF Loaded
  <2>9. ASSUME NEW i \in 1 .. n + 1, NEW s \in ToSet(e.backends[i].services)
        PROVE  r.services[s] = Made(e, r, i)
    <3>1. CASE i \in 1 .. n
      <4>1. s \in DOMAIN acc.services /\ acc.services[s] = Made(e, acc, i)
        BY <1>3, <3>1 DEF Loaded, Listed
      <4>2. r.pollers[sourceOf(e.backends[i])] = acc.pollers[sourceOf(e.backends[i])]
        BY <1>3, <2>4, <2>5, <3>1 DEF Loaded
      <4> QED BY <2>4, <4>1, <4>2 DEF Made
    <3>2. CASE i = n + 1
      <4>1. r.services[s] = c
        BY <2>4, <3>2
      <4>2. r.pollers[src] = poller
        BY <2>4, <2>5
      <4> HIDE DEF poller
      <4> QED BY <3>2, <4>1, <4>2 DEF Made, c
    <3> QED BY <2>6, <3>1, <3>2
  <2>10. ASSUME NEW x \in DOMAIN r.pollers
         PROVE  \E i \in 1 .. n + 1, id \in Nat :
                    x = sourceOf(e.backends[i]) /\ r.pollers[x] = MadePoller(e, i, id)
    <3>1. CASE x \in DOMAIN acc.pollers
      <4>1. PICK i \in 1 .. n, id \in Nat :
                x = sourceOf(e.backends[i]) /\ acc.pollers[x] = MadePoller(e, i, id)
        BY <1>3, <3>1 DEF Loaded
      <4>2. i \in 1 .. n + 1 /\ r.pollers[x] = acc.pollers[x]
        BY <2>4, <2>5, <3>1
      <4> QED BY <4>1, <4>2
    <3>2. CASE x \notin DOMAIN acc.pollers
      <4>1. x = src
        BY <2>4, <2>5, <3>2
      <4> DEFINE id == Cardinality(DOMAIN acc.pollers)
      <4>2. id \in Nat
        BY <1>3, FS_CardinalityType DEF Loaded
      <4> HIDE DEF id
      <4>3. poller = MadePoller(e, n + 1, id)
        BY <3>2, <4>1 DEF pollerFor, MadePoller, id
      <4>4. n + 1 \in 1 .. n + 1 /\ r.pollers[x] = poller
        BY <2>4, <2>5, <4>1
      <4> QED BY <4>1, <4>2, <4>3, <4>4
    <3> QED BY <3>1, <3>2
  <2>11. IsFiniteSet(DOMAIN r.pollers)
    BY <1>3, <2>4, <2>5, FS_AddElement DEF Loaded
  <2> QED BY <2>4, <2>7, <2>8, <2>9, <2>10, <2>11 DEF Loaded
<1> QED BY <1>2, <1>3

(* All backends.                                                           *)
LEMMA BackendsLoaded ==
    ASSUME NEW e \in externalGatewayConfig
    PROVE  Loaded(e, Len(e.backends), loadBackends(e)) /\ DOMAIN e.backends = 1 .. Len(e.backends)
<1> DEFINE L == Len(e.backends)
<1>0. e.backends \in Seq(externalBackendConfig)
  BY DEF externalGatewayConfig
<1>1. L \in Nat /\ DOMAIN e.backends = 1 .. L
  BY <1>0, LenProperties
<1>2. PICK g : /\ g = [n \in 0 .. L |-> IF n = 0 THEN NothingLoaded
                                        ELSE loadBackend(g[n - 1], e.backends[n], e)]
               /\ loadBackends(e) = g[L]
  BY <1>1, LoopOfBackends, Zenon
<1> DEFINE S == {n \in Nat : n <= L => Loaded(e, n, g[n])}
<1>3. 0 \in S
  <2>1. g[0] = NothingLoaded
    <3> HIDE DEF L
    <3> QED BY <1>1, <1>2
  <2>2. Loaded(e, 0, NothingLoaded)
    <3>1. Record(NothingLoaded) /\ NothingLoaded.services = << >> /\ NothingLoaded.pollers = << >>
      BY DEF Record, NothingLoaded, IsMap
    <3>2. Listed(e, 0) = {} /\ 1 .. 0 = {}
      BY DEF Listed
    <3> QED BY <3>1, <3>2, FS_EmptySet, NoIndices DEF Loaded
  <2> QED BY <2>1, <2>2
<1>4. ASSUME NEW n \in Nat, n \in S PROVE n + 1 \in S
  <2> SUFFICES ASSUME n + 1 <= L PROVE Loaded(e, n + 1, g[n + 1])
    OBVIOUS
  <2>1. n <= L /\ n + 1 \in 0 .. L /\ n + 1 # 0 /\ (n + 1) - 1 = n /\ n + 1 \in 1 .. L
    <3> HIDE DEF L
    <3> QED BY <1>1
  <2>2. g[n + 1] = loadBackend(g[n], e.backends[n + 1], e)
    <3> HIDE DEF L
    <3> QED BY <1>2, <2>1
  <2>3. Loaded(e, n, g[n])
    BY <1>4, <2>1
  <2> QED BY <2>1, <2>2, <2>3, BackendLoaded
<1>5. \A n \in Nat : n \in S
  <2> HIDE DEF S
  <2> QED BY <1>3, <1>4, NumbersInduct
<1>6. Loaded(e, L, g[L])
  <2> HIDE DEF L
  <2> QED BY <1>1, <1>5
<1> QED BY <1>1, <1>2, <1>6

-----------------------------------------------------------------------------
(* What LoadConfig accepts.                                                *)

cacheables(e) ==
    \E svc \in DOMAIN loadBackends(e).services : loadBackends(e).services[svc].cacheable

(* LoadConfig accepts a file that is valid in all its parts.               *)
LEMMA FileValid ==
    ASSUME NEW e, LoadConfig(e) # Nil
    PROVE  /\ adminValid(e) /\ serverTLSValid(e.listen.tls) /\ clientTLSValid(e.backendTLS)
           /\ ~loadBackends(e).err /\ pollingValid(e.descriptors)
           /\ cacheValid(e.descriptors.cache, cacheables(e))
  BY DEF LoadConfig, cacheables

(* What it makes of such a file.                                           *)
Settings(e) ==
    LET d == e.descriptors
    IN  [listen  |-> IF e.listen.port = Nil THEN Nil
                     ELSE <<IF e.listen.bindAddress = "" THEN "0.0.0.0"
                            ELSE e.listen.bindAddress, e.listen.port>>,
         unixSocket |-> e.listen.unixSocket,
         tls        |-> configureServerTLS(e.listen.tls),
         services   |-> loadBackends(e).services,
         parallelism |-> e.parallelism,
         startupMaxWait  |-> orDefault(d.startupMaxWait, 15),
         pollingPeriod   |-> orDefault(d.pollingPeriod, 900),
         pollingJitter   |-> IF d.pollingJitter = Nil THEN 25 ELSE d.pollingJitter,
         pollingDebounce |-> d.pollingDebounce,
         cache      |-> IF d.cache = {} THEN Nil ELSE CHOOSE c \in d.cache : TRUE,
         admin      |-> loadAdminConfig(e),
         cors       |-> corsOptions(e.origins)]

(* It makes that of every file it accepts.                                 *)
LEMMA FileLoaded ==
    ASSUME NEW e, LoadConfig(e) # Nil
    PROVE  LoadConfig(e) = Settings(e)
  BY Zenon DEF LoadConfig, Settings

(* The client of a backend that is accepted: with TLS for https alone,     *)
(* h2c for http alone, and HTTP/2 where gRPC or reflection needs it.       *)
LEMMA ClientFits ==
    ASSUME NEW e \in externalGatewayConfig, NEW b \in externalBackendConfig, backendValid(b, e)
    PROVE  LET client == makeHTTPClient(b, e)
               http2  == client.tls # Nil \/ client.h2c
           IN  /\ client \in HTTPClient
               /\ (client.tls # Nil) = (b.routeTo.scheme = "https")
               /\ client.h2c => client.tls = Nil
               /\ options(b).protocol = "grpc" => http2
               /\ sourceOf(b).kind = "reflection" => http2
<1> DEFINE client == makeHTTPClient(b, e)
           tls == configureClientTLS(tlsOf(b, e))
<1>0. /\ b.h2c \in {Nil} \cup BOOLEAN /\ b.tls \in {Nil} \cup externalClientTLSConfig
      /\ b.unixSocket \in STRING /\ b.routeTo \in {Nil} \cup URLs
      /\ e.backendTLS \in {Nil} \cup externalClientTLSConfig
  BY DEF externalBackendConfig, externalGatewayConfig, opt
<1>1. usesH2C(b) \in BOOLEAN
  BY <1>0 DEF usesH2C
<1>2. b.routeTo.scheme \in {"http", "https"} /\ (usesH2C(b) => b.routeTo.scheme # "https")
  BY DEF backendValid
<1>3. b.routeTo.scheme = "https" => tls \in ClientTLS
  <2>1. tlsOf(b, e) \in {Nil} \cup externalClientTLSConfig
    BY <1>0, MergeTyped DEF tlsOf
  <2> QED BY <2>1, ClientTLSTyped DEF backendValid
<1>4. client.tls = IF b.routeTo.scheme = "https" THEN tls ELSE Nil
  BY DEF makeHTTPClient
<1>5. client.h2c = usesH2C(b)
  BY DEF makeHTTPClient
<1>6. client.tls \in opt(ClientTLS) /\ (client.tls # Nil <=> b.routeTo.scheme = "https")
  BY <1>3, <1>4, NilAssumption DEF opt
<1>7. client \in HTTPClient
  <2>1. client.serverName \in STRING
    BY <1>0, LiteralsAssumption DEF makeHTTPClient, externalClientTLSConfig
  <2> QED BY <1>0, <1>1, <1>5, <1>6, <2>1 DEF makeHTTPClient, HTTPClient
<1>8. options(b).protocol = "grpc" => client.tls # Nil \/ client.h2c
  <2> SUFFICES ASSUME b.protocol = "grpc" PROVE client.tls # Nil \/ client.h2c
    BY DEF options
  <2>1. b.h2c # FALSE
    BY DEF backendValid
  <2>2. CASE b.routeTo.scheme = "https"
    BY <1>6, <2>2
  <2>3. CASE b.routeTo.scheme = "http"
    BY <1>0, <1>5, <2>1, <2>3 DEF usesH2C
  <2> QED BY <1>2, <2>2, <2>3
<1>9. sourceOf(b).kind = "reflection" => client.tls # Nil \/ client.h2c
  <2> SUFFICES ASSUME sourceOf(b).kind = "reflection" PROVE client.tls # Nil \/ client.h2c
    OBVIOUS
  <2> DEFINE d == b.descriptors
  <2>1. d.file = "" /\ d.module = ""
    BY DEF sourceOf, newDescriptorSource
  <2>2. {f \in {"file", "module"} : d[f] # ""} = {}
    BY <2>1
  <2>3. d.reflection
    <3> DEFINE k == Cardinality({f \in {"file", "module"} : d[f] # ""})
    <3>1. k = 0
      BY <2>2, FS_EmptySet
    <3>2. k + (IF d.reflection THEN 1 ELSE 0) = 1
      BY DEF backendValid, sourceValid
    <3> HIDE DEF d, k
    <3> QED BY <3>1, <3>2
  <2>4. b.routeTo.text = "https" \/ usesH2C(b)
    BY <2>3 DEF backendValid, sourceValid
  <2>5. b.routeTo.text = "https" => b.routeTo.scheme = "https"
    BY <1>0 DEF URLs, backendValid
  <2> QED BY <1>5, <1>6, <2>4, <2>5
<1> QED BY <1>5, <1>6, <1>2, <1>7, <1>8, <1>9

-----------------------------------------------------------------------------
(* The settings that a gateway has are those of its file.                  *)

(* The file stays the same.                                                *)
LEMMA SettingsOfFile == Spec => [](ext \in ExtConfigs /\ (conf # Nil => conf = LoadConfig(ext)))
<1> DEFINE I == ext \in ExtConfigs /\ Shape
<1>1. Init => I
  BY DEF Init, Shape, Fresh, R!Init
<1>2. I /\ [Next]_vars => I'
  <2> SUFFICES ASSUME I, [Next]_vars PROVE I'
    OBVIOUS
  <2>1. Shape'
    BY ShapeKept
  <2>2. ext' = ext
    <3>1. CASE Next
      <4>1. CASE Starts
        BY <4>1 DEF Starts, Load, OpenCache, CacheFails, AddWatcher, Created, NewWatcher, NewWatcherFails
      <4>2. CASE Stops
        BY <4>2 DEF Stops, Cancel, CloseCache, StopWatchers, Crash, Restart
      <4>3. CASE SyncOthers \/ \E src \in sources : conf # Nil /\ SourceFails(src)
        BY <4>3 DEF SyncOthers, SourceFails
      <4>4. CASE \E p \in DOMAIN w : Watch(p)
        BY <4>4, WatchSeen
      <4>5. CASE Caches
        BY <4>5, CachesSeen
      <4> QED BY <3>1, <4>1, <4>2, <4>3, <4>4, <4>5, StepCases
    <3>2. CASE UNCHANGED vars
      BY <3>2 DEF vars, startup, caching
    <3> QED BY <3>1, <3>2
  <2> QED BY <2>1, <2>2
<1>3. I => ext \in ExtConfigs /\ (conf # Nil => conf = LoadConfig(ext))
  BY DEF Shape
<1> HIDE DEF I
<1> QED BY <1>1, <1>2, <1>3, PTL DEF Spec

(* The services of a file that is accepted.                                *)
LEMMA ServicesOfFile ==
    ASSUME NEW e \in externalGatewayConfig, LoadConfig(e) # Nil
    PROVE  LET acc == loadBackends(e)
           IN  /\ LoadConfig(e).services = acc.services /\ IsMap(acc.services)
               /\ \A i \in DOMAIN e.backends :
                     e.backends[i] \in externalBackendConfig /\ backendValid(e.backends[i], e)
               /\ DOMAIN acc.services =
                     UNION {ToSet(e.backends[i].services) : i \in DOMAIN e.backends}
               /\ \A i \in DOMAIN e.backends : \A s \in ToSet(e.backends[i].services) :
                     acc.services[s] = Made(e, acc, i)
               /\ \A i \in DOMAIN e.backends : \E j \in DOMAIN e.backends, id \in Nat :
                     /\ sourceOf(e.backends[i]) = sourceOf(e.backends[j])
                     /\ acc.pollers[sourceOf(e.backends[i])] = MadePoller(e, j, id)
<1>2. LoadConfig(e).services = loadBackends(e).services /\ ~loadBackends(e).err
  <2>1. ~loadBackends(e).err
    BY FileValid
  <2>2. Settings(e).services = loadBackends(e).services
    BY DEF Settings
  <2> QED BY <2>1, <2>2, FileLoaded
<1>3. Loaded(e, Len(e.backends), loadBackends(e)) /\ DOMAIN e.backends = 1 .. Len(e.backends)
  BY BackendsLoaded
<1>4. \A i \in DOMAIN e.backends : e.backends[i] \in externalBackendConfig
  <2>1. e.backends \in Seq(externalBackendConfig)
    BY DEF externalGatewayConfig
  <2> QED BY <1>3, <2>1, ElementOfSeq
<1>5. ASSUME NEW i \in DOMAIN e.backends
      PROVE  \E j \in DOMAIN e.backends, id \in Nat :
                 /\ sourceOf(e.backends[i]) = sourceOf(e.backends[j])
                 /\ loadBackends(e).pollers[sourceOf(e.backends[i])] = MadePoller(e, j, id)
  BY <1>2, <1>3 DEF Loaded
<1> QED BY <1>2, <1>3, <1>4, <1>5 DEF Loaded, Listed, Record

(* A service of an accepted file goes over a transport that can carry its  *)
(* protocol, and its schema, if that is reflected, over one that can carry *)
(* reflection, also if the poller is that of another backend.              *)
THEOREM TransportAlwaysFits == Spec => []TransportFits
<1>1. ASSUME ext \in ExtConfigs, conf # Nil => conf = LoadConfig(ext)
      PROVE  TransportFits
  <2> SUFFICES ASSUME conf # Nil, NEW svc \in DOMAIN conf.services
               PROVE  LET c == conf.services[svc]
                          http2(client) == client.tls # Nil \/ client.h2c
                      IN  /\ c.options.protocol = "grpc" => http2(c.client)
                          /\ c.descriptors.source.kind = "reflection" => http2(c.descriptors.client)
                          /\ (c.client.tls # Nil) = (c.baseURL.scheme = "https")
                          /\ c.client.h2c => c.client.tls = Nil
    BY DEF TransportFits
  <2> DEFINE acc == loadBackends(ext)
             c == conf.services[svc]
             B(i) == ext.backends[i]
  <2>1. conf = LoadConfig(ext) /\ LoadConfig(ext) # Nil /\ ext \in externalGatewayConfig
    BY <1>1, FilesAssumption
  <2>2. PICK i \in DOMAIN ext.backends : svc \in ToSet(B(i).services)
    BY <2>1, ServicesOfFile
  <2>3. c = Made(ext, acc, i)
    BY <2>1, <2>2, ServicesOfFile
  <2>4. PICK j \in DOMAIN ext.backends, id \in Nat :
            /\ sourceOf(B(i)) = sourceOf(B(j))
            /\ acc.pollers[sourceOf(B(i))] = MadePoller(ext, j, id)
    BY <2>1, ServicesOfFile
  <2>5. /\ B(i) \in externalBackendConfig /\ backendValid(B(i), ext)
        /\ B(j) \in externalBackendConfig /\ backendValid(B(j), ext)
    BY <2>1, ServicesOfFile
  <2>6. /\ c.options = options(B(i)) /\ c.client = makeHTTPClient(B(i), ext)
        /\ c.baseURL = B(i).routeTo /\ c.descriptors = acc.pollers[sourceOf(B(i))]
    BY <2>3 DEF Made
  <2>7. c.descriptors.client = makeHTTPClient(B(j), ext) /\ c.descriptors.source = sourceOf(B(j))
    BY <2>4, <2>6 DEF MadePoller
  <2> HIDE DEF acc, c, B
  <2>8. /\ c.options.protocol = "grpc" => c.client.tls # Nil \/ c.client.h2c
        /\ (c.client.tls # Nil) = (c.baseURL.scheme = "https")
        /\ c.client.h2c => c.client.tls = Nil
    BY <2>1, <2>5, <2>6, ClientFits
  <2>9. c.descriptors.source.kind = "reflection"
            => c.descriptors.client.tls # Nil \/ c.descriptors.client.h2c
    BY <2>1, <2>5, <2>7, ClientFits
  <2> QED BY <2>8, <2>9 DEF c
<1> QED BY <1>1, SettingsOfFile, PTL

(* An accepted configuration is what the file says.  A service that two    *)
(* backends list is refused, so its backend is the one that lists it;      *)
(* pollers are found by their source, so there is one for each.            *)
THEOREM ConfiguredAsTheFileSays == Spec => []AsTheFileSays
<1>1. ASSUME ext \in ExtConfigs, conf # Nil => conf = LoadConfig(ext)
      PROVE  AsTheFileSays
  <2> SUFFICES ASSUME conf # Nil PROVE AsTheFileSays
    BY DEF AsTheFileSays, RoutedAsListed, OnePollerPerSource, AdminApart, OriginsAsListed
  <2> DEFINE acc == loadBackends(ext)
             B(i) == ext.backends[i]
  <2>1. conf = LoadConfig(ext) /\ LoadConfig(ext) # Nil /\ ext \in externalGatewayConfig
    BY <1>1, FilesAssumption
  <2>2. conf.services = acc.services
    BY <2>1, ServicesOfFile
  <2>3. RoutedAsListed
    <3>1. DOMAIN conf.services =
              UNION {ToSet(ext.backends[i].services) : i \in DOMAIN ext.backends}
      BY <2>1, <2>2, ServicesOfFile
    <3>2. ASSUME NEW i \in DOMAIN ext.backends, NEW svc \in ToSet(ext.backends[i].services)
          PROVE  conf.services[svc].baseURL = ext.backends[i].routeTo
      <4>1. conf.services[svc] = Made(ext, acc, i)
        BY <2>1, <2>2, ServicesOfFile
      <4> QED BY <4>1 DEF Made
    <3> QED BY <3>1, <3>2 DEF RoutedAsListed
  <2>4. OnePollerPerSource
    <3>1. ASSUME NEW p \in pollers PROVE p = acc.pollers[p.source]
      <4>1. PICK svc \in DOMAIN conf.services : p = conf.services[svc].descriptors
        BY DEF pollers
      <4>2. PICK i \in DOMAIN ext.backends : svc \in ToSet(B(i).services)
        BY <2>1, <2>2, ServicesOfFile
      <4>3. conf.services[svc] = Made(ext, acc, i)
        BY <2>1, <2>2, <4>2, ServicesOfFile
      <4>4. p = acc.pollers[sourceOf(B(i))]
        BY <4>1, <4>3 DEF Made
      <4>5. PICK j \in DOMAIN ext.backends, id \in Nat :
                /\ sourceOf(B(i)) = sourceOf(B(j))
                /\ acc.pollers[sourceOf(B(i))] = MadePoller(ext, j, id)
        BY <2>1, ServicesOfFile
      <4>6. p.source = sourceOf(B(j))
        BY <4>4, <4>5 DEF MadePoller
      <4> QED BY <4>4, <4>5, <4>6
    <3> QED BY <3>1 DEF OnePollerPerSource
  <2>5. AdminApart
    <3>1. /\ Settings(ext).admin = loadAdminConfig(ext)
          /\ Settings(ext).tls = configureServerTLS(ext.listen.tls)
          /\ Settings(ext).listen # Nil => ext.listen.port # Nil
                                         /\ Settings(ext).listen[2] = ext.listen.port
      BY DEF Settings
    <3>2. conf = Settings(ext) /\ adminValid(ext) /\ serverTLSValid(ext.listen.tls)
      BY <2>1, FileLoaded, FileValid
    <3>3. conf.tls # Nil <=> ext.listen.tls # Nil
      <4>1. ext.listen.tls \in {Nil} \cup externalServerTLSConfig
        BY <2>1 DEF externalGatewayConfig, externalListenConfig, opt
      <4>2. ext.listen.tls # Nil => configureServerTLS(ext.listen.tls) \in ServerTLS
        BY <3>2, <4>1, ServerTLSTyped
      <4>3. ext.listen.tls = Nil => configureServerTLS(ext.listen.tls) = Nil
        BY DEF configureServerTLS
      <4> QED BY <3>1, <3>2, <4>2, <4>3, NilAssumption
    <3> DEFINE a == ext.admin
    <3>4. a.enabled \in {Nil} \cup BOOLEAN /\ a.useMainListeners \in BOOLEAN
          /\ a.useTLS \in {Nil} \cup BOOLEAN
      BY <2>1 DEF externalGatewayConfig, externalAdminConfig, opt
    <3> SUFFICES ASSUME conf.admin # Nil
                 PROVE  IF conf.admin.useMainListeners THEN ext.admin.useMainListeners
                        ELSE /\ conf.listen # Nil => conf.admin.listen[2] # conf.listen[2]
                             /\ conf.admin.useTLS => conf.tls # Nil
                             /\ conf.tls # Nil /\ ~conf.admin.useTLS => ext.admin.useTLS = FALSE
      BY DEF AdminApart
    <3>5. adminEnabled(a) /\ conf.admin = loadAdminConfig(ext)
      BY <3>1, <3>2 DEF loadAdminConfig
    <3>6. CASE a.useMainListeners
      <4>1. conf.admin.useMainListeners = TRUE
        BY <3>5, <3>6 DEF loadAdminConfig
      <4> QED BY <3>6, <4>1
    <3>7. CASE ~a.useMainListeners
      <4>1. /\ conf.admin.useMainListeners = FALSE /\ conf.admin.listen[2] = a.port
            /\ conf.admin.useTLS = IF a.useTLS # Nil THEN a.useTLS ELSE ext.listen.tls # Nil
        <5> DEFINE x == <<IF a.bindAddress = "" THEN "127.0.0.1" ELSE a.bindAddress, a.port>>
                   t == IF a.useTLS # Nil THEN a.useTLS ELSE ext.listen.tls # Nil
        <5>1. conf.admin = [useMainListeners |-> FALSE, listen |-> x, useTLS |-> t]
          BY <3>5, <3>7 DEF loadAdminConfig
        <5>2. x[2] = a.port
          OBVIOUS
        <5>3. t \in BOOLEAN
          BY <3>4
        <5> HIDE DEF x, t
        <5>4. conf.admin.useMainListeners = FALSE /\ conf.admin.listen = x /\ conf.admin.useTLS = t
          BY <5>1, <5>3
        <5> QED BY <5>2, <5>4 DEF t
      <4>2. /\ a.useTLS # Nil /\ a.useTLS => ext.listen.tls # Nil
            /\ ext.listen.port # Nil => a.port # ext.listen.port
        BY <3>2, <3>5, <3>7 DEF adminValid
      <4>3. conf.listen # Nil => conf.admin.listen[2] # conf.listen[2]
        BY <3>1, <3>2, <4>1, <4>2
      <4>4. conf.admin.useTLS => conf.tls # Nil
        BY <3>3, <4>1, <4>2
      <4>5. conf.tls # Nil /\ ~conf.admin.useTLS => a.useTLS = FALSE
        BY <3>3, <3>4, <4>1
      <4> QED BY <4>1, <4>3, <4>4, <4>5
    <3> QED BY <3>6, <3>7
  <2>6. OriginsAsListed
    <3>1. Settings(ext).cors = [origins |-> ext.origins, refuseAll |-> ext.origins = {}]
      BY DEF Settings, corsOptions
    <3>2. conf.cors.origins = ext.origins /\ (conf.cors.refuseAll <=> ext.origins = {})
      <4>1. conf.cors = [origins |-> ext.origins, refuseAll |-> ext.origins = {}]
        BY <2>1, <3>1, FileLoaded
      <4>2. CASE ext.origins = {}
        <5>1. conf.cors = [origins |-> ext.origins, refuseAll |-> TRUE]
          BY <4>1, <4>2
        <5> QED BY <4>2, <5>1
      <4>3. CASE ext.origins # {}
        <5>1. conf.cors = [origins |-> ext.origins, refuseAll |-> FALSE]
          BY <4>1, <4>3
        <5> QED BY <4>3, <5>1
      <4> QED BY <4>2, <4>3
    <3> QED BY <3>2 DEF OriginsAsListed, corsAllows
  <2> QED BY <2>3, <2>4, <2>5, <2>6 DEF AsTheFileSays
<1> QED BY <1>1, SettingsOfFile, PTL

(* What a stanza says is kept when it is merged with the defaults.         *)
LEMMA MergeKeeps ==
    ASSUME NEW c \in externalClientTLSConfig, NEW d \in {Nil} \cup externalClientTLSConfig,
           c # Nil, clientTLSValid(c)
    PROVE  LET m == configureClientTLS(mergeClientTLSConfig(c, d))
               t == configureClientTLS(c)
           IN  /\ c.cert # Nil => m.certificate = t.certificate
               /\ c.minVersion # Nil => m.minVersion = t.minVersion
               /\ c.ciphers # Nil => m.suites = t.suites
               /\ c.skipVerify # Nil => m.insecureSkipVerify = t.insecureSkipVerify
               /\ c.cacert # Nil =>
                     m.rootCAs = t.rootCAs \/ (c.skipVerify = Nil /\ m.insecureSkipVerify)
<1> DEFINE x == mergeClientTLSConfig(c, d)
<1>1. CASE d = Nil
  <2>1. x = c
    BY <1>1 DEF mergeClientTLSConfig
  <2> QED BY <2>1
<1>2. CASE d # Nil
  <2>1. x = [f \in DOMAIN c |-> IF c[f] = Nil /\ f # "serverName" THEN d[f] ELSE c[f]]
    BY <1>2 DEF mergeClientTLSConfig
  <2>2. DOMAIN c = {"minVersion", "ciphers", "cacert", "skipVerify", "cert", "key", "serverName"}
    BY DEF externalClientTLSConfig
  <2>3. /\ c.minVersion # Nil => x.minVersion = c.minVersion
        /\ c.ciphers # Nil => x.ciphers = c.ciphers
        /\ c.skipVerify # Nil => x.skipVerify = c.skipVerify
        /\ c.cacert # Nil => x.cacert = c.cacert
    BY <2>1, <2>2
  <2>4. c.cert # Nil => x.cert = c.cert /\ x.key = c.key
    <3> SUFFICES ASSUME c.cert # Nil PROVE x.cert = c.cert /\ x.key = c.key
      OBVIOUS
    <3>1. <<c.cert, c.key>> \in STRING \X STRING
      BY TLSAssumption DEF clientTLSValid, loadCertificateAndKey
    <3>2. c.key # Nil
      BY <3>1, NilAssumption
    <3> QED BY <2>1, <2>2, <3>2
  <2>5. x # Nil
    <3>1. x \in externalClientTLSConfig
      BY <1>2, MergedTyped
    <3> QED BY <3>1, NilAssumption
  <2> HIDE DEF x
  <2>6. c.cert # Nil => configureClientTLS(x).certificate = configureClientTLS(c).certificate
    BY <2>4, <2>5 DEF configureClientTLS
  <2>7. c.minVersion # Nil => configureClientTLS(x).minVersion = configureClientTLS(c).minVersion
    BY <2>3, <2>5 DEF configureClientTLS
  <2>8. c.ciphers # Nil => configureClientTLS(x).suites = configureClientTLS(c).suites
    BY <2>3, <2>5 DEF configureClientTLS
  <2>9. c.skipVerify # Nil =>
            configureClientTLS(x).insecureSkipVerify = configureClientTLS(c).insecureSkipVerify
    BY <2>3, <2>5 DEF configureClientTLS, skips
  <2>10. c.cacert # Nil =>
             \/ configureClientTLS(x).rootCAs = configureClientTLS(c).rootCAs
             \/ c.skipVerify = Nil /\ configureClientTLS(x).insecureSkipVerify
    <3>1. CASE c.skipVerify # Nil
      BY <2>3, <2>5, <3>1 DEF configureClientTLS, skips
    <3>2. CASE c.skipVerify = Nil
      <4>1. ~skips(c)
        BY <3>2 DEF skips
      <4>2. CASE skips(x)
        BY <2>5, <3>2, <4>2 DEF configureClientTLS
      <4>3. CASE ~skips(x)
        BY <2>3, <2>5, <4>1, <4>3 DEF configureClientTLS
      <4> QED BY <4>2, <4>3
    <3> QED BY <3>1, <3>2
  <2> QED BY <2>6, <2>7, <2>8, <2>9, <2>10 DEF x
<1> QED BY <1>1, <1>2

(* The defaults only fill the gaps of a backend's own stanza: where that   *)
(* says something, the TLS settings are those it would have on its own.    *)
(* The certificate and its key go together, because a stanza that is valid *)
(* alone has both or none.  Its own authorities are those asked, unless    *)
(* the defaults have set skip_verify and the stanza does not.              *)
THEOREM DefaultsOnlyFillGaps == Spec => []DefaultsFillGaps
<1>1. ASSUME ext \in ExtConfigs, conf # Nil => conf = LoadConfig(ext)
      PROVE  DefaultsFillGaps
  <2> DEFINE e == [ext EXCEPT !.backendTLS = Nil]
             alone == LoadConfig(e)
             b == ext.backends[1]
  <2> SUFFICES ASSUME conf # Nil, alone # Nil, Len(ext.backends) = 1, b.tls # Nil,
                      NEW svc \in DOMAIN conf.services
               PROVE  LET mine   == conf.services[svc].client
                          theirs == alone.services[svc].client
                      IN  /\ mine.serverName = theirs.serverName
                          /\ b.tls.cert # Nil => mine.tls.certificate = theirs.tls.certificate
                          /\ b.tls.minVersion # Nil => mine.tls.minVersion = theirs.tls.minVersion
                          /\ b.tls.ciphers # Nil => mine.tls.suites = theirs.tls.suites
                          /\ b.tls.skipVerify # Nil =>
                                mine.tls.insecureSkipVerify = theirs.tls.insecureSkipVerify
                          /\ b.tls.cacert # Nil =>
                                \/ mine.tls.rootCAs = theirs.tls.rootCAs
                                \/ b.tls.skipVerify = Nil /\ mine.tls.insecureSkipVerify
    BY DEF DefaultsFillGaps
  <2>1. conf = LoadConfig(ext) /\ LoadConfig(ext) # Nil /\ ext \in externalGatewayConfig
    BY <1>1, FilesAssumption
  <2>2. /\ e \in externalGatewayConfig /\ e.backends = ext.backends /\ e.backendTLS = Nil
        /\ ext.backendTLS \in {Nil} \cup externalClientTLSConfig
    BY <2>1 DEF externalGatewayConfig, opt
  <2> HIDE DEF e
  <2>3. DOMAIN ext.backends = {1}
    <3>1. ext.backends \in Seq(externalBackendConfig)
      BY <2>1 DEF externalGatewayConfig
    <3> QED BY <3>1, LenProperties
  <2>4. svc \in ToSet(b.services)
    BY <2>1, <2>3, ServicesOfFile
  <2>5. conf.services[svc] = Made(ext, loadBackends(ext), 1)
    BY <2>1, <2>3, <2>4, ServicesOfFile
  <2>6. alone.services[svc] = Made(e, loadBackends(e), 1)
    <3>1. 1 \in DOMAIN e.backends /\ svc \in ToSet(e.backends[1].services)
      BY <2>2, <2>3, <2>4
    <3> QED BY <2>2, <3>1, ServicesOfFile
  <2>7. /\ conf.services[svc].client = makeHTTPClient(b, ext)
        /\ alone.services[svc].client = makeHTTPClient(b, e)
    BY <2>2, <2>5, <2>6 DEF Made
  <2>8. makeHTTPClient(b, ext).serverName = makeHTTPClient(b, e).serverName
    BY DEF makeHTTPClient
  <2>9. b \in externalBackendConfig /\ backendValid(b, e)
    <3>1. 1 \in DOMAIN e.backends
      BY <2>2, <2>3
    <3> QED BY <2>2, <3>1, ServicesOfFile
  <2>10. b.tls \in externalClientTLSConfig
    BY <2>9 DEF externalBackendConfig, opt
  <2>11. tlsOf(b, e) = b.tls /\ tlsOf(b, ext) = mergeClientTLSConfig(b.tls, ext.backendTLS)
    BY <2>2 DEF tlsOf, mergeClientTLSConfig
  <2> DEFINE m == makeHTTPClient(b, ext).tls
             t == makeHTTPClient(b, e).tls
  <2>12. /\ b.tls.cert # Nil => m.certificate = t.certificate
         /\ b.tls.minVersion # Nil => m.minVersion = t.minVersion
         /\ b.tls.ciphers # Nil => m.suites = t.suites
         /\ b.tls.skipVerify # Nil => m.insecureSkipVerify = t.insecureSkipVerify
         /\ b.tls.cacert # Nil =>
               m.rootCAs = t.rootCAs \/ (b.tls.skipVerify = Nil /\ m.insecureSkipVerify)
    <3>1. CASE b.routeTo.scheme = "https"
      <4>1. /\ m = configureClientTLS(mergeClientTLSConfig(b.tls, ext.backendTLS))
            /\ t = configureClientTLS(b.tls)
        BY <2>11, <3>1 DEF makeHTTPClient
      <4>2. clientTLSValid(b.tls)
        BY <2>9, <2>11, <3>1 DEF backendValid
      <4> HIDE DEF m, t
      <4> QED BY <2>2, <2>10, <4>1, <4>2, MergeKeeps
    <3>2. CASE b.routeTo.scheme # "https"
      <4>1. m = Nil /\ t = Nil
        BY <3>2 DEF makeHTTPClient
      <4> QED BY <4>1
    <3> QED BY <3>1, <3>2
  <2> QED BY <2>7, <2>8, <2>12
<1> QED BY <1>1, SettingsOfFile, PTL

-----------------------------------------------------------------------------
(* Types.                                                                  *)

(* The source of a backend that is accepted.                               *)
LEMMA SourceTyped ==
    ASSUME NEW b \in externalBackendConfig, b.routeTo # Nil
    PROVE  sourceOf(b) \in [kind : {"file", "module"}, of : STRING]
                           \cup [kind : {"reflection"}, of : URLs]
<1>1. b.descriptors \in externalDescriptorConfig /\ b.routeTo \in URLs
  BY DEF externalBackendConfig, opt
<1> QED BY <1>1 DEF sourceOf, newDescriptorSource, externalDescriptorConfig

(* The settings of a service that is accepted.                             *)
LEMMA ServiceTyped ==
    ASSUME NEW e \in externalGatewayConfig, LoadConfig(e) # Nil,
           NEW svc \in DOMAIN LoadConfig(e).services
    PROVE  LoadConfig(e).services[svc] \in ServiceConfig
<1> DEFINE acc == loadBackends(e)
           B(i) == e.backends[i]
<1>1. PICK i \in DOMAIN e.backends : svc \in ToSet(B(i).services)
  BY ServicesOfFile
<1>2. LoadConfig(e).services[svc] = Made(e, acc, i)
  BY <1>1, ServicesOfFile
<1>3. PICK j \in DOMAIN e.backends, id \in Nat :
          /\ sourceOf(B(i)) = sourceOf(B(j))
          /\ acc.pollers[sourceOf(B(i))] = MadePoller(e, j, id)
  BY ServicesOfFile
<1>4. \A k \in DOMAIN e.backends : B(k) \in externalBackendConfig /\ backendValid(B(k), e)
  BY ServicesOfFile
<1>5. ASSUME NEW k \in DOMAIN e.backends
      PROVE  /\ makeHTTPClient(B(k), e) \in HTTPClient /\ options(B(k)) \in connectOptions
             /\ B(k).routeTo \in URLs
             /\ sourceOf(B(k)) \in [kind : {"file", "module"}, of : STRING]
                                   \cup [kind : {"reflection"}, of : URLs]
             /\ isCacheable(sourceOf(B(k))) \in BOOLEAN
  <2>1. B(k) \in externalBackendConfig /\ backendValid(B(k), e)
    BY <1>4
  <2> DEFINE b == B(k)
  <2> HIDE DEF b
  <2>2. b \in externalBackendConfig /\ backendValid(b, e) /\ b.routeTo # Nil
    BY <2>1 DEF b, backendValid
  <2>3. options(b) \in connectOptions
    BY <2>2 DEF options, connectOptions, backendValid
  <2>4. b.routeTo \in URLs
    BY <2>2 DEF externalBackendConfig, opt
  <2>5. makeHTTPClient(b, e) \in HTTPClient
    BY <2>2, ClientFits
  <2> QED BY <2>2, <2>3, <2>4, <2>5, SourceTyped DEF b, isCacheable
<1>6. MadePoller(e, j, id) \in Poller
  BY <1>5 DEF MadePoller, Poller
<1> QED BY <1>2, <1>3, <1>5, <1>6 DEF Made, ServiceConfig

(* The configuration of a file that is accepted has every setting.         *)
LEMMA SettingsTyped ==
    ASSUME NEW e \in externalGatewayConfig, LoadConfig(e) # Nil
    PROVE  LoadConfig(e) \in GatewayConfig(DOMAIN LoadConfig(e).services)
<1> DEFINE c == LoadConfig(e)
           s == Settings(e)
           d == e.descriptors
<1>1. c = s
  BY FileLoaded
<1>2. /\ adminValid(e) /\ serverTLSValid(e.listen.tls) /\ pollingValid(d)
  BY FileValid
<1>3. /\ e.listen \in externalListenConfig /\ e.parallelism \in Int
      /\ d \in externalDescriptorPollingConfig /\ e.admin \in externalAdminConfig
      /\ e.origins \in SUBSET STRING
  BY DEF externalGatewayConfig
<1>4. s.listen \in opt(STRING \X Int) /\ s.unixSocket \in STRING
  BY <1>3, LiteralsAssumption DEF Settings, externalListenConfig, opt
<1>5. s.tls \in opt(ServerTLS)
  <2>1. e.listen.tls \in {Nil} \cup externalServerTLSConfig
    BY <1>3 DEF externalListenConfig, opt
  <2>2. s.tls = configureServerTLS(e.listen.tls)
    BY DEF Settings
  <2>3. CASE e.listen.tls = Nil
    BY <2>2, <2>3 DEF configureServerTLS, opt
  <2>4. CASE e.listen.tls # Nil
    BY <1>2, <2>1, <2>2, <2>4, ServerTLSTyped DEF opt
  <2> QED BY <2>3, <2>4
<1>6. s.services \in [DOMAIN s.services -> ServiceConfig]
  <2>1. s.services = loadBackends(e).services
    BY DEF Settings
  <2>2. \A svc \in DOMAIN s.services : s.services[svc] \in ServiceConfig
    BY <1>1, ServiceTyped
  <2>3. s.services = [x \in DOMAIN s.services |-> s.services[x]]
    BY <2>1, ServicesOfFile DEF IsMap
  <2> HIDE DEF s
  <2> QED BY <2>2, <2>3
<1>7. s.startupMaxWait \in Nat \ {0} /\ s.pollingPeriod \in Nat \ {0}
  <2>1. d.startupMaxWait \in Int /\ d.pollingPeriod \in Int
    BY <1>3 DEF externalDescriptorPollingConfig
  <2>2. s.startupMaxWait = orDefault(d.startupMaxWait, 15)
        /\ s.pollingPeriod = orDefault(d.pollingPeriod, 900)
    BY DEF Settings
  <2> HIDE DEF s
  <2> QED BY <2>1, <2>2 DEF orDefault
<1>8. s.pollingJitter \in 0 .. 100 /\ s.pollingDebounce \in Nat
  <2>1. s.pollingJitter = (IF d.pollingJitter = Nil THEN 25 ELSE d.pollingJitter)
        /\ s.pollingDebounce = d.pollingDebounce
    BY DEF Settings
  <2> HIDE DEF s
  <2> QED BY <1>2, <1>3, <2>1 DEF externalDescriptorPollingConfig, pollingValid
<1>9. s.cache \in opt({"file_system", "redis", "memcached"})
  <2>1. s.cache = IF d.cache = {} THEN Nil ELSE CHOOSE k \in d.cache : TRUE
    BY DEF Settings
  <2>2. d.cache \subseteq {"file_system", "redis", "memcached"}
    BY <1>3 DEF externalDescriptorPollingConfig
  <2>3. d.cache # {} => (CHOOSE k \in d.cache : TRUE) \in d.cache
    OBVIOUS
  <2> HIDE DEF s
  <2> QED BY <2>1, <2>2, <2>3 DEF opt
<1>10. s.admin \in opt(AdminConfig)
  <2>1. s.admin = loadAdminConfig(e)
    BY DEF Settings
  <2>2. /\ e.admin.bindAddress \in STRING /\ e.admin.port \in Int
        /\ e.admin.useTLS \in {Nil} \cup BOOLEAN
    BY <1>3 DEF externalAdminConfig, opt
  <2> HIDE DEF s
  <2> DEFINE x == <<IF e.admin.bindAddress = "" THEN "127.0.0.1" ELSE e.admin.bindAddress,
                    e.admin.port>>
             t == IF e.admin.useTLS # Nil THEN e.admin.useTLS ELSE e.listen.tls # Nil
  <2>3. \/ s.admin = Nil
        \/ s.admin = [useMainListeners |-> TRUE, listen |-> Nil, useTLS |-> FALSE]
        \/ s.admin = [useMainListeners |-> FALSE, listen |-> x, useTLS |-> t]
    BY <2>1, Zenon DEF loadAdminConfig
  <2>4. x \in STRING \X Int
    BY <2>2, LiteralsAssumption
  <2>5. t \in BOOLEAN
    BY <2>2
  <2> HIDE DEF x, t
  <2>6. /\ [useMainListeners |-> TRUE, listen |-> Nil, useTLS |-> FALSE] \in AdminConfig
        /\ [useMainListeners |-> FALSE, listen |-> x, useTLS |-> t] \in AdminConfig
    BY <2>4, <2>5 DEF AdminConfig, opt
  <2> QED BY <2>3, <2>6 DEF opt
<1>11. s.cors \in [origins : SUBSET STRING, refuseAll : BOOLEAN] /\ s.parallelism \in Int
  BY <1>3 DEF Settings, corsOptions
<1>12. s = [listen |-> s.listen, unixSocket |-> s.unixSocket, tls |-> s.tls,
            services |-> s.services, parallelism |-> s.parallelism,
            startupMaxWait |-> s.startupMaxWait, pollingPeriod |-> s.pollingPeriod,
            pollingJitter |-> s.pollingJitter, pollingDebounce |-> s.pollingDebounce,
            cache |-> s.cache, admin |-> s.admin, cors |-> s.cors]
  BY DEF Settings
<1> HIDE DEF s
<1>13. s \in GatewayConfig(DOMAIN s.services)
  BY <1>4, <1>5, <1>6, <1>7, <1>8, <1>9, <1>10, <1>11, <1>12 DEF GatewayConfig
<1> QED BY <1>1, <1>13

(* The part of TypeOK that takes induction: what the watchers and the      *)
(* cache have are files.                                                   *)
Typed ==
    /\ \A p \in DOMAIN w : schema[p] \subseteq Files
    /\ watchers \subseteq DOMAIN w
    /\ first \in opt(DOMAIN w) /\ cur \in opt(DOMAIN w)
    /\ pc = "add" => cur \in DOMAIN w
    /\ unsaved \subseteq DOMAIN w
    /\ sync \in {"no", "due", "ranging"} /\ cache \in {"none", "open", "closed"}
    /\ \A src \in DOMAIN saved : saved[src] \subseteq Files

(* Typed is kept.                                                          *)
LEMMA TypedKept ==
    ASSUME Shape, Typed, [Next]_vars
    PROVE  Typed'
<1> USE DEF caching
<1>1. CASE Starts
  <2>1. CASE Load
    BY <2>1 DEF Load, Typed
  <2>2. CASE OpenCache
    <3>1. DOMAIN w = {}
      BY <2>2 DEF OpenCache, Shape, Fresh
    <3>2. first = Nil /\ cur = Nil /\ watchers = {} /\ unsaved = {}
      BY <3>1 DEF Typed, opt
    <3>3. DOMAIN w' = pollers /\ \A p \in pollers : schema'[p] = {}
      BY <2>2 DEF OpenCache
    <3> QED BY <2>2, <3>2, <3>3 DEF OpenCache, Typed, opt, caching
  <2>3. CASE CacheFails
    BY <2>3 DEF CacheFails, Typed
  <2>4. CASE AddWatcher
    BY <2>4 DEF AddWatcher, Typed
  <2>5. CASE Created
    BY <2>5 DEF Created, Typed
  <2>6. ASSUME NEW p \in todo, NewWatcher(p) PROVE Typed'
    <3>1. p \in DOMAIN w
      BY DEF Shape
    <3>2. DOMAIN w' = DOMAIN w /\ cur' = p /\ first' \in {p, first}
      BY <2>6 DEF NewWatcher
    <3> QED BY <2>6, <3>1, <3>2 DEF NewWatcher, Typed, opt
  <2>7. ASSUME NEW p \in todo, NewWatcherFails(p) PROVE Typed'
    BY <2>7 DEF NewWatcherFails, Typed
  <2> QED BY <1>1, <2>1, <2>2, <2>3, <2>4, <2>5, <2>6, <2>7 DEF Starts
<1>2. CASE Stops
  <2>1. CASE Cancel \/ CloseCache \/ Crash
    BY <2>1 DEF Cancel, CloseCache, Crash, Typed
  <2>2. CASE StopWatchers
    <3>1. DOMAIN w' = DOMAIN w
      BY <2>2 DEF StopWatchers
    <3> QED BY <2>2, <3>1 DEF StopWatchers, Typed
  <2>3. CASE Restart
    <3>1. w' = << >> /\ watchers' = {} /\ first' = Nil /\ cur' = Nil /\ sync' = "no"
          /\ cache' = "none" /\ pc' = "load" /\ saved' = saved /\ unsaved' = {}
      BY <2>3 DEF Restart, reset
    <3> QED BY <3>1, NoIndices DEF Typed, opt
  <2> QED BY <1>2, <2>1, <2>2, <2>3 DEF Stops
<1>3. CASE SyncOthers \/ \E src \in sources : conf # Nil /\ SourceFails(src)
  BY <1>3 DEF SyncOthers, SourceFails, Typed
<1>4. ASSUME NEW p \in DOMAIN w, Watch(p) PROVE Typed'
  <2>1. /\ UNCHANGED <<pc, cur, first, watchers, cache, saved>>
        /\ unsaved' \subseteq unsaved \cup {p}
        /\ UNCHANGED <<w, schema, sync>> \/ \E files : ready(p, files)
    BY <1>4, WatchSeen
  <2>2. CASE UNCHANGED <<w, schema, sync>>
    BY <2>1, <2>2 DEF Typed
  <2>3. ASSUME NEW files, files \subseteq Files, ready(p, files)
        PROVE  Typed'
    <3>1. DOMAIN w' = DOMAIN w /\ sync' \in {sync, "due"}
      BY <2>3 DEF ready
    <3>2. DOMAIN schema = DOMAIN w
      BY <1>4 DEF Shape
    <3>3. \A q \in DOMAIN w : schema'[q] \subseteq Files
      BY <2>3, <3>2 DEF ready, Typed
    <3> QED BY <1>4, <2>1, <3>1, <3>3 DEF Typed
  <2>4. CASE Download(p)
    <3> DEFINE files == IF p.source.kind = "file" THEN Files
                        ELSE UNION {R!Closure[FileOf[svc]] : svc \in symbolsOf(p)}
    <3>1. files \subseteq Files
      <4>1. pc \notin Fresh \ {"create"}
        BY <2>4 DEF Download, polling, alive, Fresh
      <4>2. symbolsOf(p) \subseteq Symbols
        BY <4>1, StartedPollers DEF symbolsOf
      <4>3. \A svc \in symbolsOf(p) : R!Closure[FileOf[svc]] \subseteq Files
        BY <4>2, ClosureInFiles, ReflectionAssumption
      <4> QED BY <4>3
    <3>2. ready(p, files)
      BY <2>4 DEF Download, downloaded
    <3> HIDE DEF files
    <3> QED BY <2>3, <3>1, <3>2
  <2>5. CASE Reflect(p)
    <3> DEFINE files == {f \in Files : results[f] > 0}
    <3>1. UNCHANGED startup \/ downloaded(p, files)
      BY <2>5 DEF Reflect
    <3>2. CASE UNCHANGED startup
      BY <2>2, <3>2 DEF startup
    <3>3. CASE downloaded(p, files)
      <4>1. files \subseteq Files /\ ready(p, files)
        BY <3>3 DEF downloaded
      <4> HIDE DEF files
      <4> QED BY <2>3, <4>1
    <3> QED BY <3>1, <3>2, <3>3
  <2>6. CASE LoadFromCache(p)
    <3>1. ready(p, saved[p.source]) /\ p.source \in DOMAIN saved
      BY <2>6 DEF LoadFromCache, inCache
    <3> QED BY <2>3, <3>1 DEF Typed
  <2> QED BY <1>4, <2>4, <2>5, <2>6 DEF Watch
<1>5. CASE UNCHANGED vars
  BY <1>5 DEF vars, startup, caching, Typed
<1>6. CASE Caches
  <2>1. UNCHANGED <<pc, cur, first, watchers, w, schema, sync, cache>> /\ unsaved' \subseteq unsaved
    BY <1>6, CachesSeen
  <2>2. \A src \in DOMAIN saved' : saved'[src] \subseteq Files
    <3>1. ASSUME NEW p \in DOMAIN w, Save(p)
          PROVE  \A src \in DOMAIN saved' : saved'[src] \subseteq Files
      BY <3>1 DEF Save, put, Typed
    <3>2. ASSUME NEW src \in DOMAIN saved, Expire(src)
          PROVE  \A s \in DOMAIN saved' : saved'[s] \subseteq Files
      BY <3>2 DEF Expire, Typed
    <3> QED BY <1>6, <3>1, <3>2 DEF Caches
  <2> QED BY <2>1, <2>2 DEF Typed
<1> QED BY <1>1, <1>2, <1>3, <1>4, <1>5, <1>6, StepCases

(* Every setting of an accepted file has a usable value, whatever the file *)
(* leaves out, and the rest of the state has its type.                     *)
THEOREM TypesHold == Spec => []TypeOK
<1>1. Init => Shape /\ Typed
  BY NoIndices DEF Init, Shape, Typed, Fresh, R!Init, opt
<1>2. Shape /\ Typed /\ [Next]_vars => (Shape /\ Typed)'
  BY ShapeKept, TypedKept
<1>3. ASSUME Shape, Typed, ext \in ExtConfigs, conf # Nil => conf = LoadConfig(ext) PROVE TypeOK
  <2>1. ext \in externalGatewayConfig
    BY <1>3, FilesAssumption
  <2>2. conf # Nil => conf \in GatewayConfig(DOMAIN conf.services)
    BY <1>3, <2>1, SettingsTyped
  <2>3. \A p \in DOMAIN w : p \in pollers /\ w[p] \in {"none", "polling", "ready", "stopped"}
    BY <1>3 DEF Shape
  <2> QED BY <1>3, <2>1, <2>2, <2>3 DEF TypeOK, Typed, Shape
<1> QED BY <1>1, <1>2, <1>3, SettingsOfFile, PTL DEF Spec

-----------------------------------------------------------------------------
(* The third part: the download of schemas from the admin endpoints.       *)

(* The recursion of accumulateFiles is what its equation says.             *)
LEMMA RecursionOfVisits ==
    ASSUME NEW files
    PROVE  \E g : /\ g = [n \in 0 .. Cardinality(Files) |-> visit(files, g[n - 1], n)]
                  /\ accumulateFiles(files) = g[Cardinality(Files)]
<1> DEFINE L == Cardinality(Files)
           part(g, n) == g = [i \in 0 .. n |-> visit(files, g[i - 1], i)]
           S == {n \in Nat : \E g : part(g, n)}
           f == CHOOSE g : part(g, L)
<1>0. L \in Nat
  BY ImportsAssumption, FS_CardinalityType
<1>1. 0 \in S
  <2> DEFINE g == [i \in 0 .. 0 |-> visit(files, << >>, 0)]
  <2>1. \A x : visit(files, x, 0) = visit(files, << >>, 0)
    BY DEF visit
  <2>2. part(g, 0)
    BY <2>1
  <2>3. \E x : part(x, 0)
    <3> HIDE DEF g, part
    <3> QED BY <2>2
  <2> QED BY <2>3
<1>2. ASSUME NEW n \in Nat, n \in S PROVE n + 1 \in S
  <2>1. PICK g : part(g, n)
    BY <1>2
  <2> DEFINE k == [i \in 0 .. n + 1 |-> IF i = n + 1 THEN visit(files, g[n], n + 1) ELSE g[i]]
  <2>2. ASSUME NEW i \in 0 .. n + 1 PROVE k[i] = visit(files, k[i - 1], i)
    <3>1. CASE i = n + 1
      <4>1. k[i - 1] = g[n]
        BY <3>1
      <4> QED BY <3>1, <4>1
    <3>2. CASE i # n + 1 /\ i # 0
      <4>1. k[i - 1] = g[i - 1] /\ k[i] = g[i] /\ i \in 0 .. n
        BY <3>2
      <4> QED BY <2>1, <4>1
    <3>3. CASE i # n + 1 /\ i = 0
      <4>1. k[i] = g[i] /\ i \in 0 .. n
        BY <3>3
      <4>2. g[i] = visit(files, g[i - 1], 0)
        BY <2>1, <3>3, <4>1
      <4>3. \A x, y : visit(files, x, 0) = visit(files, y, 0)
        BY DEF visit
      <4> HIDE DEF k
      <4> QED BY <3>3, <4>1, <4>2, <4>3
    <3> QED BY <3>1, <3>2, <3>3
  <2>3. part(k, n + 1)
    <3>1. k = [i \in 0 .. n + 1 |-> k[i]]
      OBVIOUS
    <3> HIDE DEF k
    <3> QED BY <2>2, <3>1
  <2>4. \E x : part(x, n + 1)
    <3> HIDE DEF k, part
    <3> QED BY <2>3
  <2> QED BY <2>4
<1>3. \A n \in Nat : n \in S
  <2> HIDE DEF S
  <2> QED BY <1>1, <1>2, NumbersInduct
<1>4. part(f, L)
  BY <1>0, <1>3, Zenon
<1>5. accumulateFiles(files) = f[L]
  BY Zenon DEF accumulateFiles
<1> HIDE DEF f
<1> QED BY <1>4, <1>5, Zenon

(* The states of the loop over imports, turn by turn.                      *)
ImportTurns(g, imps, deeper, acc) ==
    g = [i \in 0 .. Len(imps) |-> IF i = 0 THEN acc ELSE deeper[imps[i]][g[i - 1]]]

(* The loop over imports is what its equation says.                        *)
LEMMA LoopOfVisits ==
    ASSUME NEW imps, NEW deeper, NEW acc, Len(imps) \in Nat
    PROVE  \E g : ImportTurns(g, imps, deeper, acc) /\ visitAll(imps, deeper, acc) = g[Len(imps)]
<1> DEFINE step(x, n) == deeper[imps[n]][x]
           part(g, n) == g = [i \in 0 .. n |-> IF i = 0 THEN acc ELSE step(g[i - 1], i)]
           S == {n \in Nat : \E g : part(g, n)}
           f == CHOOSE g : part(g, Len(imps))
<1> HIDE DEF step
<1>1. 0 \in S
  <2>1. part([i \in 0 .. 0 |-> acc], 0)
    OBVIOUS
  <2> QED BY <2>1
<1>2. ASSUME NEW n \in Nat, n \in S PROVE n + 1 \in S
  <2>1. PICK g : part(g, n)
    BY <1>2
  <2> DEFINE k == [i \in 0 .. n + 1 |-> IF i = n + 1 THEN step(g[n], n + 1) ELSE g[i]]
  <2>2. \A i \in 0 .. n + 1 : k[i] = IF i = 0 THEN acc ELSE step(k[i - 1], i)
    BY <2>1
  <2>3. part(k, n + 1)
    BY <2>2
  <2>4. \E x : part(x, n + 1)
    <3> HIDE DEF k, part
    <3> QED BY <2>3
  <2> QED BY <2>4
<1>3. \A n \in Nat : n \in S
  <2> HIDE DEF S
  <2> QED BY <1>1, <1>2, NumbersInduct
<1>4. part(f, Len(imps))
  BY <1>3, Zenon
<1>5. visitAll(imps, deeper, acc) = f[Len(imps)]
  BY Zenon DEF visitAll, step
<1> HIDE DEF f
<1> QED BY <1>4, <1>5, Zenon DEF step, ImportTurns

(* A set's elements as a sequence.                                         *)
LEMMA SequenceOf ==
    ASSUME NEW S, IsFiniteSet(S)
    PROVE  /\ SetToSeq(S) \in Seq(S) /\ Len(SetToSeq(S)) \in Nat
           /\ \A x \in S : \E i \in 1 .. Len(SetToSeq(S)) : SetToSeq(S)[i] = x
<1> DEFINE s == SetToSeq(S)
           n == Cardinality(S)
<1>1. n \in Nat /\ ExistsBijection(1 .. n, S)
  BY FS_CardinalityType
<1>2. \E f \in [1 .. n -> S] : IsInjective(f)
  <2>1. PICK f : f \in Bijection(1 .. n, S)
    BY <1>1, Zenon DEF ExistsBijection
  <2>2. f \in [1 .. n -> S] /\ \A a, b \in 1 .. n : f[a] = f[b] => a = b
    BY <2>1, Fun_BijectionProperties
  <2>3. IsInjective(f)
    BY <2>2 DEF IsInjective
  <2> QED BY <2>2, <2>3
<1>3. s \in [1 .. n -> S] /\ IsInjective(s)
  BY <1>2, Zenon DEF SetToSeq
<1> HIDE DEF s, n
<1>4. s \in Injection(1 .. n, S)
  BY <1>3, Fun_IsInj DEF IsInjective
<1>5. Cardinality(1 .. n) = n
  <2>1. 1 \in Int /\ n \in Int /\ (IF 1 > n THEN 0 ELSE n - 1 + 1) = n
    BY <1>1
  <2> QED BY <2>1, FS_Interval
<1>6. s \in Surjection(1 .. n, S)
  BY <1>4, <1>5, FS_Injection DEF n
<1>7. \A x \in S : \E i \in 1 .. n : s[i] = x
  BY <1>6 DEF Surjection
<1>8. s \in Seq(S) /\ Len(s) = n
  BY <1>1, <1>3
<1> QED BY <1>1, <1>7, <1>8 DEF s

(* What a file imports it imports by that: the least sets.                 *)
LEMMA ClosureGrows ==
    ASSUME NEW f \in Files
    PROVE  /\ \A h \in R!Closure[f] : Deps[h] \subseteq R!Closure[f]
           /\ \A h \in Deps[f] : h \in Files /\ h \in R!Closure[f] /\ R!Closure[h] \subseteq R!Closure[f]
           /\ \A C \in SUBSET Files : f \in C /\ (\A h \in C : Deps[h] \subseteq C)
                                      => R!Closure[f] \subseteq C
<1> DEFINE closed(g) == {C \in SUBSET Files : g \in C /\ \A h \in C : Deps[h] \subseteq C}
<1>0. \A g \in Files : R!Closure[g] = {h \in Files : \A C \in closed(g) : h \in C}
  BY DEF R!Closure
<1>1. \A g \in Files : Deps[g] \subseteq Files
  BY ReflectionAssumption
<1>2. ASSUME NEW h \in R!Closure[f] PROVE Deps[h] \subseteq R!Closure[f]
  <2>1. \A C \in closed(f) : Deps[h] \subseteq C
    BY <1>0, <1>2
  <2>2. h \in Files
    BY <1>0
  <2> HIDE DEF closed
  <2> QED BY <1>0, <1>1, <2>1, <2>2
<1>3. ASSUME NEW C \in SUBSET Files, f \in C, \A h \in C : Deps[h] \subseteq C
      PROVE  R!Closure[f] \subseteq C
  <2>1. C \in closed(f)
    BY <1>3
  <2> HIDE DEF closed
  <2> QED BY <1>0, <2>1
<1>4. ASSUME NEW h \in Deps[f]
      PROVE  h \in Files /\ h \in R!Closure[f] /\ R!Closure[h] \subseteq R!Closure[f]
  <2>1. f \in R!Closure[f] /\ R!Closure[f] \subseteq Files /\ h \in Files
    BY <1>1, ClosureInFiles
  <2>2. h \in R!Closure[f]
    BY <1>2, <2>1
  <2>3. closed(f) \subseteq closed(h)
    <3> SUFFICES ASSUME NEW C \in closed(f) PROVE C \in closed(h)
      OBVIOUS
    <3> QED OBVIOUS
  <2> HIDE DEF closed
  <2>4. R!Closure[h] \subseteq R!Closure[f]
    BY <1>0, <2>1, <2>3
  <2> QED BY <2>1, <2>2, <2>4
<1> QED BY <1>2, <1>3, <1>4

(* A call begins, and ends when the imports have been visited.            *)
begun(acc, f) == [acc EXCEPT !.seen = acc.seen \cup {f}]
appended(acc, f) == [acc EXCEPT !.target = Append(acc.target, f)]

(* What a call returns for a file that was seen.                           *)
LEMMA VisitOfSeen ==
    ASSUME NEW files, NEW deeper, NEW depth, NEW f \in Files, NEW acc \in Accs, f \in acc.seen
    PROVE  visit(files, deeper, depth)[f][acc] = acc
BY DEF visit

(* What it returns for one that was not: its imports first, then the file. *)
LEMMA VisitOfNew ==
    ASSUME NEW files, NEW deeper, NEW depth, NEW f \in Files, NEW acc \in Accs,
           depth # 0, f \notin acc.seen
    PROVE  visit(files, deeper, depth)[f][acc]
               = appended(visitAll(Imports(f, files), deeper, begun(acc, f)), f)
<1> DEFINE imported == visitAll(Imports(f, files), deeper, begun(acc, f))
           done == IF depth = 0 \/ f \in acc.seen THEN acc ELSE appended(imported, f)
<1>1. visit(files, deeper, depth)[f][acc] = done
  BY DEF visit, begun, appended
<1> HIDE DEF imported
<1>2. done = appended(imported, f)
  OBVIOUS
<1> HIDE DEF done
<1> QED BY <1>1, <1>2 DEF imported

(* One more element of a sequence.                                         *)
LEMMA OneMore ==
    ASSUME NEW s \in Seq(Files), NEW f \in Files
    PROVE  LET t == Append(s, f)
           IN  /\ t \in Seq(Files) /\ ToSet(t) = ToSet(s) \cup {f}
               /\ linkable(s) /\ Deps[f] \subseteq ToSet(s) /\ f \notin ToSet(s) => linkable(t)
<1> DEFINE t == Append(s, f)
           n == Len(s)
<1>1. n \in Nat /\ DOMAIN s = 1 .. n
  OBVIOUS
<1>2. t \in Seq(Files) /\ DOMAIN t = 1 .. n + 1 /\ t[n + 1] = f
  OBVIOUS
<1>3. \A i \in 1 .. n : t[i] = s[i]
  OBVIOUS
<1>4. \A i \in 1 .. n + 1 : i \in 1 .. n \/ i = n + 1
  BY <1>1
<1>5. \A i \in 1 .. n : i \in 1 .. n + 1 /\ 1 .. i - 1 \subseteq 1 .. n
  BY <1>1
<1>6. 1 .. n + 1 - 1 = 1 .. n /\ n + 1 \in 1 .. n + 1
  BY <1>1
<1> HIDE DEF n, t
<1>7. ToSet(t) = ToSet(s) \cup {f}
  BY <1>1, <1>2, <1>3, <1>4, <1>5, <1>6 DEF ToSet
<1>8. ASSUME linkable(s), Deps[f] \subseteq ToSet(s), f \notin ToSet(s)
      PROVE  linkable(t)
  <2> SUFFICES ASSUME NEW i \in 1 .. n + 1
               PROVE  /\ Deps[t[i]] \subseteq {t[j] : j \in 1 .. i - 1}
                      /\ t[i] \notin {t[j] : j \in 1 .. i - 1}
    BY <1>2 DEF linkable
  <2>1. CASE i \in 1 .. n
    <3>1. {t[j] : j \in 1 .. i - 1} = {s[j] : j \in 1 .. i - 1}
      BY <1>3, <1>5, <2>1
    <3> QED BY <1>1, <1>3, <1>8, <2>1, <3>1 DEF linkable
  <2>2. CASE i = n + 1
    <3>1. {t[j] : j \in 1 .. i - 1} = ToSet(s)
      BY <1>1, <1>3, <1>6, <2>2 DEF ToSet
    <3> QED BY <1>2, <1>8, <2>2, <3>1
  <2> QED BY <1>4, <2>1, <2>2
<1> QED BY <1>2, <1>7, <1>8 DEF t

(* What has been seen is what has been appended, in an order in which it   *)
(* can be linked, and the files whose calls are under way.                 *)
Orderly(acc, under) ==
    /\ acc \in Accs
    /\ acc.seen = ToSet(acc.target) \cup under
    /\ under \cap ToSet(acc.target) = {}
    /\ linkable(acc.target)

(* Nothing is taken away, and what comes is of the files that f needs.     *)
Grown(acc, f, r) ==
    /\ ToSet(acc.target) \subseteq ToSet(r.target)
    /\ ToSet(r.target) \subseteq ToSet(acc.target) \cup R!Closure[f]

(* A call that is not nested too deep appends the file and what it needs.  *)
Completes(files, n, call) ==
    \A f \in Files, acc \in Accs, under \in SUBSET Files :
        /\ R!Closure[f] \subseteq files /\ under \cap R!Closure[f] = {}
        /\ Orderly(acc, under) /\ Cardinality(Files \ under) <= n
        => /\ Orderly(call[f][acc], under) /\ Grown(acc, f, call[f][acc])
           /\ f \in ToSet(call[f][acc].target)

(* The loop over the imports of f, whose call is under way.                *)
LEMMA ImportsVisited ==
    ASSUME NEW files, NEW n \in Nat, NEW call, Completes(files, n, call),
           NEW f \in Files, NEW acc, NEW under \in SUBSET Files,
           R!Closure[f] \subseteq files, under \cap R!Closure[f] = {f},
           Orderly(acc, under), Cardinality(Files \ under) <= n
    PROVE  LET r == visitAll(Imports(f, files), call, acc)
           IN  Orderly(r, under) /\ Grown(acc, f, r) /\ Deps[f] \subseteq ToSet(r.target)
<1> DEFINE imps == Imports(f, files)
           L == Len(imps)
<1>1. \A h \in Deps[f] : /\ h \in Files /\ h \in R!Closure[f] /\ R!Closure[h] \subseteq R!Closure[f]
                         /\ f \notin R!Closure[h]
  BY ClosureGrows, ImportsAssumption
<1>2. Deps[f] \cap files = Deps[f]
  BY <1>1
<1>3. IsFiniteSet(Deps[f])
  BY <1>1, ImportsAssumption, FS_Subset
<1>4. L \in Nat /\ imps \in Seq(Deps[f]) /\ \A h \in Deps[f] : \E i \in 1 .. L : imps[i] = h
  BY <1>2, <1>3, SequenceOf DEF Imports
<1>5. PICK g : ImportTurns(g, imps, call, acc) /\ visitAll(imps, call, acc) = g[L]
  BY <1>4, LoopOfVisits
<1>6. \A i \in 1 .. L : imps[i] \in Deps[f]
  BY <1>4
<1> HIDE DEF imps, L
<1> DEFINE ok(i) == /\ Orderly(g[i], under) /\ Grown(acc, f, g[i])
                    /\ \A j \in 1 .. i : imps[j] \in ToSet(g[i].target)
           S == {i \in Nat : i <= L => ok(i)}
<1>7. 0 \in S
  <2>1. g[0] = acc
    BY <1>4, <1>5 DEF ImportTurns, L
  <2>2. \A j \in 1 .. 0 : FALSE
    OBVIOUS
  <2> QED BY <2>1, <2>2 DEF Grown
<1>8. ASSUME NEW i \in Nat, i \in S PROVE i + 1 \in S
  <2> SUFFICES ASSUME i + 1 <= L PROVE ok(i + 1)
    OBVIOUS
  <2> DEFINE h == imps[i + 1]
             a == g[i]
             r == call[h][a]
  <2>1. i <= L /\ i + 1 \in 1 .. L /\ i + 1 \in 0 .. L /\ i + 1 # 0 /\ i + 1 - 1 = i
    BY <1>4
  <2>2. g[i + 1] = r
    BY <1>5, <2>1 DEF ImportTurns, L
  <2>3. h \in Deps[f]
    BY <1>6, <2>1
  <2>4. ok(i)
    BY <1>8, <2>1
  <2>5. \A j \in 1 .. i + 1 : j \in 1 .. i \/ j = i + 1
    OBVIOUS
  <2> HIDE DEF h, r, a
  <2>6. under \cap R!Closure[h] = {} /\ R!Closure[h] \subseteq files
    BY <1>1, <2>3
  <2>7. a \in Accs /\ Orderly(a, under)
    BY <2>4 DEF Orderly, a
  <2>8. Orderly(r, under) /\ Grown(a, h, r) /\ h \in ToSet(r.target)
    BY <1>1, <2>3, <2>6, <2>7 DEF Completes, r
  <2>9. Grown(acc, f, r)
    BY <1>1, <2>3, <2>4, <2>8 DEF Grown, a
  <2>10. ASSUME NEW j \in 1 .. i + 1 PROVE imps[j] \in ToSet(r.target)
    BY <2>4, <2>5, <2>8 DEF Grown, a, h
  <2> QED BY <2>2, <2>8, <2>9, <2>10
<1>9. \A i \in Nat : i \in S
  <2> HIDE DEF S
  <2> QED BY <1>7, <1>8, NumbersInduct
<1>10. ok(L)
  <2>1. L <= L
    BY <1>4
  <2> QED BY <1>4, <1>9, <2>1
<1>11. Deps[f] \subseteq ToSet(g[L].target)
  <2> HIDE DEF S
  <2> QED BY <1>4, <1>10
<1> QED BY <1>5, <1>10, <1>11 DEF imps

(* One call more of nesting.                                               *)
LEMMA VisitCompletes ==
    ASSUME NEW files, NEW n \in Nat, NEW call, Completes(files, n, call)
    PROVE  Completes(files, n + 1, visit(files, call, n + 1))
<1> SUFFICES ASSUME NEW f \in Files, NEW acc \in Accs, NEW under \in SUBSET Files,
                    R!Closure[f] \subseteq files, under \cap R!Closure[f] = {},
                    Orderly(acc, under), Cardinality(Files \ under) <= n + 1
             PROVE  LET r == visit(files, call, n + 1)[f][acc]
                    IN  Orderly(r, under) /\ Grown(acc, f, r) /\ f \in ToSet(r.target)
  BY DEF Completes
<1> DEFINE d == n + 1
           r == visit(files, call, d)[f][acc]
<1>1. f \in R!Closure[f] /\ f \notin under
  BY ClosureInFiles
<1>2. d # 0
  OBVIOUS
<1> HIDE DEF d
<1>3. CASE f \in acc.seen
  <2>1. r = acc
    BY <1>3, VisitOfSeen
  <2>2. f \in ToSet(acc.target)
    BY <1>1, <1>3 DEF Orderly
  <2> QED BY <2>1, <2>2 DEF Grown, d
<1>4. CASE f \notin acc.seen
  <2> DEFINE a == begun(acc, f)
             now == under \cup {f}
             imported == visitAll(Imports(f, files), call, a)
  <2>1. r = appended(imported, f)
    BY <1>2, <1>4, VisitOfNew
  <2>2. a \in Accs /\ a.target = acc.target /\ a.seen = acc.seen \cup {f}
    BY DEF Accs, begun
  <2> HIDE DEF a
  <2>3. Orderly(a, now)
    BY <1>4, <2>2 DEF Orderly
  <2>4. now \in SUBSET Files /\ now \cap R!Closure[f] = {f}
    BY <1>1
  <2>5. Cardinality(Files \ now) <= n
    <3>1. IsFiniteSet(Files \ under) /\ f \in Files \ under
      BY <1>1, ImportsAssumption, FS_Subset
    <3>2. /\ Cardinality((Files \ under) \ {f}) = Cardinality(Files \ under) - 1
          /\ Cardinality(Files \ under) \in Nat
      BY <3>1, FS_RemoveElement, FS_CardinalityType
    <3>3. (Files \ under) \ {f} = Files \ now
      OBVIOUS
    <3> DEFINE c == Cardinality(Files \ under)
               k == Cardinality(Files \ now)
    <3>4. k = c - 1 /\ c \in Nat /\ c <= n + 1
      BY <3>2, <3>3
    <3> HIDE DEF c, k
    <3>5. k <= n
      BY <3>4
    <3> QED BY <3>5 DEF k
  <2> HIDE DEF now
  <2>6. /\ Orderly(imported, now) /\ Grown(a, f, imported)
        /\ Deps[f] \subseteq ToSet(imported.target)
    BY <2>3, <2>4, <2>5, ImportsVisited
  <2> HIDE DEF imported
  <2>7. imported \in Accs /\ imported.target \in Seq(Files)
    BY <2>6 DEF Orderly, Accs
  <2>8. f \notin ToSet(imported.target) /\ linkable(imported.target)
    BY <2>6 DEF Orderly, now
  <2> DEFINE longer == Append(imported.target, f)
  <2>9. longer \in Seq(Files) /\ ToSet(longer) = ToSet(imported.target) \cup {f} /\ linkable(longer)
    BY <2>6, <2>7, <2>8, OneMore
  <2> HIDE DEF longer
  <2>10. r \in Accs /\ r.target = longer /\ r.seen = imported.seen
    BY <2>1, <2>7, <2>9 DEF Accs, longer, appended
  <2> HIDE DEF r
  <2>11. Orderly(r, under)
    <3>1. imported.seen = ToSet(imported.target) \cup under \cup {f}
      BY <2>6 DEF Orderly, now
    <3>2. under \cap ToSet(imported.target) = {}
      BY <2>6 DEF Orderly, now
    <3> QED BY <1>1, <2>9, <2>10, <3>1, <3>2 DEF Orderly
  <2>12. Grown(acc, f, r) /\ f \in ToSet(r.target)
    BY <1>1, <2>2, <2>6, <2>9, <2>10 DEF Grown
  <2> QED BY <2>11, <2>12 DEF r, d
<1> QED BY <1>3, <1>4

(* The download of a service whose file is there with all it imports.      *)
LEMMA AllAccumulated ==
    ASSUME NEW files, NEW f \in Files, R!Closure[f] \subseteq files
    PROVE  LET t == accumulateFiles(files)[f][[seen |-> {}, target |-> << >>]].target
           IN  ToSet(t) = R!Closure[f] /\ linkable(t)
<1> DEFINE L == Cardinality(Files)
           start == [seen |-> {}, target |-> << >>]
<1>1. PICK g : /\ g = [n \in 0 .. L |-> visit(files, g[n - 1], n)]
               /\ accumulateFiles(files) = g[L]
  BY RecursionOfVisits
<1>2. L \in Nat
  BY ImportsAssumption, FS_CardinalityType
<1> DEFINE S == {n \in Nat : n <= L => Completes(files, n, g[n])}
<1>3. 0 \in S
  <2> SUFFICES ASSUME NEW h \in Files, NEW under \in SUBSET Files,
                      under \cap R!Closure[h] = {}, Cardinality(Files \ under) <= 0
               PROVE  FALSE
    BY DEF Completes
  <2>1. h \in Files \ under
    BY ClosureInFiles
  <2>2. IsFiniteSet(Files \ under)
    BY ImportsAssumption, FS_Subset
  <2>3. Cardinality(Files \ under) \in Nat /\ Cardinality(Files \ under) # 0
    BY <2>1, <2>2, FS_EmptySet, FS_CardinalityType
  <2> QED BY <2>3
<1>4. ASSUME NEW n \in Nat, n \in S PROVE n + 1 \in S
  <2> SUFFICES ASSUME n + 1 <= L PROVE Completes(files, n + 1, g[n + 1])
    OBVIOUS
  <2>1. n <= L /\ n + 1 \in 0 .. L /\ n + 1 - 1 = n
    BY <1>2
  <2>2. g[n + 1] = visit(files, g[n], n + 1)
    BY <1>1, <2>1
  <2>3. Completes(files, n, g[n])
    BY <1>4, <2>1
  <2> QED BY <2>2, <2>3, VisitCompletes
<1>5. \A n \in Nat : n \in S
  <2> HIDE DEF S
  <2> QED BY <1>3, <1>4, NumbersInduct
<1>6. Completes(files, L, g[L])
  <2>1. L <= L
    BY <1>2
  <2> QED BY <1>2, <1>5, <2>1
<1>7. ToSet(<< >>) = {}
  BY DEF ToSet
<1>8. Orderly(start, {})
  <2>1. start \in Accs
    BY DEF Accs
  <2>2. linkable(<< >>)
    BY DEF linkable
  <2> QED BY <1>7, <2>1, <2>2 DEF Orderly
<1>9. Cardinality(Files \ {}) <= L
  <2>1. Files \ {} = Files
    OBVIOUS
  <2> QED BY <1>2, <2>1
<1> DEFINE r == g[L][f][start]
<1>10. Orderly(r, {}) /\ Grown(start, f, r) /\ f \in ToSet(r.target)
  <2>1. start \in Accs
    BY <1>8 DEF Orderly
  <2> HIDE DEF L, start, S
  <2> QED BY <1>6, <1>8, <1>9, <2>1 DEF Completes
<1>11. ToSet(r.target) \subseteq R!Closure[f]
  BY <1>7, <1>10 DEF Grown
<1> DEFINE t == r.target
<1>12. linkable(t) /\ t \in Seq(Files)
  BY <1>10 DEF Orderly, Accs
<1>13. f \in ToSet(t) /\ ToSet(t) \subseteq R!Closure[f]
  BY <1>10, <1>11
<1> HIDE DEF t
<1>14. ASSUME NEW h \in ToSet(t) PROVE Deps[h] \subseteq ToSet(t)
  <2>1. DOMAIN t = 1 .. Len(t) /\ Len(t) \in Nat
    BY <1>12
  <2>2. PICK i \in DOMAIN t : h = t[i]
    BY <1>14 DEF ToSet
  <2>3. Deps[h] \subseteq {t[j] : j \in 1 .. i - 1}
    BY <1>12, <2>2 DEF linkable
  <2>4. 1 .. i - 1 \subseteq DOMAIN t
    BY <2>1
  <2> QED BY <2>3, <2>4 DEF ToSet
<1>15. ToSet(t) \in SUBSET Files
  BY <1>13, ClosureInFiles
<1>16. R!Closure[f] \subseteq ToSet(t)
  BY <1>13, <1>14, <1>15, ClosureGrows
<1> QED BY <1>1, <1>12, <1>13, <1>16 DEF t

(* A watcher that is ready has, for each of its services, the file with    *)
(* everything it imports, no file of a reflecting server comes twice, and  *)
(* the schema that the admin endpoints hand out for the service is that:   *)
(* what the file needs and no other, in an order in which it can be        *)
(* linked.                                                                 *)
THEOREM ReadySchemasComplete ==
    ASSUME WholeReplies
    PROVE  Spec => []ReadyIsComplete
<1>1. Ends /\ SchemasWhole /\ R!NoDuplicates => ReadyIsComplete
  <2> SUFFICES ASSUME Ends, SchemasWhole, NEW p \in DOMAIN w, w[p] = "ready",
                      NEW svc \in DOMAIN conf.services, conf.services[svc].descriptors = p
               PROVE  /\ ToSet(handleServiceSchema(svc)) = R!Closure[FileOf[svc]]
                      /\ linkable(handleServiceSchema(svc))
    BY DEF ReadyIsComplete
  <2>1. R!Closure[FileOf[svc]] \subseteq schema[p]
    BY DEF SchemasWhole
  <2>2. pc \notin Fresh
    BY DEF Ends, Shape
  <2>3. FileOf[svc] \in Files
    BY <2>2, StartedPollers, ReflectionAssumption DEF Ends
  <2>4. handleServiceSchema(svc)
            = accumulateFiles(schema[p])[FileOf[svc]][[seen |-> {}, target |-> << >>]].target
    BY Zenon DEF handleServiceSchema
  <2> QED BY <2>1, <2>3, <2>4, AllAccumulated
<1> QED BY <1>1, EndsInvariant, SchemasAreWhole, FilesComeOnce, PTL
=============================================================================
