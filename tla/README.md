# The Knit gateway in TLA+

Specifications of `knit-go`: the library that answers Knit queries (Fetch, Do,
Listen) by calling RPC backends and stitching relations into their responses,
the gateway process that keeps an instance of that library up to date with the
schemas of the backends, and the servers of its tests. `PROJECT.json` maps
every definition to the source lines it models. TLC checks small instances;
TLAPS proves the main safety properties for all of them.

## 1. The system

A client sends a *mask*: a tree of fields it wants. Some names in a mask are
not fields but *relations*: a resolver method computes them for a batch of base
entities. The gateway validates the mask, calls the entry points' methods,
formats the responses by the mask, and then resolves relations in rounds until
none is left.

```
 client --Fetch/Do/Listen--> handler --validate--> schema (relations registered by knit/relation)
                               |  entry point RPCs (errgroup + semaphore)
                               |  format: values by mask, one patch per relation found
                               +--> stitcher: rounds of batched resolver RPCs (same semaphore)

 file --LoadConfig--> CreateGateway --> cache, pollers, watchers
 sources --poll--> watchers --OnUpdate--> updateChan --> updater --CreateHandler--> delegate
                                    main --CreateHandler (once)--------------------^   |
                                    admin /reload-now --ResolveNow--> watchers         +--> serves
 listeners <--Shutdown-- signals, failed listeners (errgroup of main)
```

| Component | State it keeps | Operations | What is hard | What makes it correct |
|---|---|---|---|---|
| stitcher (`stitcher.go`) | queue of patches, errgroup, semaphore permits, the formatted structs | `stitch`, `resolve`, the semaphores | goroutines of one round write into shared structs; errors travel up to a catch clause; permits on error paths | errors at their nearest catch clause and nowhere else; each patch resolved once and in one batch with its siblings; permits exact; it ends |
| unary handler (`handler.go`, `do`) | bodies, errPatches of the entry points | validate, call entry points, stitch, replace bodies | errors arrive after the body was made; one failure among many | no failure hidden, no slot left out, a caught error fails nobody else |
| stream handler (`handler.go`, `Listen`) | message, error patch, schema flag, all for the life of the stream | open, receive, stitch, send | state kept from one message to the next | each message stands for itself |
| header propagation (`handler.go`, interceptors) | headers and operations of the call | `propagateHeaders`, `resolveMeta`, interceptors | handed down by many goroutines with one meta | each resolver gets the client's headers and its own operations |
| formatting (`format.go`) | slices of paths, structs, patches | `formatMessage`, values, names, patches, errors | errPatch handed down through nesting; paths share arrays; numbers at the limits of JSON; names go through two case conversions | what the client reads by the schema is what the backend sent; paths name the place of the error |
| schemas (`schema.go`) | none | `computeResponseSchema`, `computeSchema` | a traversal apart from that of format and stitch, which rely on it | an accepted mask names only what can be answered; Fetch has no side effects |
| registration (`knit.go`, `relation.go`) | `methods`, `relations` | `addService`, `addRelation`, `getRelationConfig` | a service refused half-way stays half-registered | a relation keeps its resolver; resolvers have no side effects |
| codec (`codec.go`) | deferred bytes of one message | `Unmarshal`, `deferredMessage.unmarshal` | buffers go back to a pool before the message is read; messages of size zero never reach the codec | the message is what was sent |
| configuration, TLS (`config.go`, `tls.go`) | settings | `LoadConfig`, the merge of defaults | one setting comes from several places; defaults filled in between checks | accepted means complete, as the file says, and able to carry the protocol |
| descriptor sources (`descriptors.go`) | poller clients | `GetSchema` of the file, BSR and gRPC reflection pollers | what a reflection server sends along is its own choice | whole import graph, no file twice |
| schema cache (`cache.go`, `gateway.go`) | saved schemas, a connection | open, save, load, close | sources that are down when the process starts again; saves that fail or come too late, entries that expire | what was downloaded and kept is there after a restart |
| hot-swappable gateway (`gateway.go`) | `delegate`, `updateChan`, watchers | `CreateGateway`, `CreateHandler`, `handleUpdates`, `OnUpdate`, `AwaitReady` | two builders, dropped and drained signals, debounce, jitter; failure half-way | the handler never goes back and always catches up; nothing is left open |
| admin endpoints (`admin.go`) | none | reload-now, lists of methods, download of schemas | reload races with polls; classification and linking written a second time | reload never loses an update; lists and schemas agree with what is served |
| server process (`cmd/knitgateway/main.go`) | listeners, context | start, serve, shut down | listeners that fail or bind late, signals, deadline of the shutdown | ends as a whole, answers what it accepted |
| crosstest server (`internal/crosstest`) | two stores with counters | create, get, list, update, delete; two resolvers | check and store in two calls of a `sync.Map` | deletes last; relations lead back; a Fetch changes nothing |
| generated clients and handlers (`*.connect.go`) | none | procedures, routing, idempotency | URLs put together in two ways | a call reaches its method |
| generated message types (`*.pb.go`), request logging, version | | | none | see section 8 |

## 2. Modules

| Module | Models | Extends |
|---|---|---|
| `KnitQuery` | shape of a unary request, catch rule | |
| `UnaryAnswer` | what a caller of Fetch or Do is promised (abstract) | `KnitQuery` |
| `Stitcher` | rounds, batches, goroutines, semaphore, writes | `KnitQuery` |
| `UnaryHandler` | `do`: entry points composed with the stitcher; properties; implements `UnaryAnswer` | `Stitcher` |
| `UnaryHandlerProofs` | theorems: permits, batches, errors that stick | `UnaryHandler` |
| `UnaryAnswerProofs` | theorems: the answer to a request, and that `UnaryAnswer` is implemented | `UnaryHandlerProofs` |
| `PatchMeta` | the mask of a query as patches see it; headers and operations of resolver calls | |
| `PatchPaths` | paths as slices that share arrays, and what goes down with them | `PatchMeta` |
| `PatchPathsProofs` | theorems | `PatchPaths` |
| `DynamicCodec` | `codec.go`: deferred messages, and empty ones | |
| `Listen` | `Listen` with that codec | `DynamicCodec` |
| `ListenProofs` | theorems | `Listen` |
| `KnitNames` | camel case, snake case, look-up of fields | |
| `FieldTypes` | types of fields and the types that schemas state for them | |
| `Registration` | registration, validation, the answer level by level and round by round, lists of the admin pages | `KnitNames`, `FieldTypes` |
| `Values` | JSON of every kind of value, errors | `KnitNames`, `FieldTypes` |
| `Queries` | the same gateway with values and errors in its responses | `Registration`, `Values` |
| `QueriesProofs` | theorems | `Queries` |
| `TLSSettings` | `tls.go` | |
| `Config` | `LoadConfig` | `TLSSettings` |
| `GrpcReflection` | `grpcReflectionPoller.GetSchema` | |
| `Startup` | `CreateGateway`, watchers until they are ready, cache, crash and restart | `Config`; an instance of `GrpcReflection` |
| `AdminSchemas` | download of schemas from the admin endpoints, with its recursion | `Startup` |
| `StartupProofs` | theorems about the three | `AdminSchemas` |
| `ServedSchemas` | what the hot-swappable gateway promises (abstract) | |
| `GatewayUpdates` | watchers, signal, `CreateHandler`, `handleUpdates`, main's first handler; implements `ServedSchemas` | |
| `GatewayUpdatesProofs` | theorems | `GatewayUpdates` |
| `Server` | listeners, signals, shutdown and exit of the process | |
| `ServerProofs` | theorems about the gateway's process and the crosstest server | `MCServer` |
| `ConnectGlue` | what `protoc-gen-connect-go` makes of a service | |
| `CrosstestConnect`, `KnittestConnect` | the six generated services | `ConnectGlue` |
| `Crosstest` | the crosstest server, its callers and its gateway | `CrosstestConnect` |
| `MC*` | values for the constants; `MCServer` puts the server programs side by side, `MCRequests` the handlers of a request | what they check |

### KnitQuery, Stitcher, UnaryHandler, UnaryAnswer

A request is static data. `Reqs` are its entry points. `Slots` are the relation
fields the response *may* contain: one for each pair (`formatTarget`,
`mask.Name`) of a patch, so that two elements of a list give two slots. `Up`
tells what a slot hangs below, `OnError` the clause of its mask, and `Key` the
part of the group key that comes from the mask. Which slots really appear is
chosen step by step (`MethodReturns`, `WriteValue`: any subset of the children),
as it depends on list lengths and field presence in the backends' replies. What
the values say is abstracted to "absent", "value", or the error of the place
whose call failed: properties are about where errors go and what is left out.

A goroutine is named by the entry point, or by its first patch (`batch[0]`).
`g[x]` follows it through the code: `acquire` (before `sema.Acquire`), `call`
(in the RPC), `fail` or `ok` (in the loop over the batch), `err` (has returned
an error, which the errgroup will record after the deferred `Release`), `done`.
Each write to a target is a step of its own, so goroutines interleave between
the patches of a batch. The order of patches in a group depends on mask order, map iteration
and the order of appends under the lock; `StartRound` chooses any first patch,
and the loop takes the others in any order.

- The bounded semaphore refuses a context that is done even when permits are
  free, as that of `golang.org/x/sync` v0.12 does (`go.mod`); the unbounded one never does
  (`MaxParallelism = 0`).
- The context of the goroutines ends with the inbound one or with the first
  error the errgroup recorded. A call under a dead context may still succeed or
  fail: both are possible in the model.
- A nil `errPatch` that is dereferenced leads to phase `panic`.
- The module of the repository asks for a Go version with per-iteration loop
  variables, so closures capture their own entry point and batch.

`UnaryAnswer` has no goroutines, rounds or permits: calls fail, and then the
request returns in one step, either with an answer in which exactly the clauses
nearest to a failure show an error, each that of a failure it is nearest to, or
as a failure with a reason (the caller gave up, something was unusable, or a
call failed that no clause catches). The mapping in `UnaryHandler` shows the
formatted structs only once the request has succeeded; `AnswersAtOnce` says
that the handler implements it.

### PatchMeta, PatchPaths

A path is a Go slice: a view of an array on a heap, and `append` writes in
place when there is room; a full array is copied to one of twice the size.
`begin` starts a value with any of the fields it may have (`shapes`), and
`FormatField` formats one name after the other, in the order of the mask, while
other goroutines of the round do the same; `Formatted` hands the value's patches
to the next round. Patches keep the slice of their message, and goroutines of a
failed batch append to it at `stitcher.go:161`. `Within` says what a name of the
mask is in, and `Path` is given beside it, with the assumption that it is what
`Within` makes of it. Strings are two words, and
`WriteWord` writes them one at a time, so that a torn read is possible, as the
Go memory model permits for a race. `meta` holds operations, headers and the
client's certificate as `resolveMeta` hands them on; `outbound` puts the
interceptors of the gateway on top.

### DynamicCodec, Listen

One goroutine, so the steps are those of the loop: `Receive` (the library reads
a message to a buffer and the codec defers it), `Unmarshal` (and format),
`Stitch` or `StitchEscapes` (a relation error that no clause of the mask
caught), `Send`. Between `Receive` and `Unmarshal` the buffer is back in the
pool and another call may fill it (`ReuseBuffer`). A run of the stitcher is one
step; what it can do to a message is what `UnaryHandler` shows. The module is
about what outlives a message: the buffer, `responseMessage`, `errField` and
`sentSchema`.

### KnitNames, FieldTypes, Registration, Values, Queries

Names are short sequences over `a b A B _ 1`: the two conversions treat
letters by case only, digits and underscores specially. `addMethod` is a turn
of `addService`'s loop, `getRelationConfig` the checks on the messages of a
resolver, one by one, `computeSchema` the validation, `schemaOf` the schema it
returns. A service comes with a pool of message definitions of its own, so that
the gateway may know a message in two versions: a field is looked up in the
version at hand, and `canAddRelation` in that of the resolver.

Validation goes through the mask by descriptors, before anything is called
(`reached`, `asked`): a name is a field, else a relation. The answer is made by
steps that do not use any of that. `Format` formats one level of messages, takes
every name that is no field for a relation without asking whether there is one,
and leaves absent what it likes; `Stitch` looks the relations of a round up by
the message at hand, fails if it does not know one (`stitcher.go:63`), and has
the values of the others formatted by the wrapper's field. `response` collects
the descriptors by which fields were formatted, `called` the resolvers. So
`AcceptedIsAnswerable`, `FetchIsSafe` and `ResponseFitsSchema` compare two
readings of a mask. Both look a name up with the same functions
(`fieldWithCamelCaseName`, `relationOf`), as in the code. One path stands for all
elements of a list; the presence of every field, scalars too, is left open.

The loop of `addService` is a function of the number of its turns, and the
traversal of the validation one of the number of names gone through, up to
`MaxDepth`. A base or a wrapper that is a well-known type counts as laid out
wrongly, as a scalar does.

`Queries` is `Registration` with one variable more, `sample`: a value, or an
error, of the response. Without it a behaviour is one of `Registration`
(lemma `AnswersAsRegistered`), so that what holds there holds here.

`Values` has one operator for the type a schema states and one for the JSON
that is sent, for every scalar kind, enums, lists, maps with all kinds of keys,
the well-known types, `Any`, and errors with details. What `protojson` makes of
the message in an `Any` is external: a `Duration` is exact there, and an `Any` in
an `Any` is unfolded up to `MaxAnys` times. `read` is a client: it
reads JSON by the schema alone. Numbers are scaled down with their proportions
kept (`Bits32 < Mantissa < Bits64`), so that truncation, precision of a double,
and the change from number to string all happen. `telling` lists what cannot be
read back, whichever way it is done (durations beyond the range of Go's type,
field masks whose names do not survive two case conversions, in an `Any` too, and
an `Any` whose contents are inlined).

### TLSSettings, Config, Startup

`LoadConfig` is a function from the parsed file to the settings, or to `Nil` when
any check fails; the definitions follow the functions of `config.go` and
`tls.go`. Files with certificates are known by which fit together and which
hold authorities, and modules by whether there is a `BUF_TOKEN` for them
(`Modules`). `Startup` loads one configuration, and, if it is one of
`Started`, creates the gateway: the cache is opened (or fails), one poller after
the other gets a watcher, which starts to poll before the next one is added
(`NewWatcher` and `AddWatcher` are two steps: the write to the map of watchers
is in between, and a range over that map at the same time may end the process,
`pc = "fatal"`). Watchers download, reflect (exchange by exchange, through the
instance of `GrpcReflection`) or load from the cache; sources fail for good
(`SourceFails`); the context ends, and the cache is closed and then the watchers stopped, in the order of the
code; the process may crash at any time and be started again with the same file
and what the cache kept.

A download and its `Save` are two steps, with `OnUpdate` and the failure of the
process in between: `unsaved` has the watchers whose schema is still to be
saved. `Save` may fail, which is logged and not tried again (`cache.go:200-206`),
or come when the cache is closed; `Expire` drops an entry of a redis or memcached
server at any time. `kept` is a history of what the cache should have in spite of
all that. When `Save` happens relative to `OnUpdate` is left open; each watcher
downloads once in a process, as later downloads are what `GatewayUpdates` is
about; and a `Load` is taken to answer.

`handleServiceSchema` (`AdminSchemas`) is the download of the admin endpoints; a call of `accumulateFiles` is a function of how
deep it may still nest, which is never deeper than there are files.

### GrpcReflection

Each `Ask` is one exchange on the stream with `handleFiles` applied to the reply.
The server may answer with any set of files the protocol allows; `WholeReplies`
says that it always sends every import it has not sent before. `results` counts
how often each file was appended.

### GatewayUpdates, ServedSchemas

A version number stands for a schema. `Publish` changes a source, `Poll` is one
successful poll by a watcher (an external library: it keeps the last schema and
calls `OnUpdate` asynchronously when it changed), `OnUpdate` does the
non-blocking send and, for the first watcher under jitter, calls `ResolveNow`
on the others. `CreateHandler(q)` is split at its shared accesses: one look-up
per service (watchers may change in between), `delegate.Load`, then either
`Store` or the drain of `updateChan` followed by `CompareAndSwap`. The two callers are `main`, once, and the
`updater`, whose loop has a debounce with its own `select`. `Bad` holds
versions that cannot be registered. `QuietStartup` restricts `Poll` while main
builds the first handler; it is a condition under which `NoLostUpdate` holds,
not something the code ensures (section 6).

`ServedSchemas` is a register: it is set, at one stroke, to descriptors that are
at hand and can be registered, never to something older.

### Server

The process after startup: one goroutine per listener (`Bind`, `Serve`, and its
returns), the goroutine that waits for a signal or the group's error and then
shuts every server down, and `main` at `group.Wait`. `net/http` is external and
modelled by what the code relies on: `Shutdown` closes the listeners, waits for
the requests, gives up when its context ends, and makes later calls of `Serve`
return at once. Requests on cleartext HTTP/2 connections are not among those
`Shutdown` waits for, as `h2c` takes such connections over; they are not
counted. Closing a listener is taken not to fail.

### ConnectGlue, CrosstestConnect, KnittestConnect, Crosstest

A service is its methods with their idempotency and whether they stream; a
procedure, a client's URL and a handler's pattern are sequences of words, so
that a slash too many or too few leads elsewhere. `Crosstest` has two callers
that use the generated clients, by POST or GET, or a Fetch or Do of the gateway
on the same mux. Methods take a step for each call of a `sync.Map`; `Range`
visits one key at a time while others change the map. Ids are the digits of a
number to a small radix, so that one id can be a prefix of another.

## 3. Runs

Runs that "violate" a property state what a comment or a document of the
repository says; section 6 explains them.

| Run | Instance | Shows |
|---|---|---|
| `requests` | a Fetch: 2 entry points, 7 slots, 2 permits; a Listen: up to 4 messages of 3 kinds; the paths and headers of a Fetch: 14 names, 6 of them relations, up to 6 deep; 221,665 states | implements `UnaryAnswer`; no gaps, permits exact, batching, it ends; streams faithful but for two cases, complete, answered; paths right unless shared, paths of values stay, headers |
| `unary_mixed_masks` | 1 entry point, 2 slots of one key, one catches, no limit | `NoPanic` violated |
| `listen_messages` | the Listen of `requests` | `EachMessageForItself` violated |
| `queries` | 83 sets of messages: 72 pairs of field names, 10 resolvers laid out wrongly, a message with every type; 4 services in any order, two of them with older messages; 75,914 states | accepted is answerable, Fetch safe, response fits schema and is readable by it, errors stand out, fields selectable, pages agree |
| `startup` | 8,455 configuration files, 4 of them started, one restart; 40,660 states | configuration, TLS, complete schemas, cache, nothing left open |
| `startup_stanza` | the files with TLS settings and defaults | `StanzaPrevails` violated |
| `startup_sync` | the gateways that are started | `SyncsAllOthers` violated |
| `reflection_single` | 6 files, 3 services, replies may be partial | `WholeGraph` violated |
| `updates` | 2 sources, 3 versions each, debounce; 243,511 states | implements `ServedSchemas`; nothing lost, catches up, updater ends |
| `updates_startup_lost` | 3 services on 2 sources, no `QuietStartup` | `NoLostUpdate` violated |
| `updates_jitter` | jitter on | `EventuallyCurrent` violated |
| `server` | gateway: 3 listeners, 2 servers, 2 requests each; crosstest server: 2 callers; 522,534 states | graceful exit, stops as a whole, shuts down for a reason; routing, deletes, relations, Fetch |

### Why the bounds are enough

- *Unary.* Seven slots have every situation the stitcher tells apart: a batch
  of two (`posts`), a second round whose batch depends on the first (`author`),
  a clause above a clause, a branch without any, an explicit throw two levels
  down, and another entry point whose slot shares the round but not the batch
  and whose errors climb to the entry point. With two permits, goroutines of
  one round wait for each other (the first round has up to three batches). The
  safety properties that are proved do not depend on the bound. Fetch and Do
  differ in `shouldCatch` alone, which the properties use as the code does; the
  clauses of the run give it both values at every level.
- *Paths.* Arrays with and without room behind a path occur at four depths,
  with fields and with relations as siblings, in the same round and in the next.
  Arrays of eight names are needed for two names of different messages to be
  written to one slot, which happens below `lat` and `lon`.
- *Listen* (`MaxMsgs = 4`). An error or an empty message can come first, in the
  middle, after another, and last.
- *Queries.* The nine spellings include all pairs that the conversions
  confuse: capitals first and inside, leading underscores, digits after
  underscores. All pairs of different names are tried, also those that have the
  same camel case, as proto2 allows. Each check of `getRelationConfig` has a
  resolver that fails it. The second version of `User` lacks a field, so that a
  relation may have its name. Depth three (`MaxDepth`) passes through field, relation and field
  again; an `Any` holds an `Any` that holds a message (`MaxAnys = 2`). With
  `Bits32 = 3`, `Mantissa = 4` and `Bits64 = 6` each kind is taken at its least
  and greatest values, at zero, and on both sides of the mantissa.
- *Startup.* The files are the products of what interacts: protocol, scheme and
  h2c; encodings and sockets; two backends with services and sources in common;
  the TLS stanza of a backend and the defaults; listeners and admin listener;
  periods and origins. Settings that are not in one product are read by
  separate code. Four gateways are started, which have every pair of kinds of
  sources, each kind of cache and none, jitter on and off; one restart is
  enough, since the cache is all that passes from one process to the next. No
  started gateway has two sources of one kind.
- *Reflection.* The poller's state is the set of files seen; order of symbols
  and the choice of files in replies are exhausted.
- *Updates* (`MaxVersion = 3`). With two changes per source a signal can be
  pending while another comes, a change can fall into the debounce, the build,
  or between two look-ups, and the bad version can come and go.
- *Server* (`MaxActive = 2`). All listeners that can be configured; one request
  can be answered while another is not. *Crosstest* (`Radix = 2`,
  `MaxParents = 2`, `MaxChildren = 1`): the ids 1 and 10 are given out, one of
  which is a prefix of the other, and either can get the child; two callers are
  enough for a check and a store with another's delete in between. Base URLs
  come with and without a slash.

No run uses symmetry: entry points, slots, sources and services differ.

### Deadlock

Deadlock is not checked where the program really stops: the handler has
returned, the process has exited, the stream has ended, all ids are given out
and callers are done. That nothing gets stuck earlier is what `FetchTerminates`,
`UpdaterTerminates`, `StopsAsAWhole`, `ComesReady` and `Answered` say. The
`queries` run checks deadlock.

### Fairness

- `UnaryHandler`: `WF_vars(System)`. Go schedules runnable goroutines; each RPC
  of a backend returns, if only with a timeout or the end of the context. `Cancel`
  is the caller's and is not fair. Weak fairness of the disjunction is enough,
  since every step moves some goroutine on and none goes back.
- `GatewayUpdates`: weak fairness of `Main`, of `Updater`, of each watcher's
  `Poll` and each `OnUpdate`: goroutines are scheduled, timers fire, and a watcher that polls
  periodically is answered some time. `Publish`, `PollFails`, `StartupTimesOut`,
  `Shutdown` and `ReloadNow` are the environment's.
- `Startup`: weak fairness of each kind of watcher: a watcher goes on trying
  until it has a schema. Nothing is assumed of main, as `ComesReady` is about a
  gateway that runs, nor of `Save`: if it never comes, the cache is not said to
  keep anything beyond the process. Failures, expiry, the end of the context,
  crashes and restarts are not fair.
- `Listen`: `WF_streamVars(Handler)`, the handler's own steps; nothing is assumed
  of the backend's stream. In `MCRequests` a behaviour has one of the views, and
  the fairness is that of its handler.
- `Server`: weak fairness of each listener's goroutine, of the goroutine that
  shuts down (its timer included) and of main. Requests need never be answered.
  In `MCServer` this is assumed of the gateway only.
- `GrpcReflection`: `WF_vars(Next)`; no liveness is claimed.
- `PatchPaths`, `Queries` and `Crosstest` have safety properties only.

## 4. Properties

**Unary.** `AnswersAtOnce`: the handler implements `UnaryAnswer`, so that a
successful response shows each failed call at the nearest clause above it and
no other error, hides none, and the request as a whole fails only for a reason.
`NoSilentGap`: every slot a successful response reaches has been worked off and
holds a value or an error, unless the resolver said there is none.
`SemaphoreExact`, `NothingLeftRunning`: permits and goroutines. `ResolvedOnce`,
`OneBatchPerMask`: batching, the reason for relations to be resolved in rounds:
values of one mask are resolved by one call, however the goroutines interleave,
and apart from those whose masks differ in params or relation. Sameness is that
of the group key, so this does not say that masks without params are kept apart;
they are not (section 6, 1).
`NoPanic`, `Terminates` (`FetchTerminates` in the run).

**Paths.** `RightUnlessShared`: an error's path is right unless a mask on the way
has several names and the array of its path had room, and then every name in it
is the right one or one that was appended to the same path. `ResolvedPathsStay`: no append reaches the path of a value.
`HeadersReachResolvers`: operations, headers and identity at every depth.

**Listen.** `FaithfulPrefix` (with its two exceptions, which are findings),
`NothingDropped`, `Answered`.

**Queries.** `AcceptedIsAnswerable`: what formatting takes for a relation is one,
in every round. `FetchIsSafe`. `ResponseFitsSchema`: every field of the response
was formatted by a descriptor of the type that the schema states for its place,
and nothing of the schema is missing in a response that is complete. A schema
has names in camel case and a response as the mask spells them, so that a client
that used snake case has to convert (`schema.go:184`, `format.go:290`); the
property says that it then finds the type, and that only, if no two fields of a
message share their camel case. `EveryFieldSelectable`: the camel case of a field's
name finds a field with that camel case, which need not be the same one in
proto2; then the other cannot be reached.
`ReadableBySchema`: what a client reads by the schema is what the backend sent,
`ErrorsStandOut`, `ListedAsAccepted`.

**Startup.** `TypeOK`: an accepted configuration is complete. `AsTheFileSays`:
routing, shared pollers, the exposure of the admin endpoints, origins.
`TransportFits`, `DefaultsFillGaps`. `ReadyIsComplete`: a watcher that is ready has
whole schemas, from wherever they came, and the download links.
`NothingLeftOpen`. `ComesReady`: what stays obtainable, from its source or from a
cache that kept it, is obtained, after a restart too. `DefaultsFillGaps` has an
exception for `cacert`, and `StanzaPrevails` is the same without it; that and
`SyncsAllOthers` are findings.

**Updates.** `NoLostUpdate`: while the handler is behind its watcher, the
update is on its way, or the last build failed. `SwapsLikeARegister`: the
gateway implements `ServedSchemas`. `EventuallyCurrent`, `UpdaterTerminates`.

**Reflection.** `WholeGraph`.

**Server.** `GracefulExit`: status 0 means that no request was cut off unless
the 30 seconds were over. `StopsAsAWhole`: if a listener stops or a signal is
caught, the process ends. `ShutdownHasAReason`. `RoutedToItsMethod`,
`GoneStaysGone`, `ParentOfItsChild`, `FetchChangesNothing` for the crosstest
server.

Next to some definitions stand *slips*: the same definition with a plausible
mistake (a forgotten `Release`, a queue that is not reset, a group key without
the mask). They are not part of any specification. `PROJECT.json` pairs each
property with a slip that breaks it, which shows that the property depends on
that piece of code.

## 5. Proofs

All theorems hold for every value of the constants that satisfies the named
assumptions, which TLC evaluates in the runs of their modules. Most say that constants have
their types, that queries and sets of files are finite, and that names and `Nil`
do not clash (`QueryAssumption`, `ParallelismAssumption`, `CodecAssumption`,
`PathsAssumption`, `NoneAssumption`, both `NilAssumption`, `GatewayAssumption`, `ReflectionAssumption`,
`ServerAssumption`, `ServicesAssumption`, `LiteralsAssumption`, `FilesAssumption`,
`TLSAssumption`, `ConfigAssumption`). The others:

- `PathAssumption`: `Path` is what `Within` makes of it.
- `StartedAssumption`: the bound that no started gateway has two sources of one
  kind.
- `SamplesAssumption`: what Protobuf guarantees of fields (types are known, keys
  of maps are of the kinds that keys may have), and that the values that are
  tried are of their types. `DescriptorsAssumption` asks only that messages are
  sequences of fields with names, which may well share their camel case.
- `RequestsAssumption`: masks are at most `MaxDepth` deep.
- `ValuesAssumption`: 32 bits, mantissa and 64 bits are in proportion, and names
  of enum values differ.
- `ImportsAssumption`: files do not import one another in circles, as descriptors
  that do cannot be linked.
- `CrosstestAssumption`: ids have digits to a base from 2 to 10, and base URLs of
  the server are its origin, with or without a slash.

In `KnitQuery` the shape of a query is arbitrary: even cycles in `Up` are allowed.

Six theorems have a hypothesis more, and each is a condition the code does not
establish: `UniformMasks` (twice; section 6, 1), `QuietStartup` (section 6, 3),
`~Escapes /\ ~Empties` (section 6, 2) and `WholeReplies` (twice; section 6, 5). The
runs that expect a violation show what happens where it fails.

What is nearest, what is above and what a file imports are defined as least sets
that are closed under a step (`upward`, `Line`, `Boundary`, `SameMask`,
`Closure`), not by recursion: the proofs take from that
definition the one step up or down that they need.

Loops and recursions of the code (`addService`, the traversals of a mask, the
case conversions, `LoadConfig`, `accumulateFiles`, ids as digits, the gateway's
lists of values) are functions of a number: of turns, of names, of the depth that
is left. Three lemmas are needed for each. That the function satisfies its
equation: by induction there is a function on `0 .. n` that does, for every `n`,
and these agree. What one turn does. And, by induction, what holds after every
turn. The induction itself (`NumbersInduct`) is about sets of numbers and comes
from the least number that is not in the set (`WFMin`), since the library's own
theorems take a predicate, which no backend can instantiate.

### UnaryHandlerProofs

| Theorem | States | Needs |
|---|---|---|
| `Typing` | `Spec => []TypeOK` | `Core` |
| `ParallelismBounded` | `Spec => []SemaphoreExact` | `Core` |
| `NothingLeaks` | `Spec => []NothingLeftRunning` | `Core` |
| `EachSlotResolvedOnce` | `Spec => []ResolvedOnce` | `Core`, `Once` |
| `ErrorsAreFinal` | `Spec => ErrorsStick` | `Core`, `Chain`, `Above` |
| `UniformMasksNeverPanic` | `UniformMasks` implies `Spec => []NoPanic` | `Core`, `Chain`, `Agreed` |

None of the properties is inductive. `sema - 1` is a natural number only if a
goroutine that releases has a permit, so the type invariant needs the count
(`Counted`), and the count needs to know that a goroutine is named by one batch
only (`Batches`), that none runs between rounds (`Quiet`), and that patches
appear below finished work, so that no patch is made twice (`Tree`). Together
these are `Core = TypeOK /\ Quiet /\ Batches /\ Tree /\ Counted`. The lemmas
`Taken`, `Released` and `Kept` tie the semaphore to the cardinality of the set
of holders; `CoreGoroutine`, `CoreResolver`, `CoreWrites`, `CoreRound`,
`CoreEntry` and `CoreHandler` show that each group of actions preserves `Core`.

The others build on it. `Chain`: a patch's errPatch is its own clause or that of
what it hangs below; lemma `Making` says that every step makes patches below
one place or none. `Above`: an errPatch belongs to something worked off, so
errors are written only where no value will follow: that gives `ErrorsStick`.
`Agreed`: the patches of a batch agree on having an errPatch; by `GroupsAgree`
this follows from `Chain` because the patches of a group share their meta and
hence the batch of what they hang below, *if* masks with one key agree on
catching. That condition, `UniformMasks`, is exactly what the run
`unary_mixed_masks` lacks.

### GatewayUpdatesProofs

| Theorem | States | Needs |
|---|---|---|
| `Typing` | `Spec => []TypeOK` | |
| `SwapsForward` | `Spec => NeverOlder` | `OneBuilder`, `Ordered` |
| `NothingLost` | `QuietStartup` implies `Spec => []NoLostUpdate` | `OneBuilder`, `Ordered`, `Tracked` |
| `GatewayIsARegister` | `Spec => SwapsLikeARegister`, that is, `ServedSchemas!Spec` | `OneBuilder`, `Ordered`, `Registrable` |

`OneBuilder`: before the first handler is installed only main builds, and
afterwards only the updater, because it checks `delegate` first. So `Store` is
never reached by main and `CompareAndSwap` never fails. `Ordered`: what a
builder has found is not newer than the watcher and not older than the live
handler. `Tracked` strengthens `NoLostUpdate` to the inside of a build: what the
updater has already looked up is current, or a callback or a signal is there to
start the next build. `Registrable`: what a builder is about to install has
been registered service by service. With `Ordered` it makes every installation
a step `Serve` of the register and every poll a step `Observe`; all other steps
leave the register as it is.

### ServerProofs

| Theorem | States | Needs |
|---|---|---|
| `Typing` | `Spec => []TypeOK` | |
| `ExitsGracefully` | `Spec => []GracefulExit` | `Drained` |
| `NeverShutDownForNothing` | `Spec => ShutdownHasAReason` | `Caused` |
| `EveryCallArrives` | `MCSpec => []RoutedToItsMethod` | `CInv` |
| `TheDeletedStayAway` | `MCSpec => []GoneStaysGone` | `CInv` |
| `ThereAndBack` | `MCSpec => []ParentOfItsChild` | `CInv` |
| `ReadingChangesNothing` | `MCSpec => FetchChangesNothing` | `CInv` |

`Drained`: main returns after the goroutine that shuts down, that one after
every `Shutdown`, and a `Shutdown` in time after every request. `Caused`: what
wakes that goroutine was put there by a signal or by a listener.

The crosstest server is proved about for any number of callers and of ids.
`CInv` says of the stores that they hold ids that were given out and none that is
gone, and of every call under way that it was routed to its method (`Routed`),
that what it is about to store is an id that was given out and is not in `gone`,
which has what was deleted while nobody was about to store it (`Pending`), and that
what it has listed so far is what it was asked for, in the order of the bases
(`Listed`). That an id is never given out twice is `DigitsDiffer`, an induction on
the number of digits; `PrefixOfChildId` says which parents' ids the id of a child
begins with. Routing is a calculation with the words of a
URL for any base (`UrlWords`, `RouteFinds`), and that the gateway hands each value
of a batch to its own base is `FlattenAligned`.

### UnaryAnswerProofs

| Theorem | States | Needs |
|---|---|---|
| `BatchesFollowKeys` | `Spec => []OneBatchPerMask` | `Core`, `Together` |
| `NoGaps` | `Spec => []NoSilentGap` | `Core`, `Bound`, `Reasons`, `Settled`, `Entered`, `Finished` |
| `RequestIsOneStep` | `UniformMasks` implies `Spec => AnswersAtOnce`, that is, `UnaryAnswer!Spec` | those, `Shared`, `Placed`, `NoPanic` |

`BatchesFollowKeys` says which slots are resolved by one call: those below one
batch whose keys are equal. It does not say that different masks have different
keys. `Together`: patches below one batch are queued by the same goroutine before
it is done, so that they are in one round. `Bound`: a patch's errPatch, handed down
through the code, is the nearest clause, which `Boundary` reads off the query.
`Placed`: an error that is shown is that of a failed call whose nearest clause
this is. `Settled`: a patch that was worked off left a value, an error at its
clause, or was skipped; one that was not has a goroutine or the round has
failed. `Reasons`: an errgroup fails only because the caller gave up, something
was unusable, or a call failed that no clause catches. `Entered` and `Finished`
say the same of the entry points and of the end. In the refinement, every step
before the return is a stutter, or adds a failure or a reason, and `Finish` is
the step in which `UnaryAnswer` answers; lemma `RightErrors` shows that what it
then shows is allowed.

### ListenProofs

| Theorem | States | Needs |
|---|---|---|
| `PassedOnFaithfully` | `StreamSpec => []FaithfulPrefix` | `Stream` |
| `NoMessageDropped` | `StreamSpec => []NothingDropped` | `Stream` |
| `NothingElseCarriedOver` | `~Escapes /\ ~Empties` implies `StreamSpec => []EachMessageForItself` | `Stream`, `Plain` |

`Stream` has the lengths of what was read, stitched and sent (`InStep`), what is
left over from earlier messages (`LeftOver`), and what the message at hand and
those sent may show (`Current`, `Passed`). The third theorem is the converse of
the finding of `listen_messages`: the two ways in which messages disturb one another are
the only ones.

### PatchPathsProofs

| Theorem | States | Needs |
|---|---|---|
| `CalledWithRightHeaders` | `PathsSpec => []HeadersReachResolvers` | `Headers` |
| `PathsRightUnlessShared` | `PathsSpec => []RightUnlessShared` | `Headers`, `Paths` |
| `ResolvedPathsAreTheirOwn` | `PathsSpec => ResolvedPathsStay` | `Headers`, `Paths` |

`Headers` is the order of rounds and fields (`Order`) and that the meta of every value
that is there holds the operations that led to it (`Based`). The paths need to
know where they are: `Arrays` says that a path is in the array of a name on it,
that the path was appended in place, name by name, from there on, and that
arrays of values are full. From it follow `GrownBy` (paths and sizes of arrays
stay) and `Writes`: all that is written to an array in use is a name, behind the
path of the message it is in. So nothing is written to a value's own path
(`ResolvedPathsAreTheirOwn`), and what is read for a name was appended to the
same path (`Contents`; `Written` for a relation whose two words are being
written). That a path is exact unless siblings share it needs `Twins`: two
names get the same slice only if some name above, or they themselves, were
appended in place beside a sibling.

The property said at first that a wrong name is always a sibling's. The proof
did not go through, and TLC found the reason once the mask was deep enough for
an array of eight: `lat` and `lon` get the same slice, and the units below them,
which are no siblings, then overwrite one another. `RightUnlessShared` and the
mask of the run were changed accordingly.

### StartupProofs

| Theorem | States | Needs |
|---|---|---|
| `EndsInvariant` | `Spec => []Ends` | `Shape`, `Watched` |
| `ClosesEverything` | `Spec => []NothingLeftOpen` | `Ends` |
| `FilesComeOnce` | `Spec => []R!NoDuplicates` | `Shape`, `Stream` |
| `SchemasAreWhole` | `WholeReplies` implies `Spec => []SchemasWhole` | `Schemas` |
| `TransportAlwaysFits` | `Spec => []TransportFits` | `SettingsOfFile`, `Loaded` |
| `ConfiguredAsTheFileSays` | `Spec => []AsTheFileSays` | `SettingsOfFile`, `Loaded` |
| `DefaultsOnlyFillGaps` | `Spec => []DefaultsFillGaps` | `SettingsOfFile`, `MergeKeeps` |
| `TypesHold` | `Spec => []TypeOK` | `Typed`, `SettingsTyped` |
| `ReadySchemasComplete` | `WholeReplies` implies `Spec => []ReadyIsComplete` | `Schemas`, `Completes` |

In the first four `LoadConfig` is not unfolded: they hold whatever it makes of a
file.
`Watched`: a watcher that runs is in the map, or is the one just being put into
it, so that stopping those in the map stops all. `Stream` ties what the
reflection poller has seen to what it appended. `Schemas` adds that what was
asked for has come whole, and that what the cache holds is whole for every
service configured with the source, across a crash and the restart
(`SavedWhole`), whenever an entry was saved and whichever expired.

The next four are about `LoadConfig`, for files with any number of backends and
services. `Loaded` is the invariant of its loop: after `n` backends, services are
the ones that these list, each made of the one backend that lists it
(`Made`), and pollers are shared exactly by the sources that are equal
(`MadePoller`).

For the download, `Orderly` says that what `accumulateFiles` has seen is what it
has appended, in an order that links, and the files whose calls are under way;
`Completes`, that a call appends its file and all that it needs, and nothing
else. It is shown by induction on the depth that is left, with an induction over
the imports inside. The depth suffices because imports are acyclic, so that no
file is under way twice.

### QueriesProofs

| Theorem | States | Needs |
|---|---|---|
| `AcceptedIsAnswerableHolds` | `Spec => []AcceptedIsAnswerable` | `Inv` |
| `FetchIsSafeHolds` | `Spec => []FetchIsSafe` | `Inv` |
| `ResponseFitsSchemaHolds` | `Spec => []ResponseFitsSchema` | `Inv`, `PathsLeadToOne`, `NamesLeadToOneDescriptor`, `WayOn` |
| `ListedAsAcceptedHolds` | `Spec => []ListedAsAccepted` | `Inv` |
| `EveryFieldSelectableHolds` | `Spec => []EveryFieldSelectable` | `Inv`, `FoundByName` |
| `ReadableBySchemaHolds` | `QuerySpec => []ReadableBySchema` | `Inv`, `SampleInv`, `ElemRead`, `ListRead`, `MapRead` |
| `ErrorsStandOutHolds` | `QuerySpec => []ErrorsStandOut` | the same |

`Inv` has of the registered methods and relations what every turn of `addService`
keeps, also when it ends with an error half-way (`Registered`): names of methods
differ, and every relation has a resolver that is unary, without side effects and
laid out for its key. And it says where an answer stands (`AnswersTo`): each
message that is being formatted is one that validation reached, with the same
version of its type and the same mask; each patch is a name it asked for; and
each field of the response was formatted by its descriptor. That `Format` and
`Stitch` keep it is the core of the proof (`FormatKeepsInv`, `StitchKeepsInv`):
the two go on from a name to different things, the field that was found or the
relation of the message at hand, and these are what `descriptorOf` takes.
`PathsLeadToOne`: in an accepted mask a path of names leads to one place, by
induction on its length. `NamesLeadToOneDescriptor`: paths of the same camel case
lead to one descriptor where camel case tells fields apart. `Stands` and `WayOn`:
a name that was asked for is in the response, or still to come, or below
something that is missing. `FoundByName` rests on `CamelOfSnake`: the camel case
of a name comes back unchanged from snake case, character by character, so that
the fast search can only find a field of that camel case.

`SampleInv` says that a response holds a value that fits its field, or an error.
The rest is that `read` is the inverse of `formatValue`: for scalars over their
whole ranges (`ExactNumbers`, `ScalarRead`), for the well-known types
(`SimpleRead`), for an `Any` (`AnyRead`), and for maps and lists of any length,
though the run tries one entry only: no two keys of a map are written alike
(`KeyRead`, `MapRead`).

### Proved and not run, and the reverse

The type invariants of `UnaryHandler`, `GatewayUpdates` and `Server`,
`ErrorsStick`, `NeverOlder` and `NoDuplicates` are proved and in no run.
Every safety property that a passing run checks, invariant, action property or
refinement, is a theorem. What is only model-checked is liveness
(`FetchTerminates`, `EventuallyCurrent`, `UpdaterTerminates`, `Answered`,
`StopsAsAWhole`, `ComesReady`): it needs fairness, and with it `ENABLED`, which are
out of the prover's reach. In those runs the bounds of section 3 remain.

## 6. Where the code and its documents disagree

1. `unary_mixed_masks`: patches of masks without params share a batch whatever
   their clauses (`params` is nil in the group key). Whether to throw is
   decided by `batch[0]`, and the loop then writes to a nil `errPatch`
   (`stitcher.go:146`, `:162`; `format.go:55`).
2. `listen_messages`: the errPatch of a stream is never cleared, so that after
   one caught error every later body is that error (`handler.go:236`;
   `README.md:81`); and a message of size zero is sent as a copy of the message
   before it (`codec.go:69`).
3. `updates_startup_lost`: a change during main's `CreateHandler` is forgotten
   (`gateway.go:266`, `:306`).
4. `updates_jitter`: with jitter, watchers but the first poll again only when
   the first one's schema has changed (`gateway.go:142`; `CONFIG.md:303`).
5. `reflection_single`: the second pass of `handleFiles` never queues an import
   (`descriptors.go:201`, `:223`).
6. `startup_stanza`: a backend that names its authorities and leaves `skip_verify`
   out gets it from the defaults, and then its `cacert` is not looked at
   (`tls.go:194-202`, `:225-227`; `CONFIG.md:31-33`).
7. `startup_sync`: the first watcher's callback ranges over the map of watchers
   while `CreateGateway` still writes the others to it, so that it does not sync
   them, and the write is a data race (`gateway.go:146-147`, `:184`).

Observations that a property has as an exception, or that the model follows
without a property:

- *Paths.* Siblings share the array of their parent's path: an error of
  `latUnit`, below `geo.lat`, can be reported as one of `geo.lon.latUnit`, or of
  `geo.lon.lonUnit`.
- *Watchers.* Two backends with one `route_to` share the
  reflection client of the first. On the way out the cache is closed before the
  watchers are stopped.
- *Configuration.* A main port of 0 with the admin port left at its default of
  0 is rejected as a clash, where `CONFIG.md:55-57` lets 0 choose any port. An
  empty client `cacert` is an error for `loadCertificatePool`, where `CONFIG.md`
  lets it be blank. The comment at `config.go:357-359` on `disallow` differs
  from `tls.go:270`. gRPC over https with an explicit `h2c: false` is rejected.
  A backend's certificate is accepted with a default key. Default settings with
  `skip_verify` and an unusable `cacert` become invalid when a backend sets
  `skip_verify: false`. A scheme in capitals is rejected for reflection only.
- *Headers.* The user agent is set on unary calls only, where `handler.go:48-51`
  speaks of all; the client's own `Knit-Operations` is forwarded to the entry
  point's RPC, though not to resolvers.
- *Values.* A duration beyond what Go's type holds saturates; nanoseconds are
  lost beyond the mantissa. Field masks whose names do not survive two case
  conversions change. An `Any` that holds `Any`, `Struct` or a struct `Value` is
  inlined, unlike in the JSON mapping (`format.go:442`). A remote resolver always
  returns a valid value, so that the skip at `stitcher.go:168` does not happen
  for relations that are messages.
- *Process.* The result of `group.Wait` is discarded, and the `err` tested next
  is the one `CreateGateway` left nil (`main.go:242-245`), so that a listener that
  cannot be bound ends the process with status 0; the model says the same
  (`MainReturns`). `main.go:59` counts the arguments of another flag set, and an
  invalid log format is printed only.
- *Crosstest server.* `ListChildren` takes the children of parent 10 for those of
  parent 1. An update that races a delete revives the parent; `CreateChild` may
  leave a child without a parent; one missing parent fails a whole batch of
  `GetChildParent`.

## 7. Bounds

`MaxVersion` (versions of a source; in the guard of `Publish`), `MaxMsgs`
(messages of a stream; in the guard of `Receive` and `Unusable`), `MaxActive`
(requests of a server at a time; in the guard of `Request`), `MaxRestarts` (in
the guard of `Restart`), `MaxParents` and `MaxChildren` (ids given out; in the
guards of `CreateParent` and `CreateChild`), `MaxDepth` (of masks; an assumption on
`Requests`) and `MaxAnys` (how often an `Any` holds another). Everything else is finite by the
constants. `cb` is bounded by the versions.

## 8. Not modelled, and what remains

- The generated message types: descriptors as bytes, accessors and their
  initialisation, some 7,500 of the repository's 13,400 lines. They have no
  logic of this repository, and what is mapped, three tenths of all lines, is
  most of the rest.
- Request logging and the polling statistics of the admin page: only read by
  people. The pages of text and the raw configuration likewise.
- Libraries: YAML, marshalling, HTTP, the stores behind the cache, and the
  `SchemaWatcher`, modelled from how it is used. The tables of cipher suites, and
  how `BUF_TOKEN` is parsed, are left out. A restarted process has the same file,
  and at most one source of each kind (`StartedAssumption`).
- `Queries` has one request at a time: requests share nothing there but what
  was registered before. The lists and maps of an answer are one element each,
  and errors in it are values that are missing; where errors go is the subject of
  `UnaryHandler`, whose slots are fixed for a request.

What remains to be done: `StartedAssumption` could go, with a reflection poller for
each source instead of one; and the theorems about `Queries` have the depth of a
mask as a constant, where a mask of its own depth for every request would say
the same with one constant less.

## 9. Running

In this directory, `tlc -config RequestsRun.cfg MCRequests` and likewise for the
other pairs in `PROJECT.json`; `tlapm UnaryAnswerProofs.tla` and likewise for the
other modules whose name ends in `Proofs` check the proofs.
