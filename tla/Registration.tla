----------------------------- MODULE Registration -----------------------------
(***************************************************************************)
(* What a gateway is configured with, which queries it accepts, and what   *)
(* answering them asks of it: Gateway.addService and addRelation,          *)
(* computeResponseSchema, and the traversals that formatMessage and stitch *)
(* make of a mask that was accepted, a level at a time.                    *)
(*                                                                         *)
(* Every service comes with a pool of message definitions, and two pools   *)
(* may have different versions of a message.  A field has a number, a name *)
(* and a type, which is a message of its pool, a well-known type or a      *)
(* scalar; it occurs once, or is a list or a map, with keys of some kind.  *)
(* A mask is a sequence of [name, mask].  A method has a name, a pool, an  *)
(* input and an output message, which sides stream, sideEffects, whether   *)
(* its output is linked into the program, and the name of a relation, Nil  *)
(* if it is not a resolver.                                                *)
(***************************************************************************)
EXTENDS KnitNames, FieldTypes

CONSTANTS
    Descriptors,    \* the pools of message definitions there may be
    Services,       \* Services[svc]: its methods, in order
    Route,          \* Gateway.Route, or Nil
    Options,        \* the ServiceOptions a service may be added with
    Requests,       \* [op, method, mask]
    MaxDepth,       \* bound: how deep their masks are
    Nil

(* The masks in mask that are n names down.                                *)
masksAt(mask) ==
    LET f[n \in Nat] == IF n = 0 THEN {mask}
                        ELSE UNION {{m[i].mask : i \in DOMAIN m} : m \in f[n - 1]}
    IN  f

(* Two fields of a message may well have the same camel case.              *)
ASSUME DescriptorsAssumption ==
    \A pools \in Descriptors : \A p \in DOMAIN pools : \A m \in DOMAIN pools[p] :
        /\ pools[p][m] \in Seq(ToSet(pools[p][m]))
        /\ \A i \in DOMAIN pools[p][m] :
              pools[p][m][i] # Nil /\ pools[p][m][i].name \in Seq(STRING)

ASSUME ServicesAssumption ==
    \A svc \in DOMAIN Services :
        /\ Services[svc] \in Seq(ToSet(Services[svc]))
        /\ \A m \in ToSet(Services[svc]) :
              m # Nil /\ m.clientStreams \in BOOLEAN /\ m.serverStreams \in BOOLEAN /\ m.sideEffects \in BOOLEAN

ASSUME RequestsAssumption ==
    /\ MaxDepth \in Nat
    /\ \A q \in Requests :
          /\ q # Nil /\ masksAt(q.mask)[MaxDepth] \subseteq {<< >>}
          /\ \A n \in 0 .. MaxDepth : \A mask \in masksAt(q.mask)[n] :
                \A i \in DOMAIN mask : mask[i].name \in Seq(STRING)
    /\ Nil \notin {"Fetch", "Do", "Listen"}

VARIABLES
    fields,     \* fields[pool][m]: the fields of message m
    methods,    \* Gateway.methods, as the set of registered methods
    relations,  \* Gateway.relations: <<message, name>> to resolver method
    pc,         \* "config" or "serving"
    req,        \* the accepted request that is being answered, or Nil
    todo,       \* the messages that are being formatted, with their masks
    patches,    \* the relations to be resolved once they have been
    response,   \* the fields that the response has so far
    called,     \* the resolvers called for them
    err         \* "unknown relation" once stitch has failed, or Nil

config    == <<fields, methods, relations, pc>>
answering == <<req, todo, patches, response, called, err>>
vars      == <<config, answering>>

Init ==
    /\ fields \in Descriptors
    /\ methods = {}
    /\ relations = << >>
    /\ pc = "config"
    /\ req = Nil /\ err = Nil
    /\ todo = {} /\ patches = {} /\ response = {} /\ called = {}

-----------------------------------------------------------------------------
(* Registration.                                                           *)

hasFields(pool, type) == pool \in DOMAIN fields /\ type \in DOMAIN fields[pool]

(* The field with tag number 1, or Nil.                                    *)
firstField(pool, msg) ==
    LET i == SelectInSeq(fields[pool][msg], LAMBDA f : f.number = 1)
    IN  IF i = 0 THEN Nil ELSE fields[pool][msg][i]

kindOf(m) ==
    IF m.clientStreams /\ m.serverStreams THEN "bidi stream"
    ELSE IF m.serverStreams THEN "server stream"
    ELSE IF m.clientStreams THEN "client stream" ELSE "unary"

(* ServiceOptions: what they set, and to what.                             *)
WithRoute(url)        == <<"baseURL", url>>
WithClient(client)    == <<"client", client>>
WithTypeResolver(res) == <<"typeResolver", res>>
WithCodec(codec)      == <<"codec", codec>>
WithProtoJSON         == WithCodec("json")

(* They are applied in order to what the Gateway has; the last one counts. *)
getSvcOpts(opts) ==
    LET o == FoldLeft(LAMBDA acc, opt : [acc EXCEPT ![opt[1]] = opt[2]],
                      [baseURL |-> Route, client |-> Nil, codec |-> "proto", typeResolver |-> Nil],
                      opts)
    IN  IF o.client = Nil THEN [o EXCEPT !.client = "http.DefaultClient"] ELSE o

(* The names a resolver's batches have to have.                            *)
bases  == <<"bases">>
values == <<"values">>

baseField(m)     == firstField(m.pool, m.input)
resultField(m)   == firstField(m.pool, m.output)
relationField(m) == firstField(m.pool, resultField(m).type)

batchOf(f, pool, name) ==
    f # Nil /\ f.name = name /\ f.card = "list" /\ hasFields(pool, f.type)

(* The messages of a resolver are laid out as they should be: what it gets *)
(* are bases, and what it gives values, each in a wrapper with one field,  *)
(* which is named like the relation.                                       *)
laidOut(m) ==
    /\ batchOf(baseField(m), m.pool, bases)
    /\ Len(fields[m.pool][m.output]) = 1 /\ batchOf(resultField(m), m.pool, values)
    /\ Len(fields[m.pool][resultField(m).type]) = 1
    /\ relationField(m) # Nil /\ relationField(m).name = m.relation

(* Slip: the idempotency level is not looked at.                           *)
getRelationConfigAnyLevel(m) == kindOf(m) = "unary" /\ laidOut(m)

(* getRelationConfig succeeds.                                             *)
getRelationConfig(m) == kindOf(m) = "unary" /\ ~m.sideEffects /\ laidOut(m)

relationKey(m) == <<baseField(m).type, camelCase(m.relation)>>

(* addRelation succeeds: the resolver's own version of the message has no  *)
(* field that the relation's name would mean.                              *)
canAddRelation(rels, m) ==
    /\ fieldWithCamelCaseName(fields[m.pool][baseField(m).type], relationKey(m)[2]) = 0
    /\ relationKey(m) \notin DOMAIN rels

(* One turn of addService's loop.  A method whose relation is refused has  *)
(* been registered already, and what came before it stays.  A service that *)
(* is added by its name needs the types that are linked in.                *)
addMethod(acc, m) ==
    IF acc.err \/ (\E r \in acc.methods : r.name = m.name) \/ (acc.byName /\ ~m.linked)
    THEN [acc EXCEPT !.err = TRUE]
    ELSE IF m.relation = Nil
    THEN [acc EXCEPT !.methods = @ \cup {m}]
    ELSE IF m.relation # << >> /\ getRelationConfig(m) /\ canAddRelation(acc.relations, m)
    THEN [acc EXCEPT !.methods = @ \cup {m},
                     !.relations = [k \in DOMAIN @ \cup {relationKey(m)} |->
                                       IF k = relationKey(m) THEN m ELSE @[k]]]
    ELSE [acc EXCEPT !.methods = @ \cup {m}, !.err = TRUE]

(* The loop, by the number of its turns.  A service without a route is     *)
(* refused before anything is registered.                                  *)
addService(svc, byName, opts) ==
    LET turn[n \in Nat] ==
            IF n = 0
            THEN [methods |-> methods, relations |-> relations, byName |-> byName,
                  err |-> getSvcOpts(opts).baseURL = Nil]
            ELSE addMethod(turn[n - 1], Services[svc][n])
    IN  turn

AddService(svc, byName, opts) ==
    /\ pc = "config"
    /\ LET acc == addService(svc, byName, opts)[Len(Services[svc])]
       IN  methods' = acc.methods /\ relations' = acc.relations
    /\ UNCHANGED <<fields, pc, answering>>

AsHandler ==
    /\ pc = "config"
    /\ pc' = "serving"
    /\ UNCHANGED <<fields, methods, relations, answering>>

-----------------------------------------------------------------------------
(* What is met in a query: a message of a pool, with the mask that applies *)
(* to it and the names that lead there, and in its mask a name.            *)

message(path, pool, type, mask) == [path |-> path, pool |-> pool, type |-> type, mask |-> mask]

namesIn(v) ==
    {[path |-> Append(v.path, v.mask[i].name), pool |-> v.pool, msg |-> v.type,
      name |-> v.mask[i].name, mask |-> v.mask[i].mask] : i \in DOMAIN v.mask}

fieldOf(a) ==
    LET i == fieldWithCamelCaseName(fields[a.pool][a.msg], a.name)
    IN  IF i = 0 THEN Nil ELSE fields[a.pool][a.msg][i]

relationOf(a) ==
    IF <<a.msg, a.name>> \in DOMAIN relations THEN relations[<<a.msg, a.name>>] ELSE Nil

-----------------------------------------------------------------------------
(* Validation: computeResponseSchema.  A name means a field, else a        *)
(* relation; computeSchema goes on with the message of its descriptor.     *)

known(a) == fieldOf(a) # Nil \/ relationOf(a) # Nil

descriptorOf(a) == IF fieldOf(a) # Nil THEN fieldOf(a) ELSE relationField(relationOf(a))

poolOf(a) == IF fieldOf(a) # Nil THEN a.pool ELSE relationOf(a).pool

keyAllowed(f) == f.card = "map" => computeFieldType(f).key \in allowedMapKeyTypes

asks(v) == IF hasFields(v.pool, v.type) THEN namesIn(v) ELSE {}

below(v) ==
    {message(a.path, poolOf(a), descriptorOf(a).type, a.mask) : a \in {b \in asks(v) : known(b)}}

(* What is met within n names.                                             *)
within(v) ==
    LET f[n \in Nat] ==
            IF n = 0 THEN {v}
            ELSE LET met == f[n - 1] IN met \cup UNION {below(u) : u \in met}
    IN  f

reached(v) == within(v)[MaxDepth]

asked(v) == UNION {asks(u) : u \in reached(v)}

(* computeSchema succeeds for one message.                                 *)
validMask(v) ==
    IF ~hasFields(v.pool, v.type) THEN v.mask = << >>
    ELSE /\ \A i, j \in DOMAIN v.mask : v.mask[i].name = v.mask[j].name => i = j
         /\ \A a \in asks(v) : known(a) /\ keyAllowed(descriptorOf(a))

computeSchema(v) == \A u \in reached(v) : validMask(u)

schemaName(name) == camelCase(name)

(* The schema it computes: for every name in the mask a field, with a type *)
(* and the names that lead to it in the schema.                            *)
schemaOf(v) ==
    {[path |-> a.path, names |-> [k \in DOMAIN a.path |-> schemaName(a.path[k])],
      type |-> computeFieldType(descriptorOf(a))] : a \in asked(v)}

methodOf(name) == CHOOSE m \in methods : m.name = name

(* The message that answers a request.                                     *)
output(q) == LET m == methodOf(q.method) IN message(<< >>, m.pool, m.output, q.mask)

(* computeResponseSchema succeeds.                                         *)
accepted(q) ==
    /\ \E m \in methods : m.name = q.method
    /\ LET m == methodOf(q.method)
       IN  /\ kindOf(m) = IF q.op = "Listen" THEN "server stream" ELSE "unary"
           /\ q.op = "Fetch" => ~m.sideEffects
    /\ computeSchema(output(q))

-----------------------------------------------------------------------------
(* Answering: formatMessage and stitch.  One path stands for all elements  *)
(* of a list, or values of a map.                                          *)

(* Those that formatNormalMessage formats.                                 *)
normal(messages) == {v \in messages : hasFields(v.pool, v.type)}

(* A field of the response, by the keys that lead to it, and the           *)
(* descriptor that its value was formatted by; missing if the value is     *)
(* absent, an empty list or map, or has an error in its place.             *)
formatted(path, f, missing) == [path |-> path, field |-> f, missing |-> missing]

(* A request that is refused changes nothing; one is handled at a time.    *)
Handle(q) ==
    /\ pc = "serving"
    /\ req = Nil
    /\ IF accepted(q) THEN req' = q /\ todo' = normal({output(q)})
       ELSE UNCHANGED <<req, todo>>
    /\ UNCHANGED <<config, patches, response, called, err>>

(* Slip: formatting does without the slow search.                          *)
isRelationFast(a) == fieldWithCamelCaseNameFast(fields[a.pool][a.msg], a.name) = 0

(* formatNormalMessage takes every name that is no field for a relation.   *)
isRelation(a) == fieldOf(a) = Nil

(* One level of messages is formatted, down to those in their fields.      *)
Format ==
    /\ todo # {}
    /\ LET names == UNION {namesIn(v) : v \in todo}
           found == {a \in names : ~isRelation(a)}
       IN  \E missing \in SUBSET found :
              /\ response' = response \cup {formatted(a.path, fieldOf(a), a \in missing) : a \in found}
              /\ todo' = normal({message(a.path, a.pool, fieldOf(a).type, a.mask) :
                                    a \in found \ missing})
              /\ patches' = patches \cup (names \ found)
    /\ UNCHANGED <<config, req, called, err>>

(* Slip: relations are looked up by their names alone.                     *)
configByName(p) ==
    IF \E k \in DOMAIN relations : k[2] = p.name
    THEN relations[CHOOSE k \in DOMAIN relations : k[2] = p.name] ELSE Nil

(* The resolver of a patch, by the message it is for.                      *)
configOf(p) == relationOf(p)

(* One round of stitch, which fails before it calls anything if it does    *)
(* not know a relation.                                                    *)
Stitch ==
    /\ todo = {}
    /\ patches # {}
    /\ patches' = {}
    /\ IF \E p \in patches : configOf(p) = Nil
       THEN err' = "unknown relation" /\ UNCHANGED <<todo, response, called>>
       ELSE /\ \E missing \in SUBSET patches :
                 /\ response' = response \cup
                        {formatted(p.path, relationField(configOf(p)), p \in missing) : p \in patches}
                 /\ todo' = normal({message(p.path, configOf(p).pool, relationField(configOf(p)).type,
                                            p.mask) : p \in patches \ missing})
            /\ called' = called \cup {configOf(p) : p \in patches}
            /\ UNCHANGED err
    /\ UNCHANGED <<config, req>>

(* The request has been answered, or has failed.                           *)
Answer ==
    /\ req # Nil /\ todo = {} /\ patches = {}
    /\ req' = Nil /\ err' = Nil
    /\ response' = {} /\ called' = {}
    /\ UNCHANGED <<config, todo, patches>>

-----------------------------------------------------------------------------
(* The admin pages.                                                        *)

(* Slip: every method whose server streams.                                *)
listedAnyStream(m) ==
    IF m.serverStreams THEN "Listen"
    ELSE IF m.clientStreams THEN Nil
    ELSE IF m.sideEffects THEN "Do" ELSE "Fetch"

(* The heading under which the admin pages list a method, or Nil.          *)
listed(m) ==
    IF m.clientStreams THEN Nil
    ELSE IF m.serverStreams THEN "Listen"
    ELSE IF m.sideEffects THEN "Do" ELSE "Fetch"

-----------------------------------------------------------------------------
Configure ==
    \/ \E svc \in DOMAIN Services, byName \in BOOLEAN, opts \in Options :
          AddService(svc, byName, opts)
    \/ AsHandler

Next ==
    \/ Configure
    \/ \E q \in Requests : Handle(q)
    \/ Format \/ Stitch \/ Answer

Spec == Init /\ [][Next]_vars

-----------------------------------------------------------------------------
(* stitch never meets a relation it does not know: whatever was registered *)
(* and whatever registration failed half-way, what formatting takes for a  *)
(* relation, of the message at hand and in whatever round, is one that     *)
(* validation found when it went through the mask by the descriptors.      *)
AcceptedIsAnswerable == err = Nil

(* A Fetch has no side effects: the method it names and every resolver     *)
(* that stitch calls, in any round, are declared without; and a resolver   *)
(* is never a stream.                                                      *)
FetchIsSafe ==
    req # Nil =>
        /\ req.op = "Fetch" => ~methodOf(req.method).sideEffects
        /\ \A m \in called : ~m.sideEffects /\ kindOf(m) = "unary"

(* No two fields of a message have the same camel case: proto3 has it so,  *)
(* proto2 does not.                                                        *)
CamelCaseTells ==
    \A p \in DOMAIN fields : \A m \in DOMAIN fields[p] : \A i, j \in DOMAIN fields[p][m] :
        camelCase(fields[p][m][i].name) = camelCase(fields[p][m][j].name) => i = j

(* The response can be read by the schema that goes with it.  Each of its  *)
(* fields was formatted by a descriptor of the type that the schema has    *)
(* for the same place in the mask; and if the camel case of names tells    *)
(* fields apart, a client that looks a field up in the schema by the camel *)
(* case of its keys, which are spelt as in the mask, finds that type and   *)
(* no other.  A response that is complete has every field of the schema,   *)
(* but for what is in something that is missing.                           *)
ResponseFitsSchema ==
    req # Nil =>
        LET schema   == schemaOf(output(req))
            inCamelCase(path) == [k \in DOMAIN path |-> camelCase(path[k])]
        IN  /\ \A e \in response :
                  /\ \E s \in schema : s.path = e.path /\ s.names = inCamelCase(e.path)
                  /\ \A s \in schema :
                        s.path = e.path \/ (s.names = inCamelCase(e.path) /\ CamelCaseTells)
                        => s.type = computeFieldType(e.field)
            /\ todo = {} /\ patches = {} /\ err = Nil =>
                  \A s \in schema : \E e \in response :
                     e.path = s.path \/ (e.missing /\ IsPrefix(e.path, s.path))

(* Every field can be selected by its camel case, unless another field has *)
(* the same; and a relation hides behind it only if a service brought it   *)
(* that has a version of the message without the field.                    *)
EveryFieldSelectable ==
    \A p \in DOMAIN fields : \A m \in DOMAIN fields[p] : \A i \in DOMAIN fields[p][m] :
        LET name  == camelCase(fields[p][m][i].name)
            found == fieldWithCamelCaseName(fields[p][m], name)
        IN  /\ found # 0 /\ camelCase(fields[p][m][found].name) = name
            /\ <<m, name>> \in DOMAIN relations =>
                  LET theirs == fields[relations[<<m, name>>].pool][m]
                  IN  \A k \in DOMAIN theirs : camelCase(theirs[k].name) # name

(* The admin pages list a method under the operation that accepts it, and  *)
(* leave out those that no operation accepts.                              *)
ListedAsAccepted ==
    pc = "serving" =>
        \A m \in methods :
            LET takes(op) == accepted([op |-> op, method |-> m.name, mask |-> << >>])
            IN  IF listed(m) # Nil THEN takes(listed(m))
                ELSE \A op \in {"Fetch", "Do", "Listen"} : ~takes(op)
===============================================================================
