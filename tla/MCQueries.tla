------------------------------ MODULE MCQueries ------------------------------
(* Users and their posts, which three resolvers relate to one another.     *)
(* The two fields of User take their names from a set of spellings that    *)
(* camel case and snake case bring together in many ways, so that they     *)
(* collide with relations or with one another.  The services in the pool   *)
(* "old" come with a version of User that has only the first of them.      *)
EXTENDS Queries, FiniteSetsExt, TLC

Words == {<<"a">>, <<"A">>, <<"a", "a">>, <<"a", "A">>, <<"a", "_", "a">>,
          <<"a", "_", "A">>, <<"_", "a">>, <<"a", "1">>, <<"a", "_", "1">>}

field(i, n, type, card, kind) ==
    [number |-> i, name |-> n, type |-> type, card |-> card, key |-> kind]

(* A message with a field of every type, a list and a map of some, and a   *)
(* map with every kind of key.                                             *)
everyType ==
    LET types == FoldSet(LAMBDA t, ts : Append(ts, t), << >>,
            {<<t, "singular", Nil>> : t \in scalarKinds \cup wellKnownTypes}
            \cup {<<t, "list", Nil>> : t \in {"int32", "uint64", "double", "enum", "Duration", "Any"}}
            \cup {<<t, "map", "string">> : t \in {"sint64", "bytes", "BoolValue", "Struct"}}
            \cup {<<"float", "map", k>> : k \in {"int32", "sint64", "fixed32", "uint64", "bool"}})
    IN  [i \in DOMAIN types |->
            field(i, [k \in 1 .. 6 |-> IF (i \div 2 ^ (k - 1)) % 2 = 0 THEN "a" ELSE "b"], types[i][1], types[i][2], types[i][3])]

(* The messages of the resolvers: UserPosts and CountPosts share theirs.   *)
userPosts ==
    [PostsRequest  |-> <<field(1, bases, "User", "list", Nil), field(2, <<"b">>, "int32", "singular", Nil)>>,
     PostsResponse |-> <<field(1, values, "PostsWrapper", "list", Nil)>>,
     PostsWrapper  |-> <<field(1, <<"a", "_", "a">>, "Post", "list", Nil)>>]

others ==
    [AuthorRequest  |-> <<field(1, bases, "Post", "list", Nil)>>,
     AuthorResponse |-> <<field(1, values, "AuthorWrapper", "list", Nil)>>,
     AuthorWrapper  |-> <<field(1, <<"a", "A">>, "User", "singular", Nil)>>,
     OtherRequest   |-> <<field(1, bases, "User", "list", Nil)>>,
     OtherResponse  |-> <<field(1, values, "OtherWrapper", "list", Nil)>>,
     OtherWrapper   |-> <<field(1, <<"a", "A">>, "string", "singular", Nil)>>]

Post == <<field(1, <<"a">>, "string", "singular", Nil)>>

versions(v, w) ==
    [new |-> userPosts @@ [User |-> <<field(1, v, "string", "singular", Nil), field(2, w, "Post", "list", Nil)>>,
                           Post |-> Post],
     old |-> others @@ [User |-> <<field(1, v, "string", "singular", Nil)>>, Post |-> Post]]

(* Messages of UserPosts that getRelationConfig refuses.                   *)
misfits ==
    LET bad(m, fs) == [versions(<<"a">>, <<"a", "1">>) EXCEPT !.new[m] = fs]
    IN  {bad("PostsRequest", << >>),
         bad("PostsRequest", <<field(2, bases, "User", "list", Nil)>>),
         bad("PostsRequest", <<field(1, <<"b">>, "User", "list", Nil)>>),
         bad("PostsRequest", <<field(1, bases, "User", "singular", Nil)>>),
         bad("PostsRequest", <<field(1, bases, "string", "list", Nil)>>),
         bad("PostsResponse", <<field(1, values, "PostsWrapper", "list", Nil),
                                field(2, <<"b">>, "int32", "singular", Nil)>>),
         bad("PostsResponse", <<field(1, values, "PostsWrapper", "map", "string")>>),
         bad("PostsResponse", <<field(1, values, "Post", "list", Nil)>>),
         bad("PostsWrapper", <<field(2, <<"a", "_", "a">>, "Post", "list", Nil)>>),
         bad("PostsWrapper", << >>)}

MCDescriptors ==
    {versions(p[1], p[2]) : p \in {q \in Words \X Words : q[1] # q[2]}}
    \cup misfits \cup {[versions(<<"a">>, <<"A">>) EXCEPT !.new["User"] = everyType]}

method(name, pool, kinds, in, out, relation) ==
    [name |-> name, pool |-> pool, clientStreams |-> kinds[1], serverStreams |-> kinds[2],
     sideEffects |-> kinds[3], input |-> in, output |-> out, linked |-> TRUE, relation |-> relation]

safe == <<FALSE, FALSE, FALSE>>

(* The last method of "more" resolves User.aA, as "posts" does under       *)
(* another spelling; that of "bad" is declared with side effects.          *)
MCServices ==
    [users |-> <<method("GetUser", "new", safe, "User", "User", Nil),
                 method("WatchUser", "new", <<FALSE, TRUE, FALSE>>, "User", "User", Nil),
                 method("SetUser", "new", <<FALSE, FALSE, TRUE>>, "User", "User", Nil),
                 method("AddUsers", "new", <<TRUE, FALSE, TRUE>>, "User", "User", Nil),
                 method("TalkToUser", "new", <<TRUE, TRUE, TRUE>>, "User", "User", Nil)>>,
     posts |-> <<method("UserPosts", "new", safe, "PostsRequest", "PostsResponse", <<"a", "_", "a">>)>>,
     more  |-> <<method("PostAuthor", "old", safe, "AuthorRequest", "AuthorResponse", <<"a", "A">>),
                 [method("OtherPosts", "old", safe, "OtherRequest", "OtherResponse", <<"a", "A">>)
                    EXCEPT !.linked = FALSE]>>,
     bad   |-> <<method("CountPosts", "new", <<FALSE, FALSE, TRUE>>, "PostsRequest", "PostsResponse",
                        <<"a", "_", "a">>)>>]

MCOptions ==
    {<< >>, <<WithClient("c1"), WithTypeResolver("t1")>>, <<WithRoute("r1"), WithProtoJSON>>,
     <<WithRoute("r1"), WithRoute(Nil)>>}

(* Values at the limits of their ranges.                                   *)
signed(b)   == {-(2 ^ (b - 1)), -1, 0, 2 ^ (b - 1) - 1}
unsigned(b) == {0, 1, 2 ^ b - 1}
floats  == {<<"num", 0>>, <<"num", -1>>, <<"num", 2 ^ Mantissa + 2>>,
            <<"NaN">>, <<"Infinity">>, <<"-Infinity">>}
jsons   == {number(1), text("[@error]"), null, struct(marker :> null), list(<<null>>)}
structs == {<< >>, marker :> number(1)}

MCValuesOf(type) ==
    CASE type \in int32Kinds  -> signed(Bits32)
      [] type \in uint32Kinds -> unsigned(Bits32)
      [] type \in int64Kinds  -> signed(Bits64)
      [] type \in uint64Kinds -> unsigned(Bits64)
      [] type \in {"float", "double", "FloatValue", "DoubleValue"} -> floats
      [] type \in {"bool", "BoolValue"} -> BOOLEAN
      [] type \in {"string", "StringValue"} -> {"", "[@error]"}
      [] type \in {"bytes", "BytesValue"} -> {"", "x"}
      [] type = "enum"         -> {0, 1, 3, -1}
      [] type = "NullValue"    -> {0, 2}
      [] type = "Int32Value"   -> signed(Bits32)
      [] type = "UInt32Value"  -> unsigned(Bits32)
      [] type = "Int64Value"   -> signed(Bits64)
      [] type = "UInt64Value"  -> unsigned(Bits64)
      [] type \in {"Timestamp", "Duration"} ->
           {0, -1, 2 ^ Mantissa, 2 ^ Mantissa + 1, 2 ^ Bits64, -(2 ^ Bits64)}
      [] type = "FieldMask"    -> {<< >>, <<<<<<"a", "_", "b">>, <<"a">>>>, <<<<"b">>>>>>,
                                   <<<<<<"a", "_", "1">>>>>>}
      [] type = "Value"        -> jsons
      [] type = "ListValue"    -> {<<>>} \cup {<<x>> : x \in jsons}
      [] type = "Struct"       -> structs
      [] type = "Any"          -> {<<"Int64Value", 1>>, <<"Duration", 1>>, <<"Duration", 2 ^ Bits64>>,
                                   <<"Struct", marker :> null>>,
                                   <<"Post", key("aA") :> text("x")>>,
                                   <<"Any", <<"Post", << >>>>>>, <<"Value", number(1)>>}

MCErrors ==
    {[code |-> none, message |-> "m", details |-> << >>],
     [code |-> "NOT_FOUND", message |-> "m", details |-> <<<<"Post", << >>>>, <<"Unheard", << >>>>>>]}

MCEnumNames == (0 :> "ZERO" @@ 1 :> "ONE")

(* Chains of names three deep, and pairs of names.                         *)
chain(names) ==
    LET nest[i \in 1 .. Len(names) + 1] ==
            IF i > Len(names) THEN << >>
            ELSE <<[name |-> names[i], mask |-> nest[i + 1]]>>
    IN  nest[1]

MCMasks ==
    {chain(<< >>)} \cup {chain(<<v>>) : v \in Words}
    \cup {chain(p) : p \in Words \X {<<"a">>, <<"a", "A">>, <<"a", "_", "a">>}}
    \cup {chain(<<p[1], <<"a", "A">>, p[2]>>) : p \in {<<"a", "A">>, <<"a", "_", "a">>, <<"a">>} \X Words}
    \cup {chain(<<p[1]>>) \o chain(<<p[2]>>) : p \in Words \X {<<"a">>, <<"a", "A">>, <<"a", "_", "a">>}}

MCRequests ==
    [op : {"Fetch"}, method : {"GetUser", "SetUser"}, mask : MCMasks]
    \cup [op : {"Fetch"}, method : {"GetUser"}, mask : {chain(<<f.name>>) : f \in ToSet(everyType)}]
    \cup [op : {"Do"}, method : {"SetUser", "CountPosts", "AddUsers"},
          mask : {chain(<< >>), chain(<<<<"a", "A">>, <<"a">>>>)}]
    \cup [op : {"Listen"}, method : {"WatchUser", "GetUser", "TalkToUser"},
          mask : {chain(<<<<"a", "A">>, <<"a">>, <<"a", "A">>>>)}]
=============================================================================
