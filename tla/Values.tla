-------------------------------- MODULE Values --------------------------------
(***************************************************************************)
(* What becomes of a value of a message on its way to the client: the JSON *)
(* that format.go makes of it, beside the type that schema.go states.      *)
(*                                                                         *)
(* Numbers are small but keep their proportions: 32 bits are Bits32, 64    *)
(* bits are Bits64, and a JSON number, a double, is exact up to            *)
(* 2^Mantissa, with Bits32 < Mantissa < Bits64.  A float or double field   *)
(* is <<"num", n>>, or one of the three that are not numbers.              *)
(*                                                                         *)
(* JSON is <<kind, v>>: v is a number, a truth value, a sequence for a     *)
(* list, a function for a struct, and for a string and for the names in a  *)
(* struct what they spell: <<"dec", n>> a decimal number, <<"b64", b>> the *)
(* encoding of bytes, <<"text", s>> other text.  An Any, and a detail of   *)
(* an error, is <<type, message>>.                                         *)
(***************************************************************************)
EXTENDS KnitNames, FieldTypes, Integers

CONSTANTS
    Bits32, Bits64, Mantissa,
    EnumNames,      \* of the numbers that have one
    MaxAnys,        \* bound: how often an Any holds another
    KnownTypes      \* names that the TypeResolver finds

(* The bits are in proportion, and so are the powers of two.               *)
ASSUME ValuesAssumption ==
    /\ 1 < Bits32 /\ Bits32 < Mantissa /\ Mantissa < Bits64 - 1
    /\ {2 ^ (Bits32 - 1), 2 ^ Bits32, 2 ^ Mantissa, 2 ^ (Bits64 - 1)} \subseteq Nat
    /\ 2 ^ (Bits32 - 1) < 2 ^ Bits32 /\ 2 ^ Bits32 < 2 ^ Mantissa /\ 2 ^ Mantissa < 2 ^ (Bits64 - 1)
    /\ MaxAnys \in Nat
    /\ \A n, k \in DOMAIN EnumNames : EnumNames[n] = EnumNames[k] => n = k

-----------------------------------------------------------------------------
(* The values of a type.                                                   *)
isFunction(x) == x = [i \in DOMAIN x |-> x[i]]

scalarValue(kind, x) ==
    CASE kind \in int32Kinds \cup {"enum"} -> x \in -(2 ^ (Bits32 - 1)) .. 2 ^ (Bits32 - 1) - 1
      [] kind \in uint32Kinds -> x \in 0 .. 2 ^ Bits32 - 1
      [] kind \in int64Kinds \cup uint64Kinds \cup {"NullValue"} -> x \in Int
      [] kind \in {"float", "double"} -> IF x[1] = "num" THEN x = <<"num", x[2]>> ELSE x = <<x[1]>>
      [] kind = "bool" -> x \in BOOLEAN
      [] OTHER -> TRUE

-----------------------------------------------------------------------------
(* Numbers.                                                                *)
abs(n) == IF n < 0 THEN -n ELSE n

(* The nearest double: beyond 2^Mantissa the odd numbers are missing, and  *)
(* a tie goes to the even multiple.                                        *)
float64(n) ==
    LET twos == abs(n) \div 2
        near == 2 * (IF abs(n) % 2 = 1 /\ twos % 2 = 1 THEN twos + 1 ELSE twos)
    IN  IF abs(n) <= 2 ^ Mantissa THEN n ELSE IF n < 0 THEN -near ELSE near

(* Duration.AsDuration: saturates at the limits of 64 bits.                *)
asDuration(n) ==
    IF n >= 2 ^ (Bits64 - 1) THEN 2 ^ (Bits64 - 1) - 1
    ELSE IF n < -(2 ^ (Bits64 - 1)) THEN -(2 ^ (Bits64 - 1)) ELSE n

-----------------------------------------------------------------------------
(* JSON.                                                                   *)
number(n)  == <<"number", n>>
string(s)  == <<"string", s>>
text(s)    == string(<<"text", s>>)
boolean(b) == <<"bool", b>>
null       == <<"null", none>>
list(s)    == <<"list", s>>
struct(f)  == <<"struct", f>>
key(s)     == <<"text", s>>

(* The names and values of a record, in a struct, and one name more.       *)
named(r) == [k \in {key(n) : n \in DOMAIN r} |-> r[k[2]]]
with(fields, k, v) == [s \in DOMAIN fields \cup {k} |-> IF s = k THEN v ELSE fields[s]]

formatFloat(x) == IF x[1] = "num" THEN number(x[2]) ELSE text(x[1])

(* Each path by its parts.                                                 *)
formatFieldMask(paths) ==
    string(<<"paths", [i \in DOMAIN paths |->
                           [k \in DOMAIN paths[i] |-> camelCase(paths[i][k])]]>>)

(* Slip: like the numbers of 32 bits.                                      *)
formatInt64AsNumber(n) == number(float64(n))

formatInt64(n) == string(<<"dec", n>>)

(* A scalar, by its kind.                                                  *)
formatScalar(kind, x) ==
    CASE kind = "NullValue" -> null
      [] kind = "enum" -> IF x \in DOMAIN EnumNames THEN text(EnumNames[x]) ELSE number(float64(x))
      [] kind \in int32Kinds \cup uint32Kinds -> number(float64(x))
      [] kind \in int64Kinds \cup uint64Kinds -> formatInt64(x)
      [] kind \in {"float", "double"} -> formatFloat(x)
      [] kind = "bool"   -> boolean(x)
      [] kind = "string" -> text(x)
      [] kind = "bytes"  -> string(<<"b64", x>>)

(* Wrappers, by the kind of what they hold.                                *)
wrapped ==
    [BoolValue |-> "bool", Int32Value |-> "int32", Int64Value |-> "int64",
     UInt32Value |-> "uint32", UInt64Value |-> "uint64", FloatValue |-> "float",
     DoubleValue |-> "double", StringValue |-> "string", BytesValue |-> "bytes"]

simpleValue(type, x) ==
    CASE type \in DOMAIN wrapped -> scalarValue(wrapped[type], x)
      [] type = "FieldMask" -> isFunction(x) /\ \A i \in DOMAIN x : isFunction(x[i])
      [] type \in {"Timestamp", "Duration"} -> x \in Int
      [] OTHER -> TRUE

(* A value of a type, with an Any that of the message it holds.            *)
isValue(type, x) ==
    IF type = "Any"
    THEN /\ x = <<x[1], x[2]>>
         /\ IF x[1] \in wellKnownTypes THEN simpleValue(x[1], x[2])
            ELSE isFunction(x[2]) /\ key("@type") \notin DOMAIN x[2]
    ELSE IF isMessage(type) THEN simpleValue(type, x) ELSE scalarValue(type, x)

(* A well-known type that holds no other: a wrapper, a number of the least *)
(* units of time, paths, or JSON itself.                                   *)
formatSimple(type, x) ==
    CASE type \in DOMAIN wrapped -> formatScalar(wrapped[type], x)
      [] type = "FieldMask" -> formatFieldMask(x)
      [] type = "Timestamp" -> string(<<"time", x>>)
      [] type = "Duration"  -> string(<<"secs", float64(asDuration(x))>>)
      [] type = "Value"     -> x
      [] type = "ListValue" -> list(x)
      [] type = "Struct"    -> struct(x)

(* protojson, for what an Any or a detail holds: a Duration is exact, and  *)
(* any type that is not well-known is a message whose JSON is a struct.    *)
messageJSON(m) ==
    CASE m[1] = "Duration" -> string(<<"secs", m[2]>>)
      [] m[1] \in wellKnownTypes \ {"Duration"} -> formatSimple(m[1], m[2])
      [] OTHER -> struct(m[2])

(* An Any that holds an Any, and so on, from the inside out.               *)
nestedJSON(m) ==
    LET in[n \in 0 .. MaxAnys] ==
            IF n = 0 THEN m ELSE IF in[n - 1][1] = "Any" THEN in[n - 1][2] ELSE in[n - 1]
        json[n \in 0 .. MaxAnys] ==
            LET x == in[MaxAnys - n]
            IN  IF x[1] # "Any" THEN messageJSON(x)
                ELSE struct(with(IF x[2][1] \in wellKnownTypes THEN named([value |-> json[n - 1]])
                                 ELSE json[n - 1][2], key("@type"), text(x[2][1])))
    IN  json[MaxAnys]

protojson(m) == IF m[1] = "Any" THEN nestedJSON(m) ELSE messageJSON(m)

(* formatAny, of a type that is known.                                     *)
formatAny(m) ==
    LET val == protojson(m)
    IN  struct(with(IF val[1] = "struct" THEN val[2] ELSE named([value |-> val]),
                    key("@type"), text(m[1])))

formatSingularValue(type, x) ==
    CASE ~isMessage(type) -> formatScalar(type, x)
      [] type = "Any"     -> formatAny(x)
      [] OTHER            -> formatSimple(type, x)

(* Keys of a map; truth values are spelled out.                            *)
formatMapKeyValue(kind, k) ==
    CASE kind \in int32Kinds \cup int64Kinds \cup uint32Kinds \cup uint64Kinds -> <<"dec", k>>
      [] kind = "bool" -> <<"text", IF k THEN "true" ELSE "false">>
      [] OTHER -> <<"text", k>>

(* x: a function of keys for a map, a sequence for a list.                 *)
formatValue(f, x) ==
    CASE f.card = "map" ->
           LET str(k) == formatMapKeyValue(f.key, k)
           IN  struct([s \in {str(k) : k \in DOMAIN x} |->
                          formatSingularValue(f.type, x[CHOOSE k \in DOMAIN x : str(k) = s])])
      [] f.card = "list" -> list([i \in DOMAIN x |-> formatSingularValue(f.type, x[i])])
      [] OTHER -> formatSingularValue(f.type, x)

-----------------------------------------------------------------------------
(* Errors: [code, message, details], the code none unless the error comes  *)
(* from an RPC.                                                            *)
marker == key("[@error]")

formatDetail(d) ==
    LET plain == named([type |-> text(d[1]), value |-> string(<<"b64", d>>)])
    IN  struct(IF d[1] \in KnownTypes THEN with(plain, key("debug"), protojson(d)) ELSE plain)

errorFields(e, path) ==
    named([code    |-> text(IF e.code = none THEN "UNKNOWN" ELSE e.code),
           message |-> text(e.message),
           details |-> list([i \in DOMAIN e.details |-> formatDetail(e.details[i])]),
           path    |-> text(path)])

(* Slip: without the marker.                                               *)
formatErrorPlain(e, path) == struct(errorFields(e, path))

formatError(e, path) == struct(with(errorFields(e, path), marker, struct(<< >>)))

-----------------------------------------------------------------------------
(* Reference: what a client reads, by the JSON mapping of Protobuf, where  *)
(* the schema states that type; none if it cannot be read.                 *)
readScalar(scalar, js) ==
    LET s == js[2]
    IN  CASE scalar \in {"INT32", "UINT32", "INT64", "UINT64"} ->
               IF js[1] = "number" THEN s
               ELSE IF js[1] = "string" /\ s[1] = "dec" THEN s[2] ELSE none
          [] scalar \in {"FLOAT", "DOUBLE"} ->
               IF js[1] = "number" THEN <<"num", s>>
               ELSE IF js[1] = "string" THEN <<s[2]>> ELSE none
          [] scalar = "BOOL" -> IF js[1] = "bool" THEN s ELSE none
          [] scalar = "STRING" -> IF js[1] = "string" /\ s[1] = "text" THEN s[2] ELSE none
          [] scalar = "BYTES" -> IF js[1] = "string" /\ s[1] = "b64" THEN s[2] ELSE none
          [] scalar = "NULL" -> IF js[1] = "null" THEN 0 ELSE none
          [] scalar = "ENUM" ->
               IF js[1] = "number" THEN s
               ELSE CHOOSE n \in DOMAIN EnumNames : EnumNames[n] = s[2]

readSimple(type, js) ==
    LET s == js[2]
    IN  CASE type \in DOMAIN wrapped -> readScalar(computeScalarFieldType(wrapped[type]), js)
          [] type = "FieldMask" ->
               [i \in DOMAIN s[2] |-> [k \in DOMAIN s[2][i] |-> snakeCase(s[2][i][k])]]
          [] type \in {"Timestamp", "Duration"} -> s[2]
          [] type = "Value" -> js
          [] type \in {"ListValue", "Struct"} -> s
          [] type = "Any" -> none

readAny(js) ==
    LET s  == js[2]
        of == s[key("@type")][2][2]
    IN  IF js[1] # "struct" \/ key("@type") \notin DOMAIN s THEN none
        ELSE <<of, IF of \in wellKnownTypes THEN readSimple(of, s[key("value")])
                   ELSE [k \in DOMAIN s \ {key("@type")} |-> s[k]]>>

readMessage(type, js) == IF type = "Any" THEN readAny(js) ELSE readSimple(type, js)

readElem(elem, js) ==
    IF elem \in wellKnownTypes THEN readMessage(elem, js) ELSE readScalar(elem, js)

readKey(scalar, k) == IF scalar = "BOOL" THEN k[2] = "true" ELSE k[2]

read(t, js) ==
    CASE t.card = "map"  -> [k \in {readKey(t.key, s) : s \in DOMAIN js[2]} |->
                                readElem(t.elem, js[2][CHOOSE s \in DOMAIN js[2] :
                                                           readKey(t.key, s) = k])]
      [] t.card = "list" -> [i \in DOMAIN js[2] |-> readElem(t.elem, js[2][i])]
      [] OTHER           -> readElem(t.elem, js)

(* What JSON here cannot tell: a null that is not 0, units of time beyond  *)
(* the precision of a double, names that snake case does not bring back,   *)
(* also in an Any, and in an Any the types whose own JSON is a struct.     *)
tellingSimple(type, x) ==
    CASE type = "NullValue" -> x = 0
      [] type = "Duration"  -> abs(x) <= 2 ^ Mantissa
      [] type = "FieldMask" -> \A i \in DOMAIN x : \A k \in DOMAIN x[i] :
                                   snakeCase(camelCase(x[i][k])) = x[i][k]
      [] OTHER              -> TRUE

telling(type, x) ==
    IF type = "Any"
    THEN /\ x[1] \notin {"Any", "Struct", "Value"}
         /\ x[1] = "FieldMask" => tellingSimple(x[1], x[2])
    ELSE tellingSimple(type, x)
=============================================================================
