------------------------------- MODULE Queries -------------------------------
(***************************************************************************)
(* A gateway (Registration) that answers the requests it accepted, down to *)
(* a value, or an error, in the response (Values).                         *)
(***************************************************************************)
EXTENDS Registration, Values

CONSTANTS
    ValuesOf(_),    \* the values of a type that are tried
    Errors          \* the errors of resolvers that are tried

(* What Protobuf says of fields, and that values are of their types.       *)
ASSUME SamplesAssumption ==
    /\ \A pools \in Descriptors : \A p \in DOMAIN pools :
       \A m \in DOMAIN pools[p] : \A f \in ToSet(pools[p][m]) :
          /\ f.card \in {"singular", "list", "map"} /\ (f.card = "map" => f.key \in mapKeyKinds)
          /\ f.type \in DOMAIN pools[p] \cup scalarKinds \cup wellKnownTypes
    /\ \A type \in scalarKinds \cup wellKnownTypes : \A x \in ValuesOf(type) : isValue(type, x)

VARIABLE
    sample          \* a value, or an error, in the last response, or Nil

queryVars == <<vars, sample>>

QueryInit == Init /\ sample = Nil

(* The fields of the response that are scalars or well-known types.        *)
leaves ==
    {e.field : e \in {x \in response : ~x.missing /\ x.field.type \in scalarKinds \cup wellKnownTypes}}

fieldValues(f) ==
    CASE f.card = "map"  -> {[j \in {k} |-> x] : k \in ValuesOf(f.key), x \in ValuesOf(f.type)}
      [] f.card = "list" -> {<< >>} \cup {<<x>> : x \in ValuesOf(f.type)}
      [] OTHER           -> ValuesOf(f.type)

valueIn(f, x) ==
    [value |-> x, field |-> f, schema |-> computeFieldType(f), json |-> formatValue(f, x)]

errorAt(e, path) == [error |-> e, path |-> path, json |-> formatError(e, path)]

(* A value in the response, or the error of a resolver, if one is called;  *)
(* a response may be without both.                                         *)
Respond ==
    /\ Answer
    /\ \/ /\ err = Nil
          /\ \E f \in leaves : \E x \in fieldValues(f) : sample' = valueIn(f, x)
       \/ /\ err = Nil /\ called # {}
          /\ \E e \in Errors, path \in {"x"} : sample' = errorAt(e, path)
       \/ sample' = Nil

Received ==
    /\ sample # Nil
    /\ sample' = Nil
    /\ UNCHANGED vars

-----------------------------------------------------------------------------
(* One request is handled at a time.                                       *)
QueryNext ==
    \/ Configure /\ UNCHANGED sample
    \/ sample = Nil /\ (\E q \in Requests : Handle(q)) /\ UNCHANGED sample
    \/ (Format \/ Stitch) /\ UNCHANGED sample
    \/ Respond \/ Received

QuerySpec == QueryInit /\ [][QueryNext]_queryVars

-----------------------------------------------------------------------------
(* What a client reads in a response, where the schema says how, is the    *)
(* value in the message: of every kind, in a list, as a map's value or its *)
(* key, at the limits of its range, and with the exceptions in telling.    *)
ReadableBySchema ==
    sample # Nil /\ "value" \in DOMAIN sample =>
        LET f == sample.field
            x == sample.value
        IN  (CASE f.card = "map"  -> \A k \in DOMAIN x : telling(f.type, x[k])
               [] f.card = "list" -> \A i \in DOMAIN x : telling(f.type, x[i])
               [] OTHER           -> telling(f.type, x))
            => read(sample.schema, sample.json) = x

(* Where a relation is expected a client tells an error by its marker, and *)
(* reads in it what the resolver reported, also details of types that the  *)
(* gateway does not know.  A value has the marker only where its names are *)
(* the data's: in maps with strings for keys, Struct, Value and Any.       *)
ErrorsStandOut ==
    sample # Nil =>
        LET js == sample.json[2]
        IN  IF "error" \in DOMAIN sample
            THEN /\ marker \in DOMAIN js
                 /\ sample.error.code # none => js[key("code")] = text(sample.error.code)
                 /\ js[key("message")] = text(sample.error.message)
                 /\ js[key("path")] = text(sample.path)
                 /\ \A i \in DOMAIN sample.error.details :
                       js[key("details")][2][i][2][key("value")]
                           = string(<<"b64", sample.error.details[i]>>)
            ELSE sample.json[1] = "struct" /\ marker \in DOMAIN js =>
                 \/ sample.field.card = "map" /\ sample.schema.key = "STRING"
                 \/ sample.schema.elem \in {"Struct", "Value", "Any"}
=============================================================================
