------------------------------ MODULE FieldTypes ------------------------------
(***************************************************************************)
(* The types of fields: those that Protobuf has, and those that a schema   *)
(* states for them.                                                        *)
(***************************************************************************)
CONSTANT none       \* a Value with no kind, or no such thing

int32Kinds  == {"int32", "sint32", "sfixed32"}
uint32Kinds == {"uint32", "fixed32"}
int64Kinds  == {"int64", "sint64", "sfixed64"}
uint64Kinds == {"uint64", "fixed64"}

(* A field of kind enum has the type "NullValue" or "enum".                *)
scalarKinds ==
    int32Kinds \cup uint32Kinds \cup int64Kinds \cup uint64Kinds
    \cup {"float", "double", "bool", "string", "bytes", "enum", "NullValue"}

mapKeyKinds == int32Kinds \cup uint32Kinds \cup int64Kinds \cup uint64Kinds \cup {"bool", "string"}

wellKnownTypes ==
    {"Any", "FieldMask", "Timestamp", "Duration", "Value", "ListValue", "Struct", "BoolValue",
     "Int32Value", "Int64Value", "UInt32Value", "UInt64Value", "FloatValue", "DoubleValue",
     "StringValue", "BytesValue"}

-----------------------------------------------------------------------------
isMessage(type) == type \notin scalarKinds

computeScalarFieldType(kind) ==
    CASE kind \in int32Kinds  -> "INT32"
      [] kind \in uint32Kinds -> "UINT32"
      [] kind \in int64Kinds  -> "INT64"
      [] kind \in uint64Kinds -> "UINT64"
      [] kind = "double"      -> "DOUBLE"
      [] kind = "float"       -> "FLOAT"
      [] kind = "bool"        -> "BOOL"
      [] kind = "string"      -> "STRING"
      [] kind = "bytes"       -> "BYTES"
      [] kind = "NullValue"   -> "NULL"
      [] kind = "enum"        -> "ENUM"

allowedMapKeyTypes == {"BOOL", "INT32", "INT64", "UINT32", "UINT64", "STRING"}

(* The schema's type of a field: how often it occurs, the scalar type of   *)
(* the keys of a map, and that of the elements, or their message.          *)
computeFieldType(f) ==
    [card |-> f.card,
     key  |-> IF f.card = "map" THEN computeScalarFieldType(f.key) ELSE none,
     elem |-> IF isMessage(f.type) THEN f.type ELSE computeScalarFieldType(f.type)]
===============================================================================
