----------------------------- MODULE DynamicCodec -----------------------------
(***************************************************************************)
(* The codec of the gateway's clients: what it gets to see of a message    *)
(* and keeps until the message is unmarshalled.                            *)
(***************************************************************************)
CONSTANTS
    Contents,   \* what a message with at least one byte may say
    Empties     \* the backend may send messages of size zero

ASSUME CodecAssumption == {"empty", "error", "nil", "buffer"} \cap Contents = {}

Messages == Contents \cup (IF Empties THEN {"empty"} ELSE {})

(* Slip: the bytes are the buffer's.                                       *)
dynamicUnmarshalAliased(m) == IF m = "empty" THEN "nil" ELSE "buffer"

(* dynamicCodec.Unmarshal copies the bytes.  A message of size zero never  *)
(* reaches the codec.                                                      *)
dynamicUnmarshal(m) == IF m = "empty" THEN "nil" ELSE m
=============================================================================
