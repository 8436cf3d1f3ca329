----------------------------- MODULE ListenProofs -----------------------------
(***************************************************************************)
(* Listen for every stream: any messages, of any number.                   *)
(***************************************************************************)
EXTENDS Listen, TLAPS

Text      == Contents \cup {"empty"}
Responses == [body : Text \cup {"error"}, schema : BOOLEAN]

-----------------------------------------------------------------------------
(* The parts of the inductive invariant.                                   *)

Types ==
    /\ pc \in {"open", "receive", "msg", "stitch", "send", "ok", "error"}
    /\ buffer \in Text
    /\ deferred \in Contents \cup {"nil"}
    /\ responseMessage \in Text
    /\ formatted \in Text \cup {"error"}
    /\ errField \in {"absent", "none", "error"}
    /\ sentSchema \in BOOLEAN
    /\ out \in Seq(Responses)
    /\ in \in Seq(Text)
    /\ escaped \in Seq(BOOLEAN)

(* How far reading, stitching and sending are from one another.            *)
InStep ==
    /\ pc \in {"open", "receive", "ok"} => Len(in) = Len(out) /\ Len(escaped) = Len(out)
    /\ pc \in {"msg", "stitch"} => Len(in) = Len(out) + 1 /\ Len(escaped) = Len(out)
    /\ pc = "send" => Len(in) = Len(out) + 1 /\ Len(escaped) = Len(out) + 1
    /\ Len(out) <= Len(in) /\ Len(out) <= Len(escaped)
    /\ sentSchema <=> Len(out) > 0

(* What is left over from the messages before: the contents of the last    *)
(* one that was not empty, and the error of one that had an error.         *)
LeftOver ==
    /\ pc \in {"open", "receive", "msg"} /\ Len(out) = 0 => responseMessage = "empty"
    /\ pc = "msg" => deferred = dynamicUnmarshal(in[Len(in)])
    /\ pc # "error" => (errField = "error" <=> \E j \in 1 .. Len(escaped) : escaped[j] = TRUE)

(* n's message may show as b.                                              *)
passable(n, b) ==
    \/ b = expected(n)
    \/ \E j \in 1 .. n - 1 : escaped[j] = TRUE
    \/ in[n] = "empty" /\ n > 1

Current ==
    /\ pc = "stitch" => formatted = in[Len(in)] \/ (in[Len(in)] = "empty" /\ Len(in) > 1)
    /\ pc = "send" => passable(Len(in), formatted)

Passed ==
    \A i \in 1 .. Len(out) : (out[i].schema <=> i = 1) /\ passable(i, out[i].body)

Stream == Types /\ InStep /\ LeftOver /\ Current /\ Passed

-----------------------------------------------------------------------------
(* Whatever happens, messages that were read, and errors that were met,    *)
(* stay what they are.                                                     *)
LEMMA Remembered ==
  ASSUME Types, InStep, Passed, UNCHANGED out,
         \/ in' = in
         \/ \E m \in Text : in' = Append(in, m),
         \/ escaped' = escaped
         \/ \E e \in BOOLEAN : escaped' = Append(escaped, e)
  PROVE  Passed'
<1>a. out \in Seq(Responses) /\ in \in Seq(Text) /\ escaped \in Seq(BOOLEAN)
      /\ Len(out) \in Nat /\ Len(out) <= Len(in) /\ Len(out) <= Len(escaped)
  BY DEF Types, InStep
<1>1. \A i \in 1 .. Len(out) : in'[i] = in[i]
  <2>1. ASSUME NEW m \in Text, in' = Append(in, m)
        PROVE  \A i \in 1 .. Len(out) : in'[i] = in[i]
    BY <1>a, <2>1
  <2> QED
    BY <2>1
<1>2. \A i \in 1 .. Len(out) : escaped'[i] = escaped[i]
  <2>1. ASSUME NEW e \in BOOLEAN, escaped' = Append(escaped, e)
        PROVE  \A i \in 1 .. Len(out) : escaped'[i] = escaped[i]
    BY <1>a, <2>1
  <2> QED
    BY <2>1
<1>3. ASSUME NEW i \in 1 .. Len(out), NEW b, passable(i, b) PROVE passable(i, b)'
  <2>1. \A j \in 1 .. i - 1 : j \in 1 .. Len(out)
    BY <1>a
  <2> QED
    BY <1>1, <1>2, <1>3, <2>1 DEF passable, expected
<1> QED
  BY <1>3 DEF Passed

(* The invariant.                                                          *)
LEMMA StreamInvariant == StreamSpec => []Stream
<1>1. StreamInit => Stream
  <2> SUFFICES ASSUME StreamInit PROVE Stream
    OBVIOUS
  <2>1. out = << >> /\ in = << >> /\ escaped = << >> /\ pc = "open" /\ sentSchema = FALSE
    BY DEF StreamInit
  <2>2. Types
    <3>1. sentSchema \in BOOLEAN
      BY <2>1
    <3> QED
      BY <2>1, <3>1 DEF StreamInit, Types, Text
  <2>3. InStep /\ LeftOver /\ Current /\ Passed
    BY <2>1 DEF StreamInit, InStep, LeftOver, Current, Passed
  <2> QED
    BY <2>2, <2>3 DEF Stream
<1>2. Stream /\ [StreamNext]_streamVars => Stream'
  <2> SUFFICES ASSUME Stream, [StreamNext]_streamVars PROVE Stream'
    OBVIOUS
  <2> USE CodecAssumption DEF Stream
  <2>1. ASSUME NEW m \in Messages, Receive(m) PROVE Stream'
    <3>1. /\ pc = "receive" /\ pc' = "msg" /\ in' = Append(in, m) /\ m \in Text
          /\ UNCHANGED <<responseMessage, formatted, errField, sentSchema, out, escaped>>
          /\ buffer' = m /\ deferred' = dynamicUnmarshal(m)
      BY <2>1 DEF Receive, Messages, Text
    <3>2. Types'
      BY <3>1 DEF Types, dynamicUnmarshal, Text
    <3>3. InStep'
      BY <3>1 DEF Types, InStep
    <3>4. LeftOver'
      BY <3>1 DEF Types, InStep, LeftOver, dynamicUnmarshal
    <3>5. Current' /\ Passed'
      BY <3>1, Remembered DEF Current
    <3> QED
      BY <3>2, <3>3, <3>4, <3>5
  <2>2. CASE Unmarshal
    <3>1. /\ pc = "msg" /\ pc' = "stitch" /\ responseMessage' = unmarshal /\ formatted' = unmarshal
          /\ UNCHANGED <<buffer, deferred, errField, sentSchema, out, in, escaped>>
      BY <2>2 DEF Unmarshal
    <3>2. /\ unmarshal = IF deferred = "nil" THEN responseMessage ELSE deferred
          /\ deferred = dynamicUnmarshal(in[Len(in)]) /\ in[Len(in)] \in Text
          /\ Len(in) = Len(out) + 1
      BY <3>1 DEF unmarshal, bytes, Types, InStep, LeftOver
    <3>3. unmarshal = in[Len(in)] \/ (in[Len(in)] = "empty" /\ Len(in) > 1)
      BY <3>1, <3>2 DEF dynamicUnmarshal, LeftOver, Types, Text
    <3>4. Types' /\ InStep' /\ LeftOver'
      BY <3>1, <3>2 DEF Types, InStep, LeftOver, Text
    <3>5. Current' /\ Passed'
      BY <3>1, <3>3, Remembered DEF Current
    <3> QED
      BY <3>4, <3>5
  <2>3. CASE Stitch
    <3>1. /\ pc = "stitch" /\ pc' = "send" /\ escaped' = Append(escaped, FALSE)
          /\ formatted' = IF errField = "error" THEN "error" ELSE formatted
          /\ UNCHANGED <<buffer, deferred, responseMessage, errField, sentSchema, out, in>>
      BY <2>3 DEF Stitch
    <3>2. Types' /\ InStep'
      BY <3>1 DEF Types, InStep, Text
    <3>3. Len(in) = Len(escaped) + 1 /\ escaped'[Len(in)] = FALSE
          /\ \A j \in 1 .. Len(escaped) : escaped'[j] = escaped[j]
      BY <3>1 DEF Types, InStep
    <3>4. LeftOver'
      BY <3>1, <3>3 DEF LeftOver, Types
    <3>5. passable(Len(in), formatted)'
      BY <3>1, <3>3 DEF passable, expected, LeftOver, Current, Types
    <3>6. Current' /\ Passed'
      BY <3>1, <3>5, Remembered DEF Current
    <3> QED
      BY <3>2, <3>4, <3>6
  <2>4. CASE StitchEscapes /\ errField # "none"
    <3>1. /\ pc = "stitch" /\ pc' = "send" /\ escaped' = Append(escaped, TRUE)
          /\ formatted' = "error" /\ errField' = "error"
          /\ UNCHANGED <<buffer, deferred, responseMessage, sentSchema, out, in>>
      BY <2>4 DEF StitchEscapes
    <3>2. Types' /\ InStep'
      BY <3>1 DEF Types, InStep, Text
    <3>3. Len(in) = Len(escaped) + 1 /\ escaped'[Len(in)] = TRUE
      BY <3>1 DEF Types, InStep
    <3>4. LeftOver'
      BY <3>1, <3>3 DEF LeftOver, Types
    <3>5. passable(Len(in), formatted)'
      BY <3>1, <3>3 DEF passable, expected
    <3>6. Current' /\ Passed'
      BY <3>1, <3>5, Remembered DEF Current
    <3> QED
      BY <3>2, <3>4, <3>6
  <2>5. CASE Send
    <3>1. /\ pc = "send" /\ pc' = "receive" /\ sentSchema' = TRUE
          /\ out' = Append(out, [body |-> formatted, schema |-> ~sentSchema])
          /\ UNCHANGED <<buffer, deferred, responseMessage, formatted, errField, in, escaped>>
      BY <2>5 DEF Send
    <3>2. [body |-> formatted, schema |-> ~sentSchema] \in Responses
      BY DEF Types, Responses
    <3>3. Types' /\ InStep' /\ LeftOver' /\ Current'
      BY <3>1, <3>2 DEF Types, InStep, LeftOver, Current
    <3>4. /\ Len(out') = Len(out) + 1 /\ Len(in) = Len(out')
          /\ \A i \in 1 .. Len(out) : out'[i] = out[i]
          /\ out'[Len(out')] = [body |-> formatted, schema |-> ~sentSchema]
      BY <3>1, <3>2 DEF Types, InStep
    <3>5. out'[Len(out')].body = formatted /\ (out'[Len(out')].schema <=> Len(out) = 0)
      <4>1. out'[Len(out')].body = formatted /\ out'[Len(out')].schema = ~sentSchema
        BY <3>4
      <4>2. ~sentSchema <=> Len(out) = 0
        BY DEF Types, InStep
      <4> QED
        BY <4>1, <4>2
    <3>6. \A i \in 1 .. Len(in) : \A b : passable(i, b)' <=> passable(i, b)
      BY <3>1 DEF passable, expected
    <3>7. Passed'
      BY <3>1, <3>4, <3>5, <3>6 DEF Passed, Current, Types
    <3> QED
      BY <3>3, <3>7
  <2>6. CASE StitchEscapes /\ errField = "none"
    <3>1. /\ pc = "stitch" /\ pc' = "error" /\ escaped' = Append(escaped, TRUE)
          /\ UNCHANGED <<buffer, deferred, responseMessage, formatted, errField, sentSchema,
                         out, in>>
      BY <2>6 DEF StitchEscapes
    <3>2. Types' /\ InStep' /\ LeftOver' /\ Current'
      BY <3>1 DEF Types, InStep, LeftOver, Current
    <3> QED
      BY <3>1, <3>2, Remembered
  <2>7. CASE \/ RejectStream \/ Open \/ Unusable \/ SendFails \/ StreamEnds
             \/ \E m \in Messages : ReuseBuffer(m)
    <3>1. /\ UNCHANGED <<deferred, responseMessage, formatted, errField, sentSchema, out, in,
                         escaped>>
          /\ buffer' \in Text
          /\ \/ pc' = "error"
             \/ pc' = pc
             \/ pc = "open" /\ pc' = "receive"
             \/ pc = "receive" /\ pc' = "ok"
      BY <2>7 DEF RejectStream, Open, Unusable, SendFails, StreamEnds, ReuseBuffer, Types,
         Messages, Text
    <3>2. Types' /\ InStep' /\ LeftOver'
      BY <3>1 DEF Types, InStep, LeftOver
    <3>3. Current'
      BY <3>1 DEF Current, passable, expected
    <3> QED
      BY <3>1, <3>2, <3>3, Remembered
  <2>8. CASE UNCHANGED streamVars
    BY <2>8 DEF streamVars, Types, InStep, LeftOver, Current, Passed, passable, expected
  <2> QED
    BY <2>1, <2>2, <2>3, <2>4, <2>5, <2>6, <2>7, <2>8 DEF StreamNext, Handler
<1> QED
  BY <1>1, <1>2, PTL DEF StreamSpec

(* Each message of the stream is passed on in order and as it is, and the  *)
(* schema with the first alone, but for what Listen keeps from message to  *)
(* message: the entry point's error and the contents before an empty one.  *)
THEOREM PassedOnFaithfully == StreamSpec => []FaithfulPrefix
<1>1. Stream => FaithfulPrefix
  BY DEF Stream, Types, InStep, Passed, passable, FaithfulPrefix
<1> QED
  BY <1>1, StreamInvariant, PTL

(* A stream that ended without an error was passed on to its last message, *)
(* and no relation's error was swallowed for want of a clause.             *)
THEOREM NoMessageDropped == StreamSpec => []NothingDropped
<1>1. Stream => NothingDropped
  BY DEF Stream, Types, InStep, LeftOver, NothingDropped
<1> QED
  BY <1>1, StreamInvariant, PTL

(* A stream of messages with contents and without errors.                  *)
Plain ==
    /\ \A i \in 1 .. Len(escaped) : escaped[i] = FALSE
    /\ \A i \in 1 .. Len(in) : in[i] \in Contents

(* Those two are all that Listen carries over: where no message is empty   *)
(* and every error is caught in the mask, each message is treated for      *)
(* itself.                                                                 *)
THEOREM NothingElseCarriedOver ==
  ASSUME ~Escapes, ~Empties
  PROVE  StreamSpec => []EachMessageForItself
<1>1. StreamInit => Plain
  BY DEF StreamInit, Plain
<1>2. Stream /\ Plain /\ [StreamNext]_streamVars => Plain'
  <2> SUFFICES ASSUME Stream, Plain, [StreamNext]_streamVars PROVE Plain'
    OBVIOUS
  <2>1. ASSUME NEW m \in Messages, Receive(m) PROVE Plain'
    BY <2>1 DEF Receive, Messages, Plain, Stream, Types
  <2>2. CASE Stitch
    BY <2>2 DEF Stitch, Plain, Stream, Types
  <2>3. UNCHANGED <<in, escaped>> => Plain'
    BY DEF Plain
  <2>4. ~StitchEscapes
    BY DEF StitchEscapes
  <2> QED
    BY <2>1, <2>2, <2>3, <2>4 DEF StreamNext, Handler, RejectStream, Open, Unmarshal, Unusable,
       Send, SendFails, StreamEnds, ReuseBuffer, streamVars
<1>3. Stream /\ Plain => EachMessageForItself
  <2> SUFFICES ASSUME Stream, Plain, NEW i \in 1 .. Len(out)
               PROVE  out[i].body = expected(i)
    BY DEF EachMessageForItself
  <2>1. /\ \A j \in 1 .. i : j \in 1 .. Len(escaped) /\ j \in 1 .. Len(in)
        /\ i \in 1 .. i /\ \A j \in 1 .. i - 1 : j \in 1 .. i
    BY DEF Stream, Types, InStep
  <2>2. in[i] # "empty" /\ \A j \in 1 .. i - 1 : escaped[j] # TRUE
    BY <2>1, CodecAssumption DEF Plain
  <2> QED
    BY <2>2 DEF Stream, Passed, passable
<1> QED
  BY <1>1, <1>2, <1>3, StreamInvariant, PTL DEF StreamSpec
=============================================================================
