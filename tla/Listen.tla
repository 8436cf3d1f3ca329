-------------------------------- MODULE Listen --------------------------------
(***************************************************************************)
(* handler.Listen: one server stream, each of whose messages is formatted, *)
(* stitched and sent on.  The goroutine is alone, but the message it       *)
(* unmarshals into and the error patch of the entry point's catch clause   *)
(* live as long as the stream and are used for message after message.      *)
(*                                                                         *)
(* A run of stitch is one step here.  What it does to a message shows in   *)
(* one respect: a failed resolver call whose nearest catch clause is the   *)
(* entry point's (Stitcher and UnaryHandler say when that is so).          *)
(***************************************************************************)
EXTENDS Naturals, Sequences, DynamicCodec

CONSTANTS
    Escapes,    \* relation errors may get past the clauses of the mask
    MaxMsgs     \* bound: messages in the stream

VARIABLES
    pc,             \* "open", "receive", "msg", "stitch", "send", "ok" or "error"
    buffer,         \* the buffer a message was read to, which goes back to a pool
    deferred,       \* outboundStream.Msg(): its bytes, or "nil" if no codec saw it
    responseMessage,\* the message the stream is unmarshalled into
    formatted,      \* the formatted body of the current message
    errField,       \* the field of errPatch's formatTarget; "none" if the
                    \* request has no catch clause and errPatch is nil
    sentSchema,
    out,            \* responses sent to the client
    in,             \* history: messages received
    escaped         \* history: escaped[i], message i had an escaping error

streamVars == <<pc, buffer, deferred, responseMessage, formatted, errField, sentSchema, out, in,
                escaped>>

StreamInit ==
    /\ pc = "open"
    /\ buffer = "empty"
    /\ deferred = "nil"
    /\ responseMessage = "empty"
    /\ formatted = "empty"
    /\ errField \in {"absent", "none"}
    /\ sentSchema = FALSE
    /\ out = << >>
    /\ in = << >>
    /\ escaped = << >>

(* A bad request, or a stream that cannot be opened.                       *)
RejectStream ==
    /\ pc = "open"
    /\ pc' = "error"
    /\ UNCHANGED <<buffer, deferred, responseMessage, formatted, errField, sentSchema, out, in,
                   escaped>>

Open ==
    /\ pc = "open"
    /\ pc' = "receive"
    /\ UNCHANGED <<buffer, deferred, responseMessage, formatted, errField, sentSchema, out, in,
                   escaped>>

Receive(m) ==
    /\ pc = "receive"
    /\ Len(in) < MaxMsgs
    /\ in' = Append(in, m)
    /\ buffer' = m
    /\ deferred' = dynamicUnmarshal(m)
    /\ pc' = "msg"
    /\ UNCHANGED <<responseMessage, formatted, errField, sentSchema, out, escaped>>

(* Another call takes the buffer from the pool.                            *)
ReuseBuffer(m) ==
    /\ pc = "msg"
    /\ buffer' = m
    /\ UNCHANGED <<pc, deferred, responseMessage, formatted, errField, sentSchema, out, in,
                   escaped>>

bytes == IF deferred = "buffer" THEN buffer ELSE deferred

(* Without a codec nothing is done.                                        *)
unmarshal == IF deferred = "nil" THEN responseMessage ELSE bytes

(* The message is unmarshalled and formatted.                              *)
Unmarshal ==
    /\ pc = "msg"
    /\ responseMessage' = unmarshal
    /\ formatted' = responseMessage'
    /\ pc' = "stitch"
    /\ UNCHANGED <<buffer, deferred, errField, sentSchema, out, in, escaped>>

(* The message cannot be unmarshalled or formatted.                        *)
Unusable ==
    /\ pc = "msg"
    /\ pc' = "error"
    /\ UNCHANGED <<buffer, deferred, responseMessage, formatted, errField, sentSchema, out, in,
                   escaped>>

(* stitch returns nil; errors it met were written below the entry point.   *)
Stitch ==
    /\ pc = "stitch"
    /\ escaped' = Append(escaped, FALSE)
    /\ formatted' = IF errField = "error" THEN "error" ELSE formatted
    /\ pc' = "send"
    /\ UNCHANGED <<buffer, deferred, responseMessage, errField, sentSchema, out, in>>

(* Slip: stitch's own error is not looked at.                              *)
StitchEscapesUnseen ==
    /\ pc = "stitch"
    /\ Escapes
    /\ escaped' = Append(escaped, TRUE)
    /\ pc' = "send"
    /\ UNCHANGED <<buffer, deferred, responseMessage, formatted, errField, sentSchema, out, in>>

(* An error goes past every clause of the mask: to the errPatch if there   *)
(* is one, and then the body is replaced; else stitch returns it.          *)
StitchEscapes ==
    /\ pc = "stitch"
    /\ Escapes
    /\ escaped' = Append(escaped, TRUE)
    /\ IF errField = "none"
       THEN pc' = "error" /\ UNCHANGED <<errField, formatted>>
       ELSE pc' = "send" /\ errField' = "error" /\ formatted' = "error"
    /\ UNCHANGED <<buffer, deferred, responseMessage, sentSchema, out, in>>

(* Slip: one response is sent and no more.                                 *)
SendWindowed ==
    /\ pc = "send"
    /\ out = << >>
    /\ out' = Append(out, [body |-> formatted, schema |-> ~sentSchema])
    /\ sentSchema' = TRUE
    /\ pc' = "receive"
    /\ UNCHANGED <<buffer, deferred, responseMessage, formatted, errField, in, escaped>>

Send ==
    /\ pc = "send"
    /\ out' = Append(out, [body |-> formatted, schema |-> ~sentSchema])
    /\ sentSchema' = TRUE
    /\ pc' = "receive"
    /\ UNCHANGED <<buffer, deferred, responseMessage, formatted, errField, in, escaped>>

SendFails ==
    /\ pc = "send"
    /\ pc' = "error"
    /\ UNCHANGED <<buffer, deferred, responseMessage, formatted, errField, sentSchema, out, in,
                   escaped>>

(* Receive returns false, without and with an error.                       *)
StreamEnds ==
    /\ pc = "receive"
    /\ pc' \in {"ok", "error"}
    /\ UNCHANGED <<buffer, deferred, responseMessage, formatted, errField, sentSchema, out, in,
                   escaped>>

Handler == Unmarshal \/ Stitch \/ StitchEscapes \/ Send

StreamNext ==
    \/ RejectStream \/ Open \/ Handler \/ Unusable \/ SendFails \/ StreamEnds
    \/ \E m \in Messages : Receive(m) \/ ReuseBuffer(m)

(* The handler's own steps are taken: resolvers answer and a response that *)
(* is ready is sent.  Nothing is assumed of the backend's stream.          *)
StreamSpec == StreamInit /\ [][StreamNext]_streamVars /\ WF_streamVars(Handler)

-----------------------------------------------------------------------------

(* What message i of the stream should become: the error of its relations  *)
(* if that reached the entry point's clause, else its contents.            *)
expected(i) == IF escaped[i] THEN "error" ELSE in[i]

(* The client sees each message of the stream as it is, in order, without  *)
(* loss, as long as no earlier message had an error at the entry point's   *)
(* clause and the message is not an empty one after others.  The schema    *)
(* goes with the first and with no other.                                  *)
FaithfulPrefix ==
    \A i \in 1 .. Len(out) :
        /\ out[i].schema <=> i = 1
        /\ \/ out[i].body = expected(i)
           \/ \E j \in 1 .. i - 1 : escaped[j]
           \/ in[i] = "empty" /\ i > 1

(* A stream that ended without an error was passed on completely, and no   *)
(* error escaped from it when the request had no clause to catch it.       *)
NothingDropped ==
    pc = "ok" =>
        /\ Len(out) = Len(in)
        /\ errField = "none" => \A i \in 1 .. Len(in) : ~escaped[i]

(* Each message of the stream is treated for itself: what the client gets  *)
(* for it does not depend on the messages before it.                       *)
EachMessageForItself == \A i \in 1 .. Len(out) : out[i].body = expected(i)

(* Every message that was received is answered, or the call fails: again   *)
(* and again, all have been.                                               *)
Answered == []<>(Len(out) = Len(in) \/ pc = "error")
=============================================================================
