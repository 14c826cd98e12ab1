------------------------------ MODULE RtReader ------------------------------
(***************************************************************************)
(* rtConnectedClient_Read (rtrouted.c:338-402): how the router turns the   *)
(* bytes of one client's stream into messages, however the kernel cuts     *)
(* them up.  The bytes are those rtMessageHeader_Encode makes; the header  *)
(* they are decoded into is used for one message after the other.          *)
(***************************************************************************)
EXTENDS RtMessageHeader

CONSTANTS
    Scripts,      \* what the client may write: sequences of [header, payload]
    Preamble      \* the bytes read first: version and header length

ASSUME PreambleAssumption == Preamble = 4

ReadBufferSize == 8192      \* RTMSG_CLIENT_READ_BUFFER_SIZE

Byte == 0 .. 255
IsUInt16(n) == n \in 0 .. Short - 1
IsUInt32(n) == n \in Nat /\ IsUInt16(n \div Short)

(* A client numbers its messages; its strings leave room for their end,    *)
(* and a message fits the buffer it is read into.                          *)
Sendable(m, message) ==
    LET h == message.header
        topic == CString(h.topic)
        reply_topic == CString(h.reply_topic)
    IN  /\ h = HeaderOf(m, h.flags, h.control_data, Len(message.payload), topic, reply_topic)
        /\ \A n \in {m, h.flags, h.control_data} : IsUInt32(n)
        /\ topic \in Seq(Byte \ {0}) /\ Len(topic) < TopicSize
        /\ reply_topic \in Seq(Byte \ {0}) /\ Len(reply_topic) < TopicSize
        /\ message.payload \in Seq(Byte)
        /\ HeaderLength(h) + Len(message.payload) <= ReadBufferSize

ASSUME ScriptsAssumption ==
    \A s \in Scripts : s \in Seq(Range(s)) /\ \A m \in DOMAIN s : Sendable(m, s[m])

VARIABLES
    script,         \* what this client writes
    headers,        \* messages whose header is written
    complete,       \* messages whose payload is, too
    hungup,         \* the client has closed its end
    stream,         \* the bytes on their way
    state,          \* rtConnectionState
    read_buffer,    \* the bytes of the message so far: bytes_read is its length
    bytes_to_read,
    header,         \* the rtMessageHeader of the client
    delivered,      \* the sequence numbers of the messages dispatched
    closed          \* the router has dropped the client

reader == <<state, read_buffer, bytes_to_read, header, delivered, closed>>
writer == <<script, headers, complete, hungup>>
vars   == <<writer, stream, reader>>

-----------------------------------------------------------------------------
(* The client: a send for the header, a send for the payload.              *)
WriteHeader ==
    /\ ~hungup /\ headers = complete /\ headers < Len(script)
    /\ headers' = headers + 1
    /\ stream' = stream \o Encode(script[headers + 1].header)
    /\ UNCHANGED <<script, complete, hungup, reader>>

WritePayload ==
    /\ ~hungup /\ headers > complete
    /\ complete' = complete + 1
    /\ stream' = stream \o script[headers].payload
    /\ UNCHANGED <<script, headers, hungup, reader>>

HangUp == ~hungup /\ hungup' = TRUE /\ UNCHANGED <<script, headers, complete, stream, reader>>

-----------------------------------------------------------------------------
bytes_read == Len(read_buffer)
Wanted     == bytes_to_read - bytes_read

\* select has found the descriptor readable: recv will not block.
Readable == ~closed /\ (stream # <<>> \/ hungup)

\* What recv gives: any number of the bytes there are, up to what is wanted.
Recv(k) ==
    /\ Readable
    /\ k \in 1 .. Wanted /\ k <= Len(stream)
    /\ stream' = SubSeq(stream, k + 1, Len(stream))

Buffered(k) == read_buffer \o SubSeq(stream, 1, k)

\* Is this recv the one that completes what is wanted?
Completes(k) == k = Wanted

ReadPreamble(k) ==
    LET buffer == Buffered(k) IN
    /\ state = "ReadHeaderPreamble" /\ Recv(k)
    /\ read_buffer' = buffer
    /\ IF Completes(k)
       THEN /\ bytes_to_read' = bytes_to_read + (DecodeUInt16(buffer, 3) - Preamble)
            /\ state' = "ReadHeader"
       ELSE UNCHANGED <<bytes_to_read, state>>
    /\ UNCHANGED <<writer, header, delivered, closed>>

ReadHeader(k) ==
    LET buffer == Buffered(k) IN
    /\ state = "ReadHeader" /\ Recv(k)
    /\ read_buffer' = buffer
    /\ IF Completes(k)
       THEN /\ header' = Decode(header, buffer)
            /\ bytes_to_read' = bytes_to_read + header'.payload_length
            /\ state' = "ReadPayload"
       ELSE UNCHANGED <<header, bytes_to_read, state>>
    /\ UNCHANGED <<writer, delivered, closed>>

\* Bug to catch: bytes_to_read is not set back.
ReadPayload_KeepsLength(k) ==
    /\ state = "ReadPayload" /\ Recv(k)
    /\ IF Completes(k)
       THEN /\ delivered' = Append(delivered, header.sequence_number)
            /\ read_buffer' = <<>> /\ bytes_to_read' = bytes_to_read /\ header' = InitHeader
            /\ state' = "ReadHeaderPreamble"
       ELSE /\ read_buffer' = Buffered(k)
            /\ UNCHANGED <<delivered, bytes_to_read, state, header>>
    /\ UNCHANGED <<writer, closed>>

\* Bug to catch: the state is not set back.
ReadPayload_KeepsState(k) ==
    /\ state = "ReadPayload" /\ Recv(k)
    /\ IF Completes(k)
       THEN /\ delivered' = Append(delivered, header.sequence_number)
            /\ read_buffer' = <<>> /\ bytes_to_read' = Preamble /\ header' = InitHeader
            /\ state' = "ReadPayload"
       ELSE /\ read_buffer' = Buffered(k)
            /\ UNCHANGED <<delivered, bytes_to_read, state, header>>
    /\ UNCHANGED <<writer, closed>>

\* Bug to catch: the header is not initialised again.
ReadPayload_KeepsHeader(k) ==
    /\ state = "ReadPayload" /\ Recv(k)
    /\ IF Completes(k)
       THEN /\ delivered' = Append(delivered, header.sequence_number)
            /\ read_buffer' = <<>> /\ bytes_to_read' = Preamble
            /\ state' = "ReadHeaderPreamble"
       ELSE /\ read_buffer' = Buffered(k)
            /\ UNCHANGED <<delivered, bytes_to_read, state>>
    /\ UNCHANGED <<writer, header, closed>>

\* With the payload complete the message is dispatched and all starts over.
ReadPayload(k) ==
    /\ state = "ReadPayload" /\ Recv(k)
    /\ IF Completes(k)
       THEN /\ delivered' = Append(delivered, header.sequence_number)
            /\ read_buffer' = <<>>
            /\ bytes_to_read' = Preamble
            /\ state' = "ReadHeaderPreamble"
            /\ header' = InitHeader
       ELSE /\ read_buffer' = Buffered(k)
            /\ UNCHANGED <<delivered, bytes_to_read, state, header>>
    /\ UNCHANGED <<writer, closed>>

\* recv answers 0, at the end of the stream or because it was asked for no
\* bytes; or the stream is reset and what was left in it lost.
ReadFails ==
    /\ Readable
    /\ Wanted = 0 \/ hungup
    /\ closed' = TRUE
    /\ stream' = <<>>
    /\ UNCHANGED <<writer, state, read_buffer, bytes_to_read, header, delivered>>

-----------------------------------------------------------------------------
Init ==
    /\ script \in Scripts
    /\ headers = 0 /\ complete = 0 /\ hungup = FALSE
    /\ stream = <<>>
    /\ state = "ReadHeaderPreamble" /\ read_buffer = <<>> /\ bytes_to_read = Preamble
    /\ header = InitHeader
    /\ delivered = <<>> /\ closed = FALSE

Read ==
    \/ \E k \in 1 .. Wanted : ReadPreamble(k) \/ ReadHeader(k) \/ ReadPayload(k)
    \/ ReadFails

Write == WriteHeader \/ WritePayload

Next == Read \/ Write \/ HangUp

Spec == Init /\ [][Next]_vars

\* The router's loop keeps reading; the client finishes what it began to write.
FairSpec == Spec /\ WF_vars(Read) /\ WF_vars(WritePayload)

-----------------------------------------------------------------------------
\* The reader's data is well formed (rtrouted.c:41-58).
TypeOK ==
    /\ script \in Scripts
    /\ headers \in 0 .. Len(script) /\ complete \in Nat
    /\ hungup \in BOOLEAN /\ closed \in BOOLEAN
    /\ stream \in Seq(Byte) /\ read_buffer \in Seq(Byte)
    /\ header.topic \in [1 .. TopicSize -> Byte]
    /\ header.reply_topic \in [1 .. TopicSize -> Byte]
    /\ state \in {"ReadHeaderPreamble", "ReadHeader", "ReadPayload"}
    /\ bytes_to_read \in Nat
    /\ delivered \in Seq(Nat)

\* The read buffer holds the beginning of the next message and nothing else,
\* and no more bytes are asked for than that message has, so that none of the
\* following one are swallowed (rtrouted.c:342-344, :371, :381, :392-393).
InStep ==
    LET next == script[Len(delivered) + 1]
        bytes == Encode(next.header)
    IN  /\ bytes_read <= bytes_to_read
        /\ read_buffer # <<>> =>
             /\ read_buffer = SubSeq(bytes \o next.payload, 1, bytes_read)
             /\ bytes_to_read = CASE state = "ReadHeaderPreamble" -> Preamble
                                  [] state = "ReadHeader" -> Len(bytes)
                                  [] state = "ReadPayload" -> Len(bytes) + Len(next.payload)

\* The header a message is dispatched by is the one its sender encoded, topic
\* and reply topic to their last character and not beyond, whatever was decoded
\* before it into the same arrays (rtMessageHeader.c:39-72, rtEncoder.c:40-63,
\* rtrouted.c:380, :395).
HeadersSurvive ==
    state = "ReadPayload" =>
        LET sent == script[Len(delivered) + 1].header IN
        /\ CString(header.topic) = CString(sent.topic)
        /\ CString(header.reply_topic) = CString(sent.reply_topic)
        /\ header.header_length = HeaderLength(sent)
        /\ [header EXCEPT !.header_length = 0, !.topic = sent.topic,
                          !.reply_topic = sent.reply_topic] = sent

Stream == INSTANCE RtStream

\* Whole messages, each once, in the order they were written, and each of them
\* in the end, unless the client hangs up (rtrouted.c:387-397, 609-676).
ImplementsStream == Stream!Spec
=============================================================================
