--------------------------- MODULE RtMessageHeader ---------------------------
(***************************************************************************)
(* rtMessageHeader.c with rtEncoder.c: a header as the bytes that are      *)
(* written, in network order, and the struct they are decoded into, whose  *)
(* strings are arrays that keep what was in them beyond what is copied.    *)
(***************************************************************************)
EXTENDS Integers, Sequences, SequencesExt

CONSTANT TopicSize      \* RTMSG_HEADER_MAX_TOPIC_LENGTH

ASSUME TopicSizeAssumption == TopicSize \in Nat \ {0}

Version == 1
FixedLength == 28       \* kSizeWithoutStringsInBytes

Short == 256 * 256      \* how many values a uint16_t has

EncodeUInt16(n) == <<(n \div 256) % 256, n % 256>>
EncodeInt32(n) == EncodeUInt16(n \div Short) \o EncodeUInt16(n % Short)
EncodeString(s) == EncodeInt32(Len(s)) \o s

\* The number whose first byte stands at a place.
DecodeUInt16(bytes, at) == bytes[at] * 256 + bytes[at + 1]
DecodeInt32(bytes, at) == DecodeUInt16(bytes, at) * Short + DecodeUInt16(bytes, at + 2)

\* memcpy of the characters, and no terminator.
DecodeString(array, bytes, at) ==
    LET n == DecodeInt32(bytes, at) IN
    [k \in DOMAIN array |-> IF k <= n THEN bytes[at + 3 + k] ELSE array[k]]

\* The string in an array: what stands before the first 0.
CString(array) ==
    LET ends == {k \in DOMAIN array : array[k] = 0} IN
    SubSeq(array, 1, IF ends = {} THEN Len(array)
                     ELSE (CHOOSE k \in ends : \A l \in ends : k <= l) - 1)

Cleared == [k \in 1 .. TopicSize |-> 0]

InitHeader ==
    [version |-> Version, header_length |-> 0, sequence_number |-> 0, flags |-> 0,
     control_data |-> 0, payload_length |-> 0, topic |-> Cleared, topic_length |-> 0,
     reply_topic |-> Cleared, reply_topic_length |-> 0]

\* What SendInternal fills in before it encodes.
Strcpy(s) == [k \in 1 .. TopicSize |-> IF k <= Len(s) THEN s[k] ELSE 0]

HeaderOf(sequence_number, flags, control_data, payload_length, topic, reply_topic) ==
    [InitHeader EXCEPT
        !.sequence_number = sequence_number, !.flags = flags, !.control_data = control_data,
        !.payload_length = payload_length,
        !.topic = Strcpy(topic), !.topic_length = Len(topic),
        !.reply_topic = Strcpy(reply_topic), !.reply_topic_length = Len(reply_topic)]

HeaderLength(h) == FixedLength + Len(CString(h.topic)) + Len(CString(h.reply_topic))

Encode(h) ==
    EncodeUInt16(Version) \o EncodeUInt16(HeaderLength(h))
        \o EncodeInt32(h.sequence_number) \o EncodeInt32(h.flags)
        \o EncodeInt32(h.control_data) \o EncodeInt32(h.payload_length)
        \o EncodeString(CString(h.topic)) \o EncodeString(CString(h.reply_topic))

Decode(h, bytes) ==
    LET topic_length == DecodeInt32(bytes, 21)
        at == 25 + topic_length
    IN  [version |-> DecodeUInt16(bytes, 1), header_length |-> DecodeUInt16(bytes, 3),
         sequence_number |-> DecodeInt32(bytes, 5), flags |-> DecodeInt32(bytes, 9),
         control_data |-> DecodeInt32(bytes, 13), payload_length |-> DecodeInt32(bytes, 17),
         topic |-> DecodeString(h.topic, bytes, 21), topic_length |-> topic_length,
         reply_topic |-> DecodeString(h.reply_topic, bytes, at),
         reply_topic_length |-> DecodeInt32(bytes, at)]
=============================================================================
