---------------------------- MODULE RtReaderProofs ----------------------------
(***************************************************************************)
(* For whatever messages a client writes, and however the kernel cuts up   *)
(* the stream: what was encoded is what is decoded, the reader keeps in    *)
(* step with the messages, and it delivers each of them once and in order. *)
(***************************************************************************)
EXTENDS RtReader, TLAPS

(***************************************************************************)
(* Numbers and strings as bytes.                                           *)
(***************************************************************************)

(* A piece of bytes stands at a place of a longer one.                     *)
Stands(bytes, at, piece) ==
    /\ at \in Nat \ {0} /\ at + Len(piece) <= Len(bytes) + 1
    /\ \A i \in 1 .. Len(piece) : bytes[at - 1 + i] = piece[i]

(* With one piece more at the end, the others still stand where they stood.*)
LEMMA OnePieceMore ==
    ASSUME NEW bytes \in Seq(Byte), NEW piece \in Seq(Byte)
    PROVE  /\ bytes \o piece \in Seq(Byte)
           /\ Len(bytes \o piece) = Len(bytes) + Len(piece)
           /\ Stands(bytes \o piece, Len(bytes) + 1, piece)
           /\ \A at, p : Len(p) \in Nat /\ Stands(bytes, at, p) => Stands(bytes \o piece, at, p)
<1>1. /\ bytes \o piece \in Seq(Byte) /\ Len(bytes \o piece) = Len(bytes) + Len(piece)
      /\ \A i \in 1 .. Len(bytes) : (bytes \o piece)[i] = bytes[i]
      /\ \A i \in 1 .. Len(piece) : (bytes \o piece)[Len(bytes) + i] = piece[i]
  OBVIOUS
<1>2. Stands(bytes \o piece, Len(bytes) + 1, piece)
  BY <1>1 DEF Stands
<1>3. ASSUME NEW at, NEW p, Len(p) \in Nat, Stands(bytes, at, p)
      PROVE  Stands(bytes \o piece, at, p)
  BY <1>1, <1>3 DEF Stands
<1> QED
  BY <1>1, <1>2, <1>3

(* A piece of a piece stands where it stands in that one.                  *)
LEMMA PieceOfPiece ==
    ASSUME NEW bytes, NEW at, NEW piece, NEW within, NEW part, Len(bytes) \in Nat,
           Len(piece) \in Nat, Len(part) \in Nat,
           Stands(bytes, at, piece), Stands(piece, within, part)
    PROVE  Stands(bytes, at + within - 1, part)
<1>1. at \in Nat \ {0} /\ within \in Nat \ {0}
      /\ at + Len(piece) <= Len(bytes) + 1 /\ within + Len(part) <= Len(piece) + 1
  BY DEF Stands
<1>2. ASSUME NEW i \in 1 .. Len(part)
      PROVE  bytes[(at + within - 1) - 1 + i] = part[i]
  <2>1. piece[within - 1 + i] = part[i]
    BY DEF Stands
  <2>2. within - 1 + i \in 1 .. Len(piece)
    BY <1>1
  <2>3. bytes[at - 1 + (within - 1 + i)] = piece[within - 1 + i]
    BY <2>2 DEF Stands
  <2>4. at - 1 + (within - 1 + i) = (at + within - 1) - 1 + i
    BY <1>1
  <2> QED
    BY <2>1, <2>3, <2>4, Zenon
<1>3. at + within - 1 \in Nat \ {0} /\ (at + within - 1) + Len(part) <= Len(bytes) + 1
  BY <1>1
<1> QED
  BY <1>2, <1>3, Zenon DEF Stands

(* A piece at the end of some bytes grows with them.                       *)
LEMMA AppendedPiece ==
    ASSUME NEW bytes \in Seq(Byte), NEW piece \in Seq(Byte), NEW more \in Seq(Byte), NEW at,
           Stands(bytes, at, piece), at + Len(piece) = Len(bytes) + 1
    PROVE  Stands(bytes \o more, at, piece \o more)
<1>1. at \in Nat \ {0} /\ \A i \in 1 .. Len(piece) : bytes[at - 1 + i] = piece[i]
  BY Zenon DEF Stands
<1>2. \A x, y \in Seq(Byte) :
        /\ Len(x \o y) = Len(x) + Len(y)
        /\ \A i \in 1 .. Len(x) : (x \o y)[i] = x[i]
        /\ \A i \in 1 .. Len(y) : (x \o y)[Len(x) + i] = y[i]
  OBVIOUS
<1>3. Len(bytes) \in Nat /\ Len(piece) \in Nat /\ Len(more) \in Nat
  OBVIOUS
<1>4. Len(bytes \o more) = Len(bytes) + Len(more) /\ Len(piece \o more) = Len(piece) + Len(more)
  BY <1>2, Zenon
<1>5. ASSUME NEW i \in 1 .. Len(piece)
      PROVE  (bytes \o more)[at - 1 + i] = (piece \o more)[i]
  <2>1. at - 1 + i \in 1 .. Len(bytes)
    BY <1>1, <1>3
  <2> QED
    BY <1>1, <1>2, <2>1, Zenon
<1>6. ASSUME NEW i \in 1 .. Len(more)
      PROVE  (bytes \o more)[at - 1 + (Len(piece) + i)] = (piece \o more)[Len(piece) + i]
  <2>1. at \in Nat /\ i \in Nat /\ at + Len(piece) = Len(bytes) + 1
    BY <1>1
  <2>2. at - 1 + (Len(piece) + i) = Len(bytes) + i
    BY <1>3, <2>1
  <2>3. (bytes \o more)[Len(bytes) + i] = more[i] /\ (piece \o more)[Len(piece) + i] = more[i]
    BY <1>2, Zenon
  <2> QED
    BY <2>2, <2>3, Zenon
<1>7. ASSUME NEW i \in 1 .. Len(piece \o more)
      PROVE  (bytes \o more)[at - 1 + i] = (piece \o more)[i]
  <2>1. i \in 1 .. Len(piece) \/ i - Len(piece) \in 1 .. Len(more)
    BY <1>3, <1>4
  <2>2. i = Len(piece) + (i - Len(piece))
    BY <1>3
  <2> QED
    BY <1>5, <1>6, <2>1, <2>2, Zenon
<1>8. at + Len(piece \o more) <= Len(bytes \o more) + 1
  BY <1>1, <1>3, <1>4, SMTT(40)
<1> QED
  BY <1>1, <1>7, <1>8, Zenon DEF Stands

LEMMA HighByte == \A n \in 0 .. Short - 1 : (n \div 256) % 256 \in 0 .. 255
BY SMTT(40) DEF Short
LEMMA LowByte == \A n \in 0 .. Short - 1 : n % 256 \in 0 .. 255
BY SMTT(40) DEF Short
LEMMA TwoBytes == \A n \in 0 .. Short - 1 : ((n \div 256) % 256) * 256 + (n % 256) = n
<1>1. \A n \in 0 .. Short - 1 : n \div 256 \in 0 .. 255
  <2>1. \A n \in Nat : n \div 256 \in Int /\ (n \div 256) * 256 <= n /\ (n \div 256) * 256 > n - 256
    OBVIOUS
  <2>2. \A q \in Int : q * 256 > 0 - 256 /\ q * 256 < 256 * 256 => q \in 0 .. 255
    OBVIOUS
  <2>3. \A n \in 0 .. Short - 1 : n \in Nat /\ n < 256 * 256
    BY SMTT(40) DEF Short
  <2>4. \A n \in 0 .. Short - 1 : (n \div 256) * 256 > 0 - 256 /\ (n \div 256) * 256 < 256 * 256
    <3>1. \A p \in Int, n \in Nat : p <= n /\ p > n - 256 /\ n < 256 * 256 => p > 0 - 256 /\ p < 256 * 256
      OBVIOUS
    <3>2. \A q \in Int : q * 256 \in Int
      OBVIOUS
    <3> QED
      BY <2>1, <2>3, <3>1, <3>2, ZenonT(60)
  <2> QED
    BY <2>1, <2>2, <2>3, <2>4, ZenonT(60)
<1>2. \A q \in 0 .. 255 : q % 256 = q
  OBVIOUS
<1>3. \A n \in 0 .. Short - 1 : (n \div 256) * 256 + (n % 256) = n
  BY SMTT(40) DEF Short
<1> QED
  BY <1>1, <1>2, <1>3, ZenonT(60)
LEMMA LowHalf == \A n \in Nat : n % Short \in 0 .. Short - 1
BY SMTT(40) DEF Short
LEMMA TwoHalves == \A n \in Nat : (n \div Short) * Short + (n % Short) = n
BY DEF Short

(* A number is decoded from where it stands as the number it was.          *)
LEMMA UInt16RoundTrip ==
    ASSUME NEW n, IsUInt16(n)
    PROVE  /\ EncodeUInt16(n) \in Seq(Byte) /\ Len(EncodeUInt16(n)) = 2
           /\ \A bytes, at : Stands(bytes, at, EncodeUInt16(n)) => DecodeUInt16(bytes, at) = n
<1>1. PICK a, b : a = (n \div 256) % 256 /\ b = n % 256
  BY Zenon
<1>2. a \in Byte /\ b \in Byte /\ a * 256 + b = n
  BY <1>1, HighByte, LowByte, TwoBytes, ZenonT(60) DEF Byte, IsUInt16
<1>3. EncodeUInt16(n) = <<a, b>>
  BY <1>1, Zenon DEF EncodeUInt16
<1>4. <<a, b>> \in Seq(Byte) /\ Len(<<a, b>>) = 2 /\ <<a, b>>[1] = a /\ <<a, b>>[2] = b
  BY <1>2
<1>5. ASSUME NEW bytes, NEW at, Stands(bytes, at, <<a, b>>)
      PROVE  DecodeUInt16(bytes, at) = n
  <2>1. at \in Nat /\ \A i \in 1 .. 2 : bytes[at - 1 + i] = <<a, b>>[i]
    BY <1>4, <1>5 DEF Stands
  <2>2. bytes[at] = a /\ bytes[at + 1] = b
    BY <2>1, <1>4
  <2> QED
    BY <2>2, <1>2, Zenon DEF DecodeUInt16
<1> QED
  BY <1>3, <1>4, <1>5, Zenon

LEMMA UInt32RoundTrip ==
    ASSUME NEW n, IsUInt32(n)
    PROVE  /\ EncodeInt32(n) \in Seq(Byte) /\ Len(EncodeInt32(n)) = 4
           /\ \A bytes, at : Len(bytes) \in Nat /\ Stands(bytes, at, EncodeInt32(n))
                => DecodeInt32(bytes, at) = n
<1>1. PICK high, low : high = n \div Short /\ low = n % Short
  BY Zenon
<1>2. IsUInt16(high) /\ IsUInt16(low) /\ high * Short + low = n
  BY <1>1, LowHalf, TwoHalves, Zenon DEF IsUInt32, IsUInt16
<1>3. PICK a \in Seq(Byte) : a = EncodeUInt16(high) /\ Len(a) = 2
  BY <1>2, UInt16RoundTrip, Zenon
<1>4. PICK b \in Seq(Byte) : b = EncodeUInt16(low) /\ Len(b) = 2
  BY <1>2, UInt16RoundTrip, Zenon
<1>5. EncodeInt32(n) = a \o b
  BY <1>1, <1>3, <1>4, Zenon DEF EncodeInt32
<1>6. /\ a \o b \in Seq(Byte) /\ Len(a \o b) = Len(a) + Len(b)
      /\ Stands(a \o b, Len(a) + 1, b)
      /\ \A at, p : Len(p) \in Nat /\ Stands(a, at, p) => Stands(a \o b, at, p)
  BY OnePieceMore, Zenon
<1>7. Len(a \o b) = 4 /\ Stands(a \o b, 3, b)
      /\ Len(a) \in Nat /\ Len(b) \in Nat /\ Len(a \o b) \in Nat
  BY <1>3, <1>4, <1>6
<1>8. Stands(a, 1, a)
  BY <1>3 DEF Stands
<1>9. Stands(a \o b, 1, a)
  BY <1>3, <1>6, <1>8
<1>10. ASSUME NEW bytes, NEW at, Len(bytes) \in Nat, Stands(bytes, at, a \o b)
       PROVE  DecodeInt32(bytes, at) = n
  <2>1. Stands(bytes, at + 1 - 1, a)
    BY <1>7, <1>9, <1>10, PieceOfPiece, Zenon
  <2>2. Stands(bytes, at + 3 - 1, b)
    BY <1>7, <1>10, PieceOfPiece, Zenon
  <2>3. at + 1 - 1 = at /\ at + 3 - 1 = at + 2
    BY <1>10 DEF Stands
  <2>4. DecodeUInt16(bytes, at) = high /\ DecodeUInt16(bytes, at + 2) = low
    BY <2>1, <2>2, <2>3, <1>2, <1>3, <1>4, UInt16RoundTrip, Zenon
  <2> QED
    BY <2>4, <1>2, Zenon DEF DecodeInt32
<1> QED
  BY <1>5, <1>6, <1>7, <1>10, Zenon

(* A string is decoded from where it stands: its length and its characters.*)
LEMMA StringRoundTrip ==
    ASSUME NEW s \in Seq(Byte), IsUInt32(Len(s))
    PROVE  /\ EncodeString(s) \in Seq(Byte) /\ Len(EncodeString(s)) = 4 + Len(s)
           /\ \A bytes, at : Len(bytes) \in Nat /\ Stands(bytes, at, EncodeString(s)) =>
                /\ DecodeInt32(bytes, at) = Len(s)
                /\ \A k \in 1 .. Len(s) : bytes[at + 3 + k] = s[k]
<1>1. PICK n \in Seq(Byte) : n = EncodeInt32(Len(s)) /\ Len(n) = 4
  BY UInt32RoundTrip, Zenon
<1>2. EncodeString(s) = n \o s
  BY <1>1, Zenon DEF EncodeString
<1>3. /\ n \o s \in Seq(Byte) /\ Len(n \o s) = Len(n) + Len(s)
      /\ Stands(n \o s, Len(n) + 1, s)
      /\ \A at, p : Len(p) \in Nat /\ Stands(n, at, p) => Stands(n \o s, at, p)
  BY OnePieceMore, Zenon
<1>4. Len(n \o s) = 4 + Len(s) /\ Stands(n \o s, 5, s)
      /\ Len(n) \in Nat /\ Len(s) \in Nat /\ Len(n \o s) \in Nat
  BY <1>1, <1>3
<1>5. Stands(n, 1, n)
  BY <1>1 DEF Stands
<1>6. Stands(n \o s, 1, n)
  BY <1>1, <1>3, <1>5
<1>7. ASSUME NEW bytes, NEW at, Len(bytes) \in Nat, Stands(bytes, at, n \o s)
      PROVE  /\ DecodeInt32(bytes, at) = Len(s)
             /\ \A k \in 1 .. Len(s) : bytes[at + 3 + k] = s[k]
  <2>1. Stands(bytes, at + 1 - 1, n) /\ Stands(bytes, at + 5 - 1, s)
    BY <1>4, <1>6, <1>7, PieceOfPiece, Zenon
  <2>2. at + 1 - 1 = at /\ \A k \in 1 .. Len(s) : (at + 5 - 1) - 1 + k = at + 3 + k
    BY <1>4, <1>7 DEF Stands
  <2>3. DecodeInt32(bytes, at) = Len(s)
    BY <2>1, <2>2, <1>1, <1>7, UInt32RoundTrip, Zenon
  <2>4. \A k \in 1 .. Len(s) : bytes[(at + 5 - 1) - 1 + k] = s[k]
    BY <2>1, Zenon DEF Stands
  <2> QED
    BY <2>2, <2>3, <2>4, Zenon
<1> QED
  BY <1>2, <1>3, <1>4, <1>7, ZenonT(60)

LEMMA SmallNumbers == \A n \in 0 .. ReadBufferSize : IsUInt16(n) /\ IsUInt32(n)
<1>1. \A n \in 0 .. ReadBufferSize : n \in Nat /\ n < Short /\ n \in 0 .. Short - 1
  BY SMTT(40) DEF ReadBufferSize, Short
<1>2. \A n \in Nat : n < Short => n \div Short = 0
  BY DEF Short
<1>3. 0 \in 0 .. Short - 1
  BY DEF Short
<1> QED
  BY <1>1, <1>2, <1>3, ZenonT(60) DEF IsUInt16, IsUInt32

(***************************************************************************)
(* A header as bytes.                                                      *)
(***************************************************************************)

(* Into cleared arrays a string is decoded as strcpy would leave it.       *)
LEMMA DecodedString ==
    ASSUME NEW s \in Seq(Byte), NEW bytes, NEW at \in Nat, DecodeInt32(bytes, at) = Len(s),
           \A k \in 1 .. Len(s) : bytes[at + 3 + k] = s[k]
    PROVE  DecodeString(InitHeader.topic, bytes, at) = Strcpy(s)
<1>1. InitHeader.topic = Cleared
  BY DEF InitHeader
<1>2. DOMAIN Cleared = 1 .. TopicSize /\ \A k \in 1 .. TopicSize : Cleared[k] = 0
  BY Zenon DEF Cleared
<1>3. \A k \in 1 .. TopicSize :
        (IF k <= Len(s) THEN bytes[at + 3 + k] ELSE Cleared[k]) = (IF k <= Len(s) THEN s[k] ELSE 0)
  BY <1>2, TopicSizeAssumption
<1>4. DecodeString(Cleared, bytes, at)
        = [k \in 1 .. TopicSize |-> IF k <= Len(s) THEN bytes[at + 3 + k] ELSE Cleared[k]]
  BY <1>2, Zenon DEF DecodeString
<1>5. [k \in 1 .. TopicSize |-> IF k <= Len(s) THEN bytes[at + 3 + k] ELSE Cleared[k]]
        = [k \in 1 .. TopicSize |-> IF k <= Len(s) THEN s[k] ELSE 0]
  BY <1>3, Zenon
<1> QED
  BY <1>1, <1>4, <1>5, Zenon DEF Strcpy

LEMMA CopiedIsBytes ==
    ASSUME NEW s \in Seq(Byte)
    PROVE  Strcpy(s) \in [1 .. TopicSize -> Byte]
<1>1. \A k \in 1 .. TopicSize : k <= Len(s) => s[k] \in Byte
  BY TopicSizeAssumption
<1>2. 0 \in Byte
  BY DEF Byte
<1> QED
  BY <1>1, <1>2 DEF Strcpy

(* What is decoded from a header is what was encoded, its length filled in.*)
Decoded(h) == [h EXCEPT !.header_length = HeaderLength(h)]

(* The header of a message as bytes: as long as it says, and decoded as it *)
(* was (rtMessageHeader.c:39-72).                                          *)
LEMMA EncodedHeader ==
    ASSUME NEW m, NEW message, Sendable(m, message)
    PROVE  LET h == message.header IN
           /\ Encode(h) \in Seq(Byte) /\ Len(Encode(h)) = HeaderLength(h)
           /\ Len(Encode(h)) \in Nat /\ Len(Encode(h)) >= 28
           /\ DecodeUInt16(Encode(h), 3) = HeaderLength(h)
           /\ Decode(InitHeader, Encode(h)) = Decoded(h)
           /\ message.payload \in Seq(Byte) /\ Decoded(h).sequence_number = m
           /\ Decoded(h).payload_length = Len(message.payload)
           /\ Decoded(h).header_length = HeaderLength(h)
           /\ Decoded(h).topic = h.topic /\ Decoded(h).reply_topic = h.reply_topic
           /\ [Decoded(h) EXCEPT !.header_length = 0, !.topic = h.topic, !.reply_topic = h.reply_topic] = h
           /\ h.topic \in [1 .. TopicSize -> Byte] /\ h.reply_topic \in [1 .. TopicSize -> Byte]
<1>1. PICK h, payload, flags, control_data, topic, reply_topic :
        /\ h = message.header /\ payload = message.payload
        /\ flags = h.flags /\ control_data = h.control_data
        /\ topic = CString(h.topic) /\ reply_topic = CString(h.reply_topic)
  BY Zenon
<1>2. /\ h = HeaderOf(m, flags, control_data, Len(payload), topic, reply_topic)
      /\ \A n \in {m, flags, control_data} : IsUInt32(n)
      /\ topic \in Seq(Byte \ {0}) /\ reply_topic \in Seq(Byte \ {0}) /\ payload \in Seq(Byte)
      /\ HeaderLength(h) + Len(payload) <= ReadBufferSize
  BY <1>1, Zenon DEF Sendable
<1>3. IsUInt32(m) /\ IsUInt32(flags) /\ IsUInt32(control_data)
  BY <1>2, Zenon
<1>4. topic \in Seq(Byte) /\ reply_topic \in Seq(Byte)
  BY <1>2
<1>5. PICK n \in Nat, length \in Nat : n = Len(payload) /\ length = HeaderLength(h)
  <2>1. HeaderLength(h) = 28 + Len(topic) + Len(reply_topic)
    BY <1>1, Zenon DEF HeaderLength, FixedLength
  <2>2. HeaderLength(h) \in Nat /\ Len(payload) \in Nat
    BY <2>1, <1>2, <1>4
  <2> QED
    BY <2>2, Zenon
<1>6. length = 28 + Len(topic) + Len(reply_topic) /\ length + n <= ReadBufferSize /\ length >= 28
  <2>1. length = 28 + Len(topic) + Len(reply_topic)
    BY <1>1, <1>5, Zenon DEF HeaderLength, FixedLength
  <2>2. length + n <= ReadBufferSize
    BY <1>2, <1>5, Zenon
  <2> QED
    BY <2>1, <2>2, <1>4
<1>7. /\ h.sequence_number = m /\ h.flags = flags /\ h.control_data = control_data
      /\ h.payload_length = n
      /\ Decoded(h).sequence_number = m /\ Decoded(h).payload_length = n
      /\ Decoded(h).header_length = length
      /\ Decoded(h).topic = h.topic /\ Decoded(h).reply_topic = h.reply_topic
      /\ [Decoded(h) EXCEPT !.header_length = 0, !.topic = h.topic, !.reply_topic = h.reply_topic] = h
      /\ Decoded(h) =
           [version |-> Version, header_length |-> length, sequence_number |-> m,
            flags |-> flags, control_data |-> control_data, payload_length |-> n,
            topic |-> Strcpy(topic), topic_length |-> Len(topic),
            reply_topic |-> Strcpy(reply_topic), reply_topic_length |-> Len(reply_topic)]
      /\ h.topic = Strcpy(topic) /\ h.reply_topic = Strcpy(reply_topic)
  <2>1. h = HeaderOf(m, flags, control_data, n, topic, reply_topic)
    BY <1>2, <1>5, Zenon
  <2>2. h = [version |-> Version, header_length |-> 0, sequence_number |-> m,
             flags |-> flags, control_data |-> control_data, payload_length |-> n,
             topic |-> Strcpy(topic), topic_length |-> Len(topic),
             reply_topic |-> Strcpy(reply_topic), reply_topic_length |-> Len(reply_topic)]
    BY <2>1 DEF HeaderOf, InitHeader
  <2>3. /\ h.sequence_number = m /\ h.flags = flags /\ h.control_data = control_data
        /\ h.payload_length = n
        /\ h.topic = Strcpy(topic) /\ h.reply_topic = Strcpy(reply_topic)
    BY <2>2
  <2>4. [h EXCEPT !.header_length = length] =
          [version |-> Version, header_length |-> length, sequence_number |-> m,
           flags |-> flags, control_data |-> control_data, payload_length |-> n,
           topic |-> Strcpy(topic), topic_length |-> Len(topic),
           reply_topic |-> Strcpy(reply_topic), reply_topic_length |-> Len(reply_topic)]
    BY <2>2
  <2>5. PICK d : d = [version |-> Version, header_length |-> length, sequence_number |-> m,
           flags |-> flags, control_data |-> control_data, payload_length |-> n,
           topic |-> Strcpy(topic), topic_length |-> Len(topic),
           reply_topic |-> Strcpy(reply_topic), reply_topic_length |-> Len(reply_topic)]
    BY Zenon
  <2>6. d = Decoded(h)
    BY <1>5, <2>4, <2>5, Zenon DEF Decoded
  <2>7. d.sequence_number = m /\ d.payload_length = n /\ d.header_length = length
        /\ d.topic = h.topic /\ d.reply_topic = h.reply_topic
    BY <2>2, <2>5
  <2>8. [d EXCEPT !.header_length = 0] = h
    BY <2>2, <2>5
  <2>9. [h EXCEPT !.topic = h.topic] = h
    BY <2>2
  <2>10. [h EXCEPT !.reply_topic = h.reply_topic] = h
    BY <2>2
  <2>11. [d EXCEPT !.header_length = 0, !.topic = h.topic, !.reply_topic = h.reply_topic] = h
    BY <2>8, <2>9, <2>10, Zenon
  <2> QED
    BY <2>3, <2>5, <2>6, <2>7, <2>11, Zenon
<1>8. Encode(h) = EncodeUInt16(Version) \o EncodeUInt16(length) \o EncodeInt32(m) \o EncodeInt32(flags)
                    \o EncodeInt32(control_data) \o EncodeInt32(n)
                    \o EncodeString(topic) \o EncodeString(reply_topic)
  BY <1>1, <1>5, <1>7, Zenon DEF Encode
<1>9. PICK bytes : bytes = Encode(h)
  BY Zenon
<1>10. PICK t \in Nat, r \in Nat : t = Len(topic) /\ r = Len(reply_topic)
  <2>1. Len(topic) \in Nat /\ Len(reply_topic) \in Nat
    BY <1>4
  <2> QED
    BY <2>1, Zenon
<1>11. /\ IsUInt16(Version) /\ IsUInt16(length)
       /\ IsUInt32(n) /\ IsUInt32(Len(topic)) /\ IsUInt32(Len(reply_topic))
  <2>1. length = 28 + t + r /\ length + n <= ReadBufferSize
    BY <1>6, <1>10, ZenonT(60)
  <2>2. length \in 0 .. ReadBufferSize /\ n \in 0 .. ReadBufferSize
    BY <2>1, SMTT(40) DEF ReadBufferSize
  <2>3. t \in 0 .. ReadBufferSize /\ r \in 0 .. ReadBufferSize
    BY <2>1, SMTT(40) DEF ReadBufferSize
  <2>4. 1 \in 0 .. ReadBufferSize
    BY DEF ReadBufferSize
  <2> QED
    BY <1>10, <2>2, <2>3, <2>4, SmallNumbers, Zenon DEF Version
<1>12. \A k : IsUInt16(k) =>
         /\ EncodeUInt16(k) \in Seq(Byte) /\ Len(EncodeUInt16(k)) = 2
         /\ \A b, at : Stands(b, at, EncodeUInt16(k)) => DecodeUInt16(b, at) = k
  BY UInt16RoundTrip, Zenon
<1>13. \A k : IsUInt32(k) =>
         /\ EncodeInt32(k) \in Seq(Byte) /\ Len(EncodeInt32(k)) = 4
         /\ \A b, at : Len(b) \in Nat /\ Stands(b, at, EncodeInt32(k)) => DecodeInt32(b, at) = k
  BY UInt32RoundTrip, Zenon
<1>14. /\ EncodeString(topic) \in Seq(Byte) /\ Len(EncodeString(topic)) = 4 + t
       /\ \A b, at : Len(b) \in Nat /\ Stands(b, at, EncodeString(topic)) =>
            /\ DecodeInt32(b, at) = Len(topic)
            /\ \A k \in 1 .. Len(topic) : b[at + 3 + k] = topic[k]
  BY <1>4, <1>10, <1>11, StringRoundTrip, Zenon
<1>15. /\ EncodeString(reply_topic) \in Seq(Byte) /\ Len(EncodeString(reply_topic)) = 4 + r
       /\ \A b, at : Len(b) \in Nat /\ Stands(b, at, EncodeString(reply_topic)) =>
            /\ DecodeInt32(b, at) = Len(reply_topic)
            /\ \A k \in 1 .. Len(reply_topic) : b[at + 3 + k] = reply_topic[k]
  BY <1>4, <1>10, <1>11, StringRoundTrip, Zenon
<1>16. PICK p1 \in Seq(Byte) : p1 = EncodeUInt16(Version) /\ Len(p1) = 2
  BY <1>11, <1>12, Zenon
<1>17. PICK p2 \in Seq(Byte) : p2 = EncodeUInt16(length) /\ Len(p2) = 2
  BY <1>11, <1>12, Zenon
<1>18. PICK p3 \in Seq(Byte) : p3 = EncodeInt32(m) /\ Len(p3) = 4
  BY <1>3, <1>13, Zenon
<1>19. PICK p4 \in Seq(Byte) : p4 = EncodeInt32(flags) /\ Len(p4) = 4
  BY <1>3, <1>13, Zenon
<1>20. PICK p5 \in Seq(Byte) : p5 = EncodeInt32(control_data) /\ Len(p5) = 4
  BY <1>3, <1>13, Zenon
<1>21. PICK p6 \in Seq(Byte) : p6 = EncodeInt32(n) /\ Len(p6) = 4
  BY <1>11, <1>13, Zenon
<1>22. PICK p7 \in Seq(Byte) : p7 = EncodeString(topic) /\ Len(p7) = 4 + t
  BY <1>14, Zenon
<1>23. PICK p8 \in Seq(Byte) : p8 = EncodeString(reply_topic) /\ Len(p8) = 4 + r
  BY <1>15, Zenon
<1>24. bytes = p1 \o p2 \o p3 \o p4 \o p5 \o p6 \o p7 \o p8
  BY <1>8, <1>9, <1>16, <1>17, <1>18, <1>19, <1>20, <1>21, <1>22, <1>23, Zenon
<1>25. /\ bytes \in Seq(Byte) /\ Len(bytes) = 20 + Len(p7) + Len(p8)
       /\ Stands(bytes, 1, p1) /\ Stands(bytes, 3, p2) /\ Stands(bytes, 5, p3) /\ Stands(bytes, 9, p4)
       /\ Stands(bytes, 13, p5) /\ Stands(bytes, 17, p6) /\ Stands(bytes, 21, p7)
       /\ Stands(bytes, 21 + Len(p7), p8)
  <2>1. \A x, y \in Seq(Byte) :
          /\ x \o y \in Seq(Byte)
          /\ Len(x \o y) = Len(x) + Len(y)
          /\ Stands(x \o y, Len(x) + 1, y)
          /\ \A at, p : Len(p) \in Nat /\ Stands(x, at, p) => Stands(x \o y, at, p)
    BY OnePieceMore, Zenon
  <2>2. /\ Len(p1) \in Nat /\ Len(p2) \in Nat /\ Len(p3) \in Nat /\ Len(p4) \in Nat
        /\ Len(p5) \in Nat /\ Len(p6) \in Nat /\ Len(p7) \in Nat /\ Len(p8) \in Nat
        /\ Stands(p1, 1, p1)
    BY DEF Stands
  <2>3. PICK b2 \in Seq(Byte) : b2 = p1 \o p2 /\ Len(b2) = Len(p1) + Len(p2)
          /\ Stands(b2, 1, p1) /\ Stands(b2, Len(p1) + 1, p2)
    BY <2>1, <2>2, Zenon
  <2>4. PICK b3 \in Seq(Byte) : b3 = b2 \o p3 /\ Len(b3) = Len(b2) + Len(p3)
          /\ Stands(b3, 1, p1) /\ Stands(b3, Len(p1) + 1, p2) /\ Stands(b3, Len(b2) + 1, p3)
    BY <2>1, <2>2, <2>3, Zenon
  <2>5. PICK b4 \in Seq(Byte) : b4 = b3 \o p4 /\ Len(b4) = Len(b3) + Len(p4)
          /\ Stands(b4, 1, p1) /\ Stands(b4, Len(p1) + 1, p2) /\ Stands(b4, Len(b2) + 1, p3)
          /\ Stands(b4, Len(b3) + 1, p4)
    BY <2>1, <2>2, <2>4, Zenon
  <2>6. PICK b5 \in Seq(Byte) : b5 = b4 \o p5 /\ Len(b5) = Len(b4) + Len(p5)
          /\ Stands(b5, 1, p1) /\ Stands(b5, Len(p1) + 1, p2) /\ Stands(b5, Len(b2) + 1, p3)
          /\ Stands(b5, Len(b3) + 1, p4) /\ Stands(b5, Len(b4) + 1, p5)
    BY <2>1, <2>2, <2>5, ZenonT(60)
  <2>7. PICK b6 \in Seq(Byte) : b6 = b5 \o p6 /\ Len(b6) = Len(b5) + Len(p6)
          /\ Stands(b6, 1, p1) /\ Stands(b6, Len(p1) + 1, p2) /\ Stands(b6, Len(b2) + 1, p3)
          /\ Stands(b6, Len(b3) + 1, p4) /\ Stands(b6, Len(b4) + 1, p5) /\ Stands(b6, Len(b5) + 1, p6)
    BY <2>1, <2>2, <2>6, ZenonT(60)
  <2>8. PICK b7 \in Seq(Byte) : b7 = b6 \o p7 /\ Len(b7) = Len(b6) + Len(p7)
          /\ Stands(b7, 1, p1) /\ Stands(b7, Len(p1) + 1, p2) /\ Stands(b7, Len(b2) + 1, p3)
          /\ Stands(b7, Len(b3) + 1, p4) /\ Stands(b7, Len(b4) + 1, p5) /\ Stands(b7, Len(b5) + 1, p6)
          /\ Stands(b7, Len(b6) + 1, p7)
    BY <2>1, <2>2, <2>7, ZenonT(60)
  <2>9. PICK b8 \in Seq(Byte) : b8 = b7 \o p8 /\ Len(b8) = Len(b7) + Len(p8)
          /\ Stands(b8, 1, p1) /\ Stands(b8, Len(p1) + 1, p2) /\ Stands(b8, Len(b2) + 1, p3)
          /\ Stands(b8, Len(b3) + 1, p4) /\ Stands(b8, Len(b4) + 1, p5) /\ Stands(b8, Len(b5) + 1, p6)
          /\ Stands(b8, Len(b6) + 1, p7) /\ Stands(b8, Len(b7) + 1, p8)
    BY <2>1, <2>2, <2>8, ZenonT(60)
  <2>10. /\ Len(p1) + 1 = 3 /\ Len(b2) + 1 = 5 /\ Len(b3) + 1 = 9 /\ Len(b4) + 1 = 13
         /\ Len(b5) + 1 = 17 /\ Len(b6) + 1 = 21 /\ Len(b7) + 1 = 21 + Len(p7)
         /\ Len(b8) = 20 + Len(p7) + Len(p8)
    <3>1. Len(b2) = 4 /\ Len(b3) = 8 /\ Len(b4) = 12
      BY <1>16, <1>17, <1>18, <1>19, <2>3, <2>4, <2>5
    <3>2. Len(b5) = 16 /\ Len(b6) = 20
      BY <1>20, <1>21, <3>1, <2>6, <2>7
    <3>3. Len(b7) = 20 + Len(p7) /\ Len(b8) = 20 + Len(p7) + Len(p8)
      BY <3>2, <2>2, <2>8, <2>9
    <3> QED
      BY <1>16, <3>1, <3>2, <3>3, <2>2
  <2>11. b8 = p1 \o p2 \o p3 \o p4 \o p5 \o p6 \o p7 \o p8
    BY <2>3, <2>4, <2>5, <2>6, <2>7, <2>8, <2>9, Zenon
  <2> QED
    BY <1>24, <2>9, <2>10, <2>11, Zenon
<1>26. Len(bytes) = length /\ Len(bytes) \in Nat /\ 21 + Len(p7) = 25 + t
  BY <1>6, <1>10, <1>22, <1>23, <1>25
<1>27. DecodeUInt16(bytes, 1) = Version /\ DecodeUInt16(bytes, 3) = length
  BY <1>11, <1>12, <1>16, <1>17, <1>25, Zenon
<1>28. DecodeInt32(bytes, 5) = m /\ DecodeInt32(bytes, 9) = flags
  BY <1>3, <1>13, <1>18, <1>19, <1>25, <1>26, Zenon
<1>29. DecodeInt32(bytes, 13) = control_data /\ DecodeInt32(bytes, 17) = n
  BY <1>3, <1>11, <1>13, <1>20, <1>21, <1>25, <1>26, Zenon
<1>30. PICK first \in Nat :
         /\ first = 21 /\ DecodeInt32(bytes, first) = Len(topic)
         /\ \A k \in 1 .. Len(topic) : bytes[first + 3 + k] = topic[k]
  <2>1. PICK first \in Nat : first = 21
    OBVIOUS
  <2>2. Stands(bytes, first, EncodeString(topic))
    BY <2>1, <1>22, <1>25, Zenon
  <2>3. Len(bytes) \in Nat
    BY <1>26
  <2>4. DecodeInt32(bytes, first) = Len(topic)
    BY <2>2, <2>3, <1>14, Zenon
  <2>5. ASSUME NEW k \in 1 .. Len(topic)
        PROVE  bytes[first + 3 + k] = topic[k]
    BY <2>2, <2>3, <1>14, Zenon
  <2> QED
    BY <2>1, <2>4, <2>5, Zenon
<1>31. /\ DecodeInt32(bytes, 25 + t) = Len(reply_topic)
       /\ \A k \in 1 .. Len(reply_topic) : bytes[(25 + t) + 3 + k] = reply_topic[k]
  <2>1. Stands(bytes, 25 + t, EncodeString(reply_topic))
    BY <1>23, <1>25, <1>26, Zenon
  <2> QED
    BY <2>1, <1>15, <1>26, ZenonT(60)
<1>32. DecodeString(InitHeader.topic, bytes, first) = Strcpy(topic)
  BY <1>4, <1>30, DecodedString
<1>33. DecodeString(InitHeader.reply_topic, bytes, 25 + t) = Strcpy(reply_topic)
  <2>1. InitHeader.reply_topic = InitHeader.topic
    BY DEF InitHeader
  <2>2. PICK at \in Nat : at = 25 + t
    OBVIOUS
  <2>3. DecodeInt32(bytes, at) = Len(reply_topic)
        /\ \A k \in 1 .. Len(reply_topic) : bytes[at + 3 + k] = reply_topic[k]
    BY <1>31, <2>2, Zenon
  <2>4. DecodeString(InitHeader.topic, bytes, at) = Strcpy(reply_topic)
    BY <1>4, <2>3, DecodedString
  <2> QED
    BY <2>1, <2>2, <2>4, Zenon
<1>34. Decode(InitHeader, bytes) = Decoded(h)
  BY <1>7, <1>10, <1>27, <1>28, <1>29, <1>30, <1>31, <1>32, <1>33, Zenon DEF Decode
<1>35. h.topic \in [1 .. TopicSize -> Byte] /\ h.reply_topic \in [1 .. TopicSize -> Byte]
  BY <1>4, <1>7, CopiedIsBytes, ZenonT(60)
<1> QED
  BY <1>1, <1>2, <1>5, <1>6, <1>7, <1>9, <1>25, <1>26, <1>27, <1>34, <1>35, Zenon

(***************************************************************************)
(* The stream and the reader.                                              *)
(***************************************************************************)

HeaderBytes(message) == Encode(message.header)
MessageBytes(message) == HeaderBytes(message) \o message.payload

(* All the bytes of a client, in the order it writes them: message m of    *)
(* them begins behind the first start[m].                                  *)
Written(whole, start, messages, begun, ended) ==
    /\ whole \in Seq(Byte) /\ start \in [1 .. Len(messages) + 1 -> Nat]
    /\ \A m \in 1 .. ended :
         /\ start[m + 1] = start[m] + Len(MessageBytes(messages[m]))
         /\ Stands(whole, start[m] + 1, MessageBytes(messages[m]))
    /\ begun = ended => Len(whole) = start[ended + 1]
    /\ begun # ended => /\ Len(whole) = start[begun] + Len(HeaderBytes(messages[begun]))
                        /\ Stands(whole, start[begun] + 1, HeaderBytes(messages[begun]))

(* What is in the buffer and what is on its way are the last of them, from *)
(* where the next message begins.                                          *)
Unread(whole, from, buffered, coming) ==
    /\ Len(whole) = from + Len(buffered) + Len(coming)
    /\ Stands(whole, from + 1, buffered)
    /\ Stands(whole, from + Len(buffered) + 1, coming)

Current == Len(delivered) + 1

Types ==
    /\ script \in Scripts /\ headers \in 0 .. Len(script) /\ complete \in Nat
    /\ hungup \in BOOLEAN /\ closed \in BOOLEAN
    /\ stream \in Seq(Byte) /\ read_buffer \in Seq(Byte) /\ delivered \in Seq(Nat)
    /\ state \in {"ReadHeaderPreamble", "ReadHeader", "ReadPayload"}

Counts == headers \in {complete, complete + 1} /\ Len(delivered) <= complete

(* The buffer holds the beginning of the current message.                  *)
Beginning(buffer, message) ==
    /\ Len(buffer) <= Len(MessageBytes(message))
    /\ \A i \in 1 .. Len(buffer) : buffer[i] = MessageBytes(message)[i]

Reading ==
    /\ Current > headers => read_buffer = <<>> /\ state = "ReadHeaderPreamble"
    /\ Current <= headers => Beginning(read_buffer, script[Current])
    /\ state = "ReadHeaderPreamble" =>
         /\ bytes_to_read = Preamble /\ Len(read_buffer) < Preamble
         /\ header = InitHeader
    /\ state = "ReadHeader" =>
         /\ bytes_to_read = Len(HeaderBytes(script[Current]))
         /\ Preamble <= Len(read_buffer) /\ Len(read_buffer) < bytes_to_read
         /\ header = InitHeader
    /\ state = "ReadPayload" =>
         /\ bytes_to_read = Len(MessageBytes(script[Current]))
         /\ Len(HeaderBytes(script[Current])) <= Len(read_buffer)
         /\ Len(read_buffer) <= bytes_to_read
         /\ header = Decoded(script[Current].header)

Connected ==
    ~closed => \E whole, start :
        /\ Written(whole, start, script, headers, complete)
        /\ Unread(whole, start[Current], read_buffer, stream)

ReaderInv == Types /\ Counts /\ Reading /\ Connected

(* The bytes of a message of a script.                                     *)
LEMMA MessageOf ==
    ASSUME script \in Scripts, NEW m \in 1 .. Len(script)
    PROVE  LET message == script[m] IN
           /\ HeaderBytes(message) \in Seq(Byte) /\ MessageBytes(message) \in Seq(Byte)
           /\ message.payload \in Seq(Byte)
           /\ Len(HeaderBytes(message)) \in Nat /\ Len(HeaderBytes(message)) >= 28
           /\ Len(MessageBytes(message)) = Len(HeaderBytes(message)) + Len(message.payload)
           /\ \A i \in 1 .. Len(HeaderBytes(message)) : MessageBytes(message)[i] = HeaderBytes(message)[i]
           /\ DecodeUInt16(HeaderBytes(message), 3) = Len(HeaderBytes(message))
           /\ Decode(InitHeader, HeaderBytes(message)) = Decoded(message.header)
           /\ Decoded(message.header).payload_length = Len(message.payload)
           /\ Decoded(message.header).sequence_number = m
<1>1. script \in Seq(Range(script)) /\ \A n \in DOMAIN script : Sendable(n, script[n])
  BY ScriptsAssumption, Zenon
<1>2. m \in DOMAIN script
  BY <1>1
<1>3. Sendable(m, script[m])
  BY <1>1, <1>2, Zenon
<1>4. PICK message, bytes, payload :
        message = script[m] /\ bytes = HeaderBytes(message) /\ payload = message.payload
  BY Zenon
<1>5. /\ bytes \in Seq(Byte) /\ Len(bytes) = HeaderLength(message.header)
      /\ Len(bytes) \in Nat /\ Len(bytes) >= 28
      /\ DecodeUInt16(bytes, 3) = HeaderLength(message.header)
      /\ Decode(InitHeader, bytes) = Decoded(message.header)
      /\ payload \in Seq(Byte) /\ Decoded(message.header).sequence_number = m
      /\ Decoded(message.header).payload_length = Len(payload)
  BY <1>3, <1>4, EncodedHeader, ZenonT(60) DEF HeaderBytes
<1>6. MessageBytes(message) = bytes \o payload
  BY <1>4, Zenon DEF MessageBytes
<1>7. /\ bytes \o payload \in Seq(Byte) /\ Len(bytes \o payload) = Len(bytes) + Len(payload)
      /\ \A i \in 1 .. Len(bytes) : (bytes \o payload)[i] = bytes[i]
  BY <1>5, SMTT(40)
<1> QED
  BY <1>4, <1>5, <1>6, <1>7, Zenon

LEMMA ScriptLength ==
    ASSUME NEW messages \in Scripts
    PROVE  Len(messages) \in Nat
<1>1. messages \in Seq(Range(messages))
  BY ScriptsAssumption, Zenon
<1> QED
  BY <1>1

(* Whatever recv gives belongs to the current message, and is no more than *)
(* has been written of it.                                                 *)
LEMMA Received ==
    ASSUME ReaderInv, NEW k \in 1 .. Wanted, k <= Len(stream), ~closed
    PROVE  LET buffer == Buffered(k)
               rest == SubSeq(stream, k + 1, Len(stream))
           IN  /\ Current \in 1 .. headers
               /\ buffer \in Seq(Byte) /\ rest \in Seq(Byte)
               /\ Len(buffer) = Len(read_buffer) + k
               /\ Beginning(buffer, script[Current])
               /\ Len(buffer) > Len(HeaderBytes(script[Current])) => Current <= complete
               /\ \E whole, start :
                    /\ Written(whole, start, script, headers, complete)
                    /\ Unread(whole, start[Current], buffer, rest)
<1>1. PICK whole, start : /\ Written(whole, start, script, headers, complete)
                          /\ Unread(whole, start[Current], read_buffer, stream)
  BY Zenon DEF ReaderInv, Connected
<1>2. PICK m, old, coming, from, buffer, rest :
        /\ m = Current /\ old = read_buffer /\ coming = stream /\ from = start[m]
        /\ buffer = Buffered(k) /\ rest = SubSeq(coming, k + 1, Len(coming))
  BY Zenon
<1>3. /\ old \in Seq(Byte) /\ coming \in Seq(Byte) /\ k \in Nat /\ k >= 1 /\ k <= Len(coming)
      /\ buffer = old \o SubSeq(coming, 1, k)
  <2>1. old \in Seq(Byte) /\ coming \in Seq(Byte) /\ k <= Len(coming) /\ buffer = old \o SubSeq(coming, 1, k)
    BY <1>2, Zenon DEF ReaderInv, Types, Buffered
  <2>2. k \in Nat /\ k >= 1
    OBVIOUS
  <2> QED
    BY <2>1, <2>2, Zenon
<1>4. /\ buffer \in Seq(Byte) /\ Len(buffer) = Len(old) + k
      /\ rest \in Seq(Byte) /\ Len(rest) = Len(coming) - k
      /\ \A i \in 1 .. Len(old) : buffer[i] = old[i]
      /\ \A i \in 1 .. k : buffer[Len(old) + i] = coming[i]
      /\ \A i \in 1 .. Len(rest) : rest[i] = coming[k + i]
  <2>1. PICK got \in Seq(Byte) : got = SubSeq(coming, 1, k) /\ Len(got) = k
          /\ \A i \in 1 .. k : got[i] = coming[i]
    <3>1. SubSeq(coming, 1, k) \in Seq(Byte)
      BY <1>3
    <3>2. Len(SubSeq(coming, 1, k)) = k
      BY <1>3
    <3>3. \A i \in 1 .. k : SubSeq(coming, 1, k)[i] = coming[i]
      BY <1>3
    <3> QED
      BY <3>1, <3>2, <3>3, Zenon
  <2>2. buffer = old \o got
    BY <1>3, <2>1, Zenon
  <2>3. buffer \in Seq(Byte) /\ Len(buffer) = Len(old) + Len(got)
        /\ (\A i \in 1 .. Len(old) : buffer[i] = old[i])
        /\ (\A i \in 1 .. Len(got) : buffer[Len(old) + i] = got[i])
    <3>1. \A x, y \in Seq(Byte) :
            /\ x \o y \in Seq(Byte) /\ Len(x \o y) = Len(x) + Len(y)
            /\ \A i \in 1 .. Len(x) : (x \o y)[i] = x[i]
            /\ \A i \in 1 .. Len(y) : (x \o y)[Len(x) + i] = y[i]
      OBVIOUS
    <3>2. old \in Seq(Byte) /\ got \in Seq(Byte)
      BY <1>3
    <3>3. /\ old \o got \in Seq(Byte) /\ Len(old \o got) = Len(old) + Len(got)
          /\ \A i \in 1 .. Len(old) : (old \o got)[i] = old[i]
          /\ \A i \in 1 .. Len(got) : (old \o got)[Len(old) + i] = got[i]
      BY <3>1, <3>2, Zenon
    <3> QED
      BY <2>2, <3>3, Zenon
  <2>4. rest \in Seq(Byte) /\ Len(rest) = Len(coming) - k
        /\ \A i \in 1 .. Len(rest) : rest[i] = coming[k + i]
    BY <1>2, <1>3, SMTT(40)
  <2>5. \A i \in 1 .. k : buffer[Len(old) + i] = coming[i]
    BY <2>1, <2>3
  <2> QED
    BY <2>1, <2>3, <2>4, <2>5, Zenon
<1>5. /\ script \in Scripts /\ Len(script) \in Nat /\ headers \in 0 .. Len(script) /\ complete \in Nat
      /\ headers \in {complete, complete + 1} /\ m \in Nat /\ m >= 1 /\ m <= complete + 1
  <2>1. script \in Scripts /\ headers \in 0 .. Len(script) /\ complete \in Nat /\ delivered \in Seq(Nat)
        /\ headers \in {complete, complete + 1} /\ Len(delivered) <= complete /\ m = Len(delivered) + 1
    BY <1>2, Zenon DEF ReaderInv, Types, Counts, Current
  <2>2. Len(script) \in Nat
    BY <2>1, ScriptLength, Zenon
  <2> QED
    BY <2>1, <2>2
<1>6. /\ from \in Nat /\ Len(whole) = from + Len(old) + Len(coming)
      /\ Stands(whole, from + 1, old) /\ Stands(whole, from + Len(old) + 1, coming)
  <2>1. start \in [1 .. Len(script) + 1 -> Nat]
    BY <1>1, Zenon DEF Written
  <2>2. from \in Nat
    BY <1>2, <1>5, <2>1, SMTT(40)
  <2> QED
    BY <1>1, <1>2, <2>2, Zenon DEF Unread
<1>7. Len(whole) > from /\ Len(whole) = from + Len(buffer) + Len(rest)
  BY <1>3, <1>4, <1>6
<1>8. m <= headers
  <2>1. SUFFICES ASSUME ~(m <= headers) PROVE FALSE
    OBVIOUS
  <2>2. headers = complete /\ m = complete + 1
    BY <1>5, <2>1
  <2>3. Len(whole) = start[complete + 1]
    BY <1>1, <2>2, Zenon DEF Written
  <2>4. Len(whole) = from
    BY <1>2, <2>2, <2>3, Zenon
  <2> QED
    BY <1>6, <1>7, <2>4
<1>9. m \in 1 .. headers /\ m \in 1 .. Len(script)
  BY <1>5, <1>8
<1>10. \A i \in 1 .. Len(buffer) : whole[from + i] = buffer[i]
  <2>1. \A i \in 1 .. Len(old) : whole[from + i] = old[i]
    <3>1. \A i \in 1 .. Len(old) : whole[(from + 1) - 1 + i] = old[i]
      BY <1>6, Zenon DEF Stands
    <3>2. \A i \in 1 .. Len(old) : (from + 1) - 1 + i = from + i
      BY <1>6
    <3> QED
      BY <3>1, <3>2, Zenon
  <2>2. \A i \in 1 .. Len(coming) : whole[from + (Len(old) + i)] = coming[i]
    <3>1. \A i \in 1 .. Len(coming) : whole[(from + Len(old) + 1) - 1 + i] = coming[i]
      BY <1>6, Zenon DEF Stands
    <3>2. \A i \in 1 .. Len(coming) : (from + Len(old) + 1) - 1 + i = from + (Len(old) + i)
      BY <1>3, <1>6
    <3> QED
      BY <3>1, <3>2, Zenon
  <2>3. ASSUME NEW i \in 1 .. Len(buffer), i > Len(old)
        PROVE  whole[from + i] = buffer[i]
    <3>1. PICK j \in 1 .. k : i = Len(old) + j
      <4>1. i - Len(old) \in 1 .. k /\ i = Len(old) + (i - Len(old))
        BY <1>3, <1>4, <2>3
      <4> QED
        BY <4>1, Zenon
    <3>2. j \in 1 .. Len(coming)
      BY <1>3
    <3> QED
      BY <1>4, <2>2, <3>1, <3>2, Zenon
  <2>4. \A i \in 1 .. Len(buffer) : i > Len(old) \/ i \in 1 .. Len(old)
    BY <1>3, <1>4
  <2> QED
    BY <1>4, <2>1, <2>3, <2>4, Zenon
<1>11. Unread(whole, from, buffer, rest)
  <2>1. from + 1 \in Nat \ {0} /\ (from + 1) + Len(buffer) <= Len(whole) + 1
    BY <1>4, <1>6, <1>7, SMTT(40)
  <2>2. \A i \in 1 .. Len(buffer) : (from + 1) - 1 + i = from + i
    BY <1>6
  <2>3. Stands(whole, from + 1, buffer)
    BY <1>10, <2>1, <2>2, Zenon DEF Stands
  <2>4. from + Len(buffer) + 1 \in Nat \ {0} /\ (from + Len(buffer) + 1) + Len(rest) <= Len(whole) + 1
    BY <1>4, <1>6, <1>7, SMTT(40)
  <2>5. ASSUME NEW i \in 1 .. Len(rest)
        PROVE  whole[(from + Len(buffer) + 1) - 1 + i] = rest[i]
    <3>1. k + i \in 1 .. Len(coming)
      BY <1>3, <1>4
    <3>2. whole[(from + Len(old) + 1) - 1 + (k + i)] = coming[k + i]
      BY <1>6, <3>1, Zenon DEF Stands
    <3>3. (from + Len(old) + 1) - 1 + (k + i) = (from + Len(buffer) + 1) - 1 + i
      BY <1>3, <1>4, <1>6
    <3> QED
      BY <1>4, <3>2, <3>3, Zenon
  <2> QED
    BY <1>7, <2>3, <2>4, <2>5, Zenon DEF Unread, Stands
<1>12. PICK message, head, body :
         message = script[m] /\ head = HeaderBytes(message) /\ body = MessageBytes(message)
  BY Zenon
<1>13. /\ head \in Seq(Byte) /\ body \in Seq(Byte) /\ Len(head) \in Nat
       /\ Len(head) >= 28 /\ Len(body) = Len(head) + Len(message.payload) /\ Len(message.payload) \in Nat
       /\ \A i \in 1 .. Len(head) : body[i] = head[i]
  <2>1. message.payload \in Seq(Byte)
    BY <1>5, <1>9, <1>12, MessageOf, Zenon
  <2>2. Len(message.payload) \in Nat
    BY <2>1
  <2> QED
    BY <1>5, <1>9, <1>12, <2>2, MessageOf, ZenonT(60)
<1>14. Len(buffer) <= Len(body)
  <2>1. bytes_to_read \in {4, Len(head), Len(body)}
    BY <1>2, <1>12, PreambleAssumption, Zenon DEF ReaderInv, Reading, Types
  <2>2. k \in 1 .. (bytes_to_read - Len(old))
    BY <1>2, Zenon DEF Wanted, bytes_read
  <2> QED
    BY <1>3, <1>4, <1>13, <2>1, <2>2, SMTT(40)
<1>15. \A i \in 1 .. Len(buffer) : buffer[i] = body[i]
  <2>1. CASE m <= complete
    <3>1. m \in 1 .. complete
      BY <1>5, <2>1
    <3>2. Stands(whole, from + 1, body)
      BY <1>1, <1>2, <1>12, <3>1, Zenon DEF Written
    <3>3. \A i \in 1 .. Len(body) : whole[(from + 1) - 1 + i] = body[i]
      BY <3>2, Zenon DEF Stands
    <3>4. \A i \in 1 .. Len(buffer) : i \in 1 .. Len(body) /\ (from + 1) - 1 + i = from + i
      BY <1>4, <1>6, <1>13, <1>14, SMTT(40)
    <3> QED
      BY <1>10, <3>3, <3>4, Zenon
  <2>2. CASE ~(m <= complete)
    <3>1. headers # complete /\ m = headers
      BY <1>5, <1>8, <2>2
    <3>2. Stands(whole, from + 1, head) /\ Len(whole) = from + Len(head)
      BY <1>1, <1>2, <1>12, <3>1, Zenon DEF Written
    <3>3. \A i \in 1 .. Len(head) : whole[(from + 1) - 1 + i] = head[i]
      BY <3>2, Zenon DEF Stands
    <3>4. \A i \in 1 .. Len(buffer) : i \in 1 .. Len(head) /\ (from + 1) - 1 + i = from + i
      BY <1>4, <1>6, <1>7, <1>13, <3>2, SMTT(40)
    <3> QED
      BY <1>10, <1>13, <3>3, <3>4, Zenon
  <2> QED
    BY <2>1, <2>2
<1>16. Len(buffer) > Len(head) => m <= complete
  <2>1. SUFFICES ASSUME ~(m <= complete) PROVE ~(Len(buffer) > Len(head))
    OBVIOUS
  <2>2. headers # complete /\ m = headers
    BY <1>5, <1>8, <2>1
  <2>3. Len(whole) = from + Len(head)
    BY <1>1, <1>2, <1>12, <2>2, Zenon DEF Written
  <2> QED
    BY <1>4, <1>6, <1>7, <1>13, <2>3, SMTT(40)
<1>17. Beginning(buffer, message)
  BY <1>12, <1>14, <1>15, Zenon DEF Beginning
<1> QED
  BY <1>1, <1>2, <1>4, <1>9, <1>11, <1>12, <1>16, <1>17, Zenon

LEMMA ReaderInvInit == Init => ReaderInv
<1> SUFFICES ASSUME Init PROVE ReaderInv
  OBVIOUS
<1>1. /\ script \in Scripts /\ headers = 0 /\ complete = 0 /\ hungup = FALSE /\ stream = <<>>
      /\ state = "ReadHeaderPreamble" /\ read_buffer = <<>> /\ bytes_to_read = Preamble
      /\ header = InitHeader /\ delivered = <<>> /\ closed = FALSE
  BY Zenon DEF Init
<1>2. Len(script) \in Nat
  BY <1>1, ScriptLength, Zenon
<1>3. Types
  <2>1. <<>> \in Seq(Byte) /\ <<>> \in Seq(Nat) /\ 0 \in 0 .. Len(script) /\ 0 \in Nat /\ FALSE \in BOOLEAN
    BY <1>2
  <2> QED
    BY <1>1, <2>1, Zenon DEF Types
<1>4. Counts /\ Current = 1
  BY <1>1 DEF Counts, Current
<1>5. Reading
  BY <1>1, <1>4, PreambleAssumption DEF Reading
<1>6. Connected
  <2>1. PICK start : start = [m \in 1 .. Len(script) + 1 |-> 0]
    OBVIOUS
  <2>2. start \in [1 .. Len(script) + 1 -> Nat] /\ start[1] = 0
    BY <1>2, <2>1
  <2>3. Written(<<>>, start, script, headers, complete)
    BY <1>1, <2>2 DEF Written
  <2>4. Unread(<<>>, start[Current], read_buffer, stream)
    BY <1>1, <1>4, <2>2 DEF Unread, Stands
  <2> QED
    BY <2>3, <2>4, Zenon DEF Connected
<1> QED
  BY <1>3, <1>4, <1>5, <1>6, Zenon DEF ReaderInv

(* The client's writes.                                                    *)
LEMMA WriteHeaderInv ==
    ASSUME ReaderInv, WriteHeader
    PROVE  ReaderInv'
<1>1. /\ headers = complete /\ headers < Len(script) /\ headers' = headers + 1
      /\ script' = script /\ complete' = complete /\ hungup' = hungup
      /\ state' = state /\ read_buffer' = read_buffer /\ bytes_to_read' = bytes_to_read
      /\ header' = header /\ delivered' = delivered /\ closed' = closed
      /\ stream' = stream \o HeaderBytes(script[headers + 1])
  BY Zenon DEF WriteHeader, reader, HeaderBytes
<1>2. script \in Scripts /\ headers \in 0 .. Len(script) /\ Len(script) \in Nat /\ complete \in Nat
  BY ScriptLength, Zenon DEF ReaderInv, Types
<1>3. PICK m, message, head : m = headers + 1 /\ message = script[m] /\ head = HeaderBytes(message)
  BY Zenon
<1>4. m \in 1 .. Len(script) /\ m = complete + 1
  BY <1>1, <1>2, <1>3
<1>5. head \in Seq(Byte) /\ MessageBytes(message) \in Seq(Byte) /\ Len(head) \in Nat
  BY <1>2, <1>3, <1>4, MessageOf, Zenon
<1>6. stream \in Seq(Byte) /\ read_buffer \in Seq(Byte) /\ delivered \in Seq(Nat)
      /\ stream' = stream \o head /\ stream' \in Seq(Byte)
  <2>1. stream \in Seq(Byte) /\ read_buffer \in Seq(Byte) /\ delivered \in Seq(Nat) /\ stream' = stream \o head
    BY <1>1, <1>3, Zenon DEF ReaderInv, Types
  <2> QED
    BY <1>5, <2>1, OnePieceMore, Zenon
<1>7. Types'
  <2>1. headers' \in 0 .. Len(script)
    BY <1>1, <1>2
  <2> QED
    BY <1>1, <1>6, <2>1, Zenon DEF ReaderInv, Types
<1>8. Counts' /\ Current' = Current
  <2>1. Counts
    BY Zenon DEF ReaderInv
  <2> QED
    BY <1>1, <1>2, <2>1 DEF Counts, Current
<1>9. Current \in Nat /\ Current >= 1 /\ Current <= complete + 1
  BY <1>2, <1>6 DEF ReaderInv, Counts, Current
<1>10. Reading'
  <2>1. Reading
    BY Zenon DEF ReaderInv
  <2>2. CASE Current <= headers
    <3>1. Current <= headers' /\ ~(Current > headers') /\ ~(Current > headers)
      BY <1>1, <1>2, <1>9, <2>2
    <3> QED
      BY <1>1, <1>8, <2>1, <2>2, <3>1, Zenon DEF Reading
  <2>3. CASE ~(Current <= headers)
    <3>1. Current > headers /\ ~(Current > headers') /\ Current = m
      BY <1>1, <1>2, <1>3, <1>9, <2>3
    <3>2. read_buffer = <<>> /\ state = "ReadHeaderPreamble"
      BY <2>1, <3>1, Zenon DEF Reading
    <3>3. Len(MessageBytes(message)) \in Nat
      BY <1>5
    <3>4. Beginning(read_buffer, message)
      BY <3>2, <3>3 DEF Beginning
    <3>5. Beginning(read_buffer', script'[Current'])
      BY <1>1, <1>3, <1>8, <3>1, <3>4, Zenon
    <3>6. "ReadHeaderPreamble" # "ReadHeader" /\ "ReadHeaderPreamble" # "ReadPayload"
      OBVIOUS
    <3> QED
      BY <1>1, <1>8, <2>1, <3>1, <3>2, <3>5, <3>6, Zenon DEF Reading
  <2> QED
    BY <2>2, <2>3
<1>11. Connected'
  <2> SUFFICES ASSUME ~closed' PROVE Connected'
    BY Zenon DEF Connected
  <2>1. PICK whole, start : /\ Written(whole, start, script, headers, complete)
                            /\ Unread(whole, start[Current], read_buffer, stream)
    BY <1>1, Zenon DEF ReaderInv, Connected
  <2>2. whole \in Seq(Byte) /\ start \in [1 .. Len(script) + 1 -> Nat] /\ Len(whole) = start[m]
    BY <1>1, <1>3, <2>1, <1>4, Zenon DEF Written
  <2>3. PICK new : new = whole \o head
    BY Zenon
  <2>4. /\ new \in Seq(Byte) /\ Len(new) = Len(whole) + Len(head)
        /\ Stands(new, Len(whole) + 1, head)
        /\ \A at, p : Len(p) \in Nat /\ Stands(whole, at, p) => Stands(new, at, p)
    BY <1>5, <2>2, <2>3, OnePieceMore, Zenon
  <2>5. ASSUME NEW j \in 1 .. complete
        PROVE  /\ start[j + 1] = start[j] + Len(MessageBytes(script[j]))
               /\ Stands(new, start[j] + 1, MessageBytes(script[j]))
    <3>1. /\ start[j + 1] = start[j] + Len(MessageBytes(script[j]))
          /\ Stands(whole, start[j] + 1, MessageBytes(script[j]))
      BY <2>1, Zenon DEF Written
    <3>2. j \in 1 .. Len(script)
      BY <1>1, <1>2
    <3>3. MessageBytes(script[j]) \in Seq(Byte)
      BY <1>2, <3>2, MessageOf, Zenon
    <3>4. Len(MessageBytes(script[j])) \in Nat
      BY <3>3
    <3> QED
      BY <2>4, <3>1, <3>4, Zenon
  <2>6. headers' # complete' /\ headers' = m /\ complete' = complete
    BY <1>1, <1>2, <1>3
  <2>7. Written(new, start, script', headers', complete')
    BY <1>1, <1>3, <2>2, <2>4, <2>5, <2>6, Zenon DEF Written
  <2>8. PICK from : from = start[Current]
    BY Zenon
  <2>9. from \in Nat /\ Len(whole) = from + Len(read_buffer) + Len(stream)
        /\ Stands(whole, from + 1, read_buffer) /\ Stands(whole, from + Len(read_buffer) + 1, stream)
    <3>1. Current \in 1 .. Len(script) + 1
      BY <1>1, <1>2, <1>9
    <3>2. from \in Nat
      BY <2>2, <2>8, <3>1
    <3> QED
      BY <2>1, <2>8, <3>2, Zenon DEF Unread
  <2>10. Len(read_buffer) \in Nat /\ Len(stream) \in Nat /\ Len(stream \o head) = Len(stream) + Len(head)
    BY <1>5, <1>6
  <2>11. Stands(new, from + 1, read_buffer)
    BY <2>4, <2>9, <2>10, Zenon
  <2>12. Stands(new, from + Len(read_buffer) + 1, stream \o head)
    <3>1. (from + Len(read_buffer) + 1) + Len(stream) = Len(whole) + 1
      BY <2>9, <2>10
    <3> QED
      BY <1>5, <1>6, <2>2, <2>3, <2>9, <3>1, AppendedPiece, Zenon
  <2>13. Len(new) = from + Len(read_buffer) + Len(stream \o head)
    BY <1>5, <2>4, <2>9, <2>10
  <2>14. Unread(new, start[Current'], read_buffer', stream')
    BY <1>1, <1>6, <1>8, <2>8, <2>11, <2>12, <2>13, Zenon DEF Unread
  <2> QED
    BY <2>7, <2>14, Zenon DEF Connected
<1> QED
  BY <1>7, <1>8, <1>10, <1>11, Zenon DEF ReaderInv

LEMMA WritePayloadInv ==
    ASSUME ReaderInv, WritePayload
    PROVE  ReaderInv'
<1>1. /\ headers > complete /\ complete' = complete + 1 /\ headers' = headers
      /\ script' = script /\ hungup' = hungup
      /\ state' = state /\ read_buffer' = read_buffer /\ bytes_to_read' = bytes_to_read
      /\ header' = header /\ delivered' = delivered /\ closed' = closed
      /\ stream' = stream \o script[headers].payload
  BY Zenon DEF WritePayload, reader
<1>2. script \in Scripts /\ headers \in 0 .. Len(script) /\ Len(script) \in Nat /\ complete \in Nat
      /\ headers \in {complete, complete + 1}
  BY ScriptLength, Zenon DEF ReaderInv, Types, Counts
<1>3. headers = complete + 1 /\ headers \in 1 .. Len(script)
  BY <1>1, <1>2
<1>4. PICK message, head, payload : message = script[headers] /\ head = HeaderBytes(message)
                                    /\ payload = message.payload
  BY Zenon
<1>5. head \in Seq(Byte) /\ payload \in Seq(Byte) /\ Len(head) \in Nat /\ Len(payload) \in Nat
      /\ MessageBytes(message) = head \o payload
      /\ Len(MessageBytes(message)) = Len(head) + Len(payload)
  <2>1. head \in Seq(Byte) /\ payload \in Seq(Byte) /\ Len(head) \in Nat
        /\ Len(MessageBytes(message)) = Len(head) + Len(payload)
    BY <1>2, <1>3, <1>4, MessageOf, Zenon
  <2>2. Len(payload) \in Nat
    BY <2>1
  <2> QED
    BY <1>4, <2>1, <2>2, Zenon DEF MessageBytes
<1>6. stream \in Seq(Byte) /\ read_buffer \in Seq(Byte) /\ delivered \in Seq(Nat)
      /\ stream' = stream \o payload /\ stream' \in Seq(Byte)
  <2>1. stream \in Seq(Byte) /\ read_buffer \in Seq(Byte) /\ delivered \in Seq(Nat) /\ stream' = stream \o payload
    BY <1>1, <1>4, Zenon DEF ReaderInv, Types
  <2> QED
    BY <1>5, <2>1, OnePieceMore, Zenon
<1>7. Types'
  <2>1. complete' \in Nat
    BY <1>1, <1>2
  <2> QED
    BY <1>1, <1>6, <2>1, Zenon DEF ReaderInv, Types
<1>8. Current \in Nat /\ Current >= 1 /\ Current <= complete + 1
  BY <1>2, <1>6 DEF ReaderInv, Counts, Current
<1>9. Counts' /\ Current' = Current
  BY <1>1, <1>2, <1>3, <1>6, <1>8 DEF Counts, Current
<1>10. Reading'
  BY <1>1, <1>9, Zenon DEF ReaderInv, Reading
<1>11. Connected'
  <2> SUFFICES ASSUME ~closed' PROVE Connected'
    BY Zenon DEF Connected
  <2>1. PICK whole, start : /\ Written(whole, start, script, headers, complete)
                            /\ Unread(whole, start[Current], read_buffer, stream)
    BY <1>1, Zenon DEF ReaderInv, Connected
  <2>2. headers # complete
    BY <1>2, <1>3
  <2>3. whole \in Seq(Byte) /\ start \in [1 .. Len(script) + 1 -> Nat]
        /\ Len(whole) = start[headers] + Len(head) /\ Stands(whole, start[headers] + 1, head)
    BY <1>4, <2>1, <2>2, Zenon DEF Written
  <2>4. PICK new : new = whole \o payload
    BY Zenon
  <2>5. /\ new \in Seq(Byte) /\ Len(new) = Len(whole) + Len(payload)
        /\ \A at, p : Len(p) \in Nat /\ Stands(whole, at, p) => Stands(new, at, p)
    BY <1>5, <2>3, <2>4, OnePieceMore, Zenon
  <2>6. start[headers] \in Nat /\ Len(whole) \in Nat
    BY <1>2, <1>3, <2>3
  <2>7. Stands(new, start[headers] + 1, head \o payload)
    <3>1. (start[headers] + 1) + Len(head) = Len(whole) + 1
      BY <1>5, <2>3, <2>6
    <3> QED
      BY <1>5, <2>3, <2>4, <3>1, AppendedPiece, Zenon
  <2>8. PICK next : next = [start EXCEPT ![headers + 1] = Len(new)]
    BY Zenon
  <2>9. /\ next \in [1 .. Len(script) + 1 -> Nat] /\ next[headers + 1] = Len(new)
        /\ \A j \in 1 .. headers : next[j] = start[j]
    <3>1. Len(new) \in Nat
      BY <1>5, <2>5, <2>6
    <3> QED
      BY <1>2, <1>3, <2>3, <2>8, <3>1
  <2>10. ASSUME NEW j \in 1 .. complete
         PROVE  /\ next[j + 1] = next[j] + Len(MessageBytes(script[j]))
                /\ Stands(new, next[j] + 1, MessageBytes(script[j]))
    <3>1. /\ start[j + 1] = start[j] + Len(MessageBytes(script[j]))
          /\ Stands(whole, start[j] + 1, MessageBytes(script[j]))
      BY <2>1, Zenon DEF Written
    <3>2. j \in 1 .. Len(script) /\ j \in 1 .. headers /\ j + 1 \in 1 .. headers
      BY <1>2, <1>3
    <3>3. MessageBytes(script[j]) \in Seq(Byte)
      BY <1>2, <3>2, MessageOf, Zenon
    <3>4. Len(MessageBytes(script[j])) \in Nat
      BY <3>3
    <3>5. next[j] = start[j] /\ next[j + 1] = start[j + 1]
      BY <2>9, <3>2, Zenon
    <3> QED
      BY <2>5, <3>1, <3>4, <3>5, Zenon
  <2>11. /\ next[headers + 1] = next[headers] + Len(MessageBytes(message))
         /\ Stands(new, next[headers] + 1, MessageBytes(message))
    <3>1. headers \in 1 .. headers
      BY <1>3
    <3>2. next[headers] = start[headers]
      BY <2>9, <3>1, Zenon
    <3>3. Len(new) = start[headers] + (Len(head) + Len(payload))
      BY <1>5, <2>3, <2>5, <2>6, SMTT(40)
    <3> QED
      BY <1>5, <2>7, <2>9, <3>2, <3>3, Zenon
  <2>12. ASSUME NEW j \in 1 .. complete'
         PROVE  /\ next[j + 1] = next[j] + Len(MessageBytes(script[j]))
                /\ Stands(new, next[j] + 1, MessageBytes(script[j]))
    <3>1. j = headers \/ j \in 1 .. complete
      BY <1>1, <1>2, <1>3
    <3> QED
      BY <1>4, <2>10, <2>11, <3>1, Zenon
  <2>13. headers' = complete' /\ Len(new) = next[complete' + 1]
    BY <1>1, <1>3, <2>9, Zenon
  <2>14. Written(new, next, script', headers', complete')
    BY <1>1, <2>5, <2>9, <2>12, <2>13, Zenon DEF Written
  <2>15. PICK from : from = start[Current] /\ from = next[Current]
    <3>1. Current \in 1 .. headers
      BY <1>3, <1>8
    <3> QED
      BY <2>9, <3>1, Zenon
  <2>16. from \in Nat /\ Len(whole) = from + Len(read_buffer) + Len(stream)
         /\ Stands(whole, from + 1, read_buffer) /\ Stands(whole, from + Len(read_buffer) + 1, stream)
    <3>1. Current \in 1 .. Len(script) + 1
      BY <1>2, <1>3, <1>8
    <3>2. from \in Nat
      BY <2>3, <2>15, <3>1
    <3> QED
      BY <2>1, <2>15, <3>2, Zenon DEF Unread
  <2>17. Len(read_buffer) \in Nat /\ Len(stream) \in Nat /\ Len(stream \o payload) = Len(stream) + Len(payload)
    BY <1>5, <1>6
  <2>18. Stands(new, from + 1, read_buffer)
    BY <2>5, <2>16, <2>17, Zenon
  <2>19. Stands(new, from + Len(read_buffer) + 1, stream \o payload)
    <3>1. (from + Len(read_buffer) + 1) + Len(stream) = Len(whole) + 1
      BY <2>16, <2>17
    <3> QED
      BY <1>5, <1>6, <2>3, <2>4, <2>16, <3>1, AppendedPiece, Zenon
  <2>20. Len(new) = from + Len(read_buffer) + Len(stream \o payload)
    BY <1>5, <2>5, <2>16, <2>17
  <2>21. Unread(new, next[Current'], read_buffer', stream')
    BY <1>1, <1>6, <1>9, <2>15, <2>18, <2>19, <2>20, Zenon DEF Unread
  <2> QED
    BY <2>14, <2>21, Zenon DEF Connected
<1> QED
  BY <1>7, <1>9, <1>10, <1>11, Zenon DEF ReaderInv

(* What every recv leaves alone.                                           *)
Kept ==
    /\ script' = script /\ headers' = headers /\ complete' = complete /\ hungup' = hungup
    /\ closed' = closed

LEMMA ReadPreambleInv ==
    ASSUME ReaderInv, NEW k \in 1 .. Wanted, ReadPreamble(k)
    PROVE  ReaderInv' /\ UNCHANGED <<complete, hungup, delivered>>
<1>1. PICK buffer, rest : buffer = Buffered(k) /\ rest = SubSeq(stream, k + 1, Len(stream))
  BY Zenon
<1>2. /\ state = "ReadHeaderPreamble" /\ ~closed /\ k <= Len(stream) /\ stream' = rest
      /\ read_buffer' = buffer
      /\ IF Completes(k)
         THEN /\ bytes_to_read' = bytes_to_read + (DecodeUInt16(buffer, 3) - Preamble)
              /\ state' = "ReadHeader"
         ELSE bytes_to_read' = bytes_to_read /\ state' = state
      /\ Kept /\ header' = header /\ delivered' = delivered
  BY <1>1, Zenon DEF ReadPreamble, Recv, Readable, writer, Kept
<1>3. PICK m, message, head : m = Current /\ message = script[m] /\ head = HeaderBytes(message)
  BY Zenon
<1>4. /\ m \in 1 .. headers /\ buffer \in Seq(Byte) /\ rest \in Seq(Byte)
      /\ Len(buffer) = Len(read_buffer) + k /\ Beginning(buffer, message)
      /\ \E whole, start : /\ Written(whole, start, script, headers, complete)
                           /\ Unread(whole, start[m], buffer, rest)
  BY <1>1, <1>2, <1>3, Received, Zenon
<1>5. script \in Scripts /\ headers \in 0 .. Len(script) /\ Len(script) \in Nat
      /\ read_buffer \in Seq(Byte) /\ bytes_to_read = 4 /\ header = InitHeader
  BY <1>2, ScriptLength, PreambleAssumption, Zenon DEF ReaderInv, Types, Reading
<1>6. m \in 1 .. Len(script) /\ m <= headers /\ ~(m > headers)
  BY <1>4, <1>5
<1>7. /\ Len(head) \in Nat /\ Len(head) >= 28 /\ DecodeUInt16(head, 3) = Len(head)
      /\ \A i \in 1 .. Len(head) : MessageBytes(message)[i] = head[i]
  BY <1>3, <1>5, <1>6, MessageOf, ZenonT(60)
<1>8. Current' = Current
  BY <1>2, Zenon DEF Current
<1>9. Connected' /\ Counts'
  BY <1>2, <1>3, <1>4, <1>8, Zenon DEF Connected, ReaderInv, Counts, Kept
<1>10. Types'
  BY <1>2, <1>4, Zenon DEF ReaderInv, Types, Kept
<1>11. Reading'
  <2>1. Beginning(read_buffer', script'[Current'])
    BY <1>2, <1>3, <1>4, <1>8, Zenon DEF Kept
  <2>2. ~(Current' > headers')
    BY <1>2, <1>3, <1>6, <1>8, Zenon DEF Kept
  <2>3. CASE Completes(k)
    <3>1. Len(buffer) = 4
      BY <1>4, <1>5, <2>3 DEF Completes, Wanted, bytes_read
    <3>2. buffer[3] = head[3] /\ buffer[4] = head[4]
      <4>1. 3 \in 1 .. Len(buffer) /\ 4 \in 1 .. Len(buffer) /\ 3 \in 1 .. Len(head) /\ 4 \in 1 .. Len(head)
        BY <1>7, <3>1
      <4>2. \A i \in 1 .. Len(buffer) : buffer[i] = MessageBytes(message)[i]
        BY <1>4, Zenon DEF Beginning
      <4>3. buffer[3] = MessageBytes(message)[3] /\ buffer[4] = MessageBytes(message)[4]
        BY <4>1, <4>2, Zenon
      <4>4. MessageBytes(message)[3] = head[3] /\ MessageBytes(message)[4] = head[4]
        BY <1>7, <4>1, Zenon
      <4> QED
        BY <4>3, <4>4, Zenon
    <3>3. DecodeUInt16(buffer, 3) = Len(head)
      <4>1. 3 + 1 = 4
        OBVIOUS
      <4> QED
        BY <1>7, <3>2, <4>1, ZenonT(60) DEF DecodeUInt16
    <3>4. bytes_to_read' = Len(head)
      BY <1>2, <1>5, <1>7, <2>3, <3>3, PreambleAssumption
    <3>5. /\ state' = "ReadHeader" /\ bytes_to_read' = Len(HeaderBytes(script'[Current']))
          /\ header' = InitHeader
      BY <1>2, <1>3, <1>5, <1>8, <2>3, <3>4, Zenon DEF Kept
    <3>6. Preamble <= Len(read_buffer') /\ Len(read_buffer') < bytes_to_read'
      BY <1>2, <1>7, <3>1, <3>4, PreambleAssumption
    <3>7. "ReadHeader" # "ReadHeaderPreamble" /\ "ReadHeader" # "ReadPayload"
      OBVIOUS
    <3> QED
      BY <2>1, <2>2, <3>5, <3>6, <3>7, Zenon DEF Reading
  <2>4. CASE ~Completes(k)
    <3>1. Len(buffer) < 4
      BY <1>4, <1>5, <2>4 DEF Completes, Wanted, bytes_read
    <3>2. state' = "ReadHeaderPreamble" /\ bytes_to_read' = Preamble /\ Len(read_buffer') < Preamble
          /\ header' = InitHeader
      BY <1>2, <1>5, <2>4, <3>1, PreambleAssumption, Zenon
    <3>3. "ReadHeaderPreamble" # "ReadHeader" /\ "ReadHeaderPreamble" # "ReadPayload"
      OBVIOUS
    <3> QED
      BY <2>1, <2>2, <3>2, <3>3, Zenon DEF Reading
  <2> QED
    BY <2>3, <2>4
<1> QED
  BY <1>2, <1>9, <1>10, <1>11, Zenon DEF ReaderInv, Kept

LEMMA ReadHeaderInv ==
    ASSUME ReaderInv, NEW k \in 1 .. Wanted, ReadHeader(k)
    PROVE  ReaderInv' /\ UNCHANGED <<complete, hungup, delivered>>
<1>1. PICK buffer, rest : buffer = Buffered(k) /\ rest = SubSeq(stream, k + 1, Len(stream))
  BY Zenon
<1>2. /\ state = "ReadHeader" /\ ~closed /\ k <= Len(stream) /\ stream' = rest
      /\ read_buffer' = buffer
      /\ IF Completes(k)
         THEN /\ header' = Decode(header, buffer)
              /\ bytes_to_read' = bytes_to_read + header'.payload_length
              /\ state' = "ReadPayload"
         ELSE header' = header /\ bytes_to_read' = bytes_to_read /\ state' = state
      /\ Kept /\ delivered' = delivered
  BY <1>1, Zenon DEF ReadHeader, Recv, Readable, writer, Kept
<1>3. PICK m, message, head, payload :
        m = Current /\ message = script[m] /\ head = HeaderBytes(message) /\ payload = message.payload
  BY Zenon
<1>4. /\ m \in 1 .. headers /\ buffer \in Seq(Byte) /\ rest \in Seq(Byte)
      /\ Len(buffer) = Len(read_buffer) + k /\ Beginning(buffer, message)
      /\ \E whole, start : /\ Written(whole, start, script, headers, complete)
                           /\ Unread(whole, start[m], buffer, rest)
  BY <1>1, <1>2, <1>3, Received, Zenon
<1>5. script \in Scripts /\ headers \in 0 .. Len(script) /\ Len(script) \in Nat
      /\ read_buffer \in Seq(Byte) /\ bytes_to_read = Len(head) /\ header = InitHeader
      /\ Preamble <= Len(read_buffer)
  BY <1>2, <1>3, ScriptLength, Zenon DEF ReaderInv, Types, Reading
<1>6. m \in 1 .. Len(script) /\ m <= headers /\ ~(m > headers)
  BY <1>4, <1>5
<1>7. /\ head \in Seq(Byte) /\ Len(head) \in Nat /\ Len(head) >= 28 /\ payload \in Seq(Byte)
      /\ Len(MessageBytes(message)) = Len(head) + Len(payload)
      /\ Decode(InitHeader, head) = Decoded(message.header)
      /\ Decoded(message.header).payload_length = Len(payload)
      /\ \A i \in 1 .. Len(head) : MessageBytes(message)[i] = head[i]
  BY <1>3, <1>5, <1>6, MessageOf, ZenonT(60)
<1>8. Current' = Current
  BY <1>2, Zenon DEF Current
<1>9. Connected' /\ Counts'
  BY <1>2, <1>3, <1>4, <1>8, Zenon DEF Connected, ReaderInv, Counts, Kept
<1>10. Types'
  BY <1>2, <1>4, Zenon DEF ReaderInv, Types, Kept
<1>11. Reading'
  <2>1. Beginning(read_buffer', script'[Current'])
    BY <1>2, <1>3, <1>4, <1>8, Zenon DEF Kept
  <2>2. ~(Current' > headers')
    BY <1>2, <1>3, <1>6, <1>8, Zenon DEF Kept
  <2>3. Len(read_buffer) \in Nat
    BY <1>5
  <2>4. CASE Completes(k)
    <3>1. Len(buffer) = Len(head)
      BY <1>4, <1>5, <1>7, <2>3, <2>4 DEF Completes, Wanted, bytes_read
    <3>2. buffer = head
      <4>1. \A i \in 1 .. Len(head) : buffer[i] = head[i]
        BY <1>4, <1>7, <3>1, Zenon DEF Beginning
      <4> QED
        BY <1>4, <1>7, <3>1, <4>1
    <3>3. header' = Decoded(message.header)
      BY <1>2, <1>5, <1>7, <2>4, <3>2, Zenon
    <3>4. bytes_to_read' = Len(MessageBytes(message))
      BY <1>2, <1>5, <1>7, <2>4, <3>3, Zenon
    <3>5. Len(head) <= Len(buffer) /\ Len(buffer) <= Len(MessageBytes(message))
      BY <1>7, <3>1
    <3>6. /\ state' = "ReadPayload"
          /\ bytes_to_read' = Len(MessageBytes(script'[Current']))
          /\ Len(HeaderBytes(script'[Current'])) <= Len(read_buffer')
          /\ Len(read_buffer') <= bytes_to_read'
          /\ header' = Decoded(script'[Current'].header)
      BY <1>2, <1>3, <1>8, <2>4, <3>3, <3>4, <3>5, Zenon DEF Kept
    <3>7. "ReadPayload" # "ReadHeaderPreamble" /\ "ReadPayload" # "ReadHeader"
      OBVIOUS
    <3> QED
      BY <2>1, <2>2, <3>6, <3>7, Zenon DEF Reading
  <2>5. CASE ~Completes(k)
    <3>1. Len(buffer) < Len(head) /\ Preamble <= Len(buffer)
      BY <1>4, <1>5, <1>7, <2>3, <2>5, PreambleAssumption, SMTT(40) DEF Completes, Wanted, bytes_read
    <3>2. /\ state' = "ReadHeader" /\ bytes_to_read' = Len(HeaderBytes(script'[Current']))
          /\ Preamble <= Len(read_buffer') /\ Len(read_buffer') < bytes_to_read'
          /\ header' = InitHeader
      BY <1>2, <1>3, <1>5, <1>8, <2>5, <3>1, Zenon DEF Kept
    <3>3. "ReadHeader" # "ReadHeaderPreamble" /\ "ReadHeader" # "ReadPayload"
      OBVIOUS
    <3> QED
      BY <2>1, <2>2, <3>2, <3>3, Zenon DEF Reading
  <2> QED
    BY <2>4, <2>5
<1> QED
  BY <1>2, <1>9, <1>10, <1>11, Zenon DEF ReaderInv, Kept

(* The payload: with its last byte the message is delivered, and it is one *)
(* that has been written to its last byte.                                 *)
LEMMA ReadPayloadInv ==
    ASSUME ReaderInv, NEW k \in 1 .. Wanted, ReadPayload(k)
    PROVE  ReaderInv' /\ UNCHANGED <<complete, hungup>> /\ (UNCHANGED delivered \/ Stream!Deliver)
<1>1. PICK buffer, rest : buffer = Buffered(k) /\ rest = SubSeq(stream, k + 1, Len(stream))
  BY Zenon
<1>2. /\ state = "ReadPayload" /\ ~closed /\ k <= Len(stream) /\ stream' = rest
      /\ IF Completes(k)
         THEN /\ delivered' = Append(delivered, header.sequence_number)
              /\ read_buffer' = <<>> /\ bytes_to_read' = Preamble
              /\ state' = "ReadHeaderPreamble" /\ header' = InitHeader
         ELSE /\ read_buffer' = buffer /\ delivered' = delivered
              /\ header' = header /\ bytes_to_read' = bytes_to_read /\ state' = state
      /\ Kept
  BY <1>1, Zenon DEF ReadPayload, Recv, Readable, writer, Kept
<1>3. PICK m, message, head, payload :
        m = Current /\ message = script[m] /\ head = HeaderBytes(message) /\ payload = message.payload
  BY Zenon
<1>4. /\ m \in 1 .. headers /\ buffer \in Seq(Byte) /\ rest \in Seq(Byte)
      /\ Len(buffer) = Len(read_buffer) + k /\ Beginning(buffer, message)
      /\ Len(buffer) > Len(head) => m <= complete
  BY <1>1, <1>2, <1>3, Received, Zenon
<1>5. PICK whole, start : /\ Written(whole, start, script, headers, complete)
                          /\ Unread(whole, start[m], buffer, rest)
  BY <1>1, <1>2, <1>3, Received, Zenon
<1>6. script \in Scripts /\ headers \in 0 .. Len(script) /\ Len(script) \in Nat /\ complete \in Nat
      /\ read_buffer \in Seq(Byte) /\ delivered \in Seq(Nat) /\ headers \in {complete, complete + 1}
      /\ Len(delivered) <= complete
      /\ bytes_to_read = Len(MessageBytes(message)) /\ header = Decoded(message.header)
      /\ Len(head) <= Len(read_buffer)
  BY <1>2, <1>3, ScriptLength, Zenon DEF ReaderInv, Types, Reading, Counts
<1>7. m \in 1 .. Len(script) /\ m <= headers /\ ~(m > headers) /\ m = Len(delivered) + 1
  BY <1>3, <1>4, <1>6, SMTT(40) DEF Current
<1>8. /\ Len(head) \in Nat /\ Len(head) >= 28 /\ payload \in Seq(Byte)
      /\ Len(MessageBytes(message)) = Len(head) + Len(payload)
      /\ Decoded(message.header).sequence_number = m
  BY <1>3, <1>6, <1>7, MessageOf, Zenon
<1>9. Len(read_buffer) \in Nat /\ Len(payload) \in Nat /\ k \in Nat /\ k >= 1
  BY <1>6, <1>8
<1>10. CASE Completes(k)
  <2>1. Len(buffer) = Len(MessageBytes(message)) /\ Len(buffer) > Len(head)
    BY <1>4, <1>6, <1>8, <1>9, <1>10, SMTT(40) DEF Completes, Wanted, bytes_read
  <2>2. m <= complete /\ m \in 1 .. complete
    BY <1>4, <1>6, <1>7, <2>1
  <2>3. /\ delivered' = Append(delivered, m) /\ read_buffer' = <<>> /\ bytes_to_read' = Preamble
        /\ state' = "ReadHeaderPreamble" /\ header' = InitHeader
    BY <1>2, <1>6, <1>8, <1>10, Zenon
  <2>4. m \in Nat /\ delivered' \in Seq(Nat) /\ Len(delivered') = m /\ Current' = m + 1
    <3>1. m \in Nat
      BY <1>7
    <3>2. \A d \in Seq(Nat), n \in Nat : Append(d, n) \in Seq(Nat) /\ Len(Append(d, n)) = Len(d) + 1
      OBVIOUS
    <3> QED
      BY <1>6, <1>7, <2>3, <3>1, <3>2, Zenon DEF Current
  <2>5. Stream!Deliver
    <3>1. Len(delivered) < complete
      BY <1>6, <1>7, <2>2
    <3> QED
      BY <1>2, <1>7, <2>3, <3>1, Zenon DEF Stream!Deliver, Kept
  <2>6. Types'
    <3>1. <<>> \in Seq(Byte)
      OBVIOUS
    <3> QED
      BY <1>2, <1>4, <2>3, <2>4, <3>1, Zenon DEF ReaderInv, Types, Kept
  <2>7. Counts'
    BY <1>2, <1>6, <2>2, <2>4, Zenon DEF Counts, Kept
  <2>8. Reading'
    <3>1. Len(<<>>) = 0 /\ Preamble = 4
      BY PreambleAssumption
    <3>2. Len(read_buffer') < Preamble
      BY <2>3, <3>1
    <3>3. Current' <= headers' => Beginning(read_buffer', script'[Current'])
      <4>1. SUFFICES ASSUME Current' <= headers' PROVE Beginning(<<>>, script[m + 1])
        BY <1>2, <2>3, <2>4, Zenon DEF Kept
      <4>2. m + 1 \in 1 .. Len(script)
        BY <1>2, <1>6, <1>7, <2>4, <4>1, SMTT(40) DEF Kept
      <4>3. MessageBytes(script[m + 1]) \in Seq(Byte)
        BY <1>6, <4>2, MessageOf, Zenon
      <4>4. Len(MessageBytes(script[m + 1])) \in Nat
        BY <4>3
      <4> QED
        BY <4>4 DEF Beginning
    <3>4. "ReadHeaderPreamble" # "ReadHeader" /\ "ReadHeaderPreamble" # "ReadPayload"
      OBVIOUS
    <3> QED
      BY <2>3, <3>2, <3>3, <3>4, Zenon DEF Reading
  <2>9. Connected'
    <3>1. start[m + 1] = start[m] + Len(MessageBytes(message)) /\ start \in [1 .. Len(script) + 1 -> Nat]
      BY <1>3, <1>5, <2>2, Zenon DEF Written
    <3>2. PICK from, next : from = start[m] /\ next = start[m + 1]
      BY Zenon
    <3>3. from \in Nat /\ next = from + Len(buffer)
      BY <1>6, <1>7, <2>1, <3>1, <3>2, SMTT(40)
    <3>4. Len(whole) = from + Len(buffer) + Len(rest) /\ Stands(whole, from + Len(buffer) + 1, rest)
      BY <1>5, <3>2, Zenon DEF Unread
    <3>5. Len(buffer) \in Nat /\ Len(rest) \in Nat
      BY <1>4
    <3>6. Len(whole) = next + Len(<<>>) + Len(rest)
      BY <3>3, <3>4, <3>5
    <3>7. Stands(whole, next + 1, <<>>)
      BY <3>3, <3>5, <3>6 DEF Stands
    <3>8. Stands(whole, next + Len(<<>>) + 1, rest)
      <4>1. next + Len(<<>>) + 1 = from + Len(buffer) + 1
        BY <3>3, <3>5
      <4> QED
        BY <3>4, <4>1, Zenon
    <3>9. Unread(whole, start[Current'], read_buffer', stream')
      BY <1>2, <2>3, <2>4, <3>2, <3>6, <3>7, <3>8, Zenon DEF Unread
    <3> QED
      BY <1>2, <1>5, <3>9, Zenon DEF Connected, Kept
  <2> QED
    BY <1>2, <2>5, <2>6, <2>7, <2>8, <2>9, Zenon DEF ReaderInv, Kept
<1>11. CASE ~Completes(k)
  <2>1. /\ read_buffer' = buffer /\ delivered' = delivered
        /\ header' = header /\ bytes_to_read' = bytes_to_read /\ state' = "ReadPayload"
    BY <1>2, <1>11, Zenon
  <2>2. Current' = Current
    BY <2>1, Zenon DEF Current
  <2>3. Len(head) <= Len(buffer) /\ Len(buffer) <= bytes_to_read
    BY <1>4, <1>6, <1>8, <1>9 DEF Wanted, bytes_read
  <2>4. Connected' /\ Counts'
    BY <1>2, <1>3, <1>5, <2>1, <2>2, Zenon DEF Connected, ReaderInv, Counts, Kept
  <2>5. Types'
    BY <1>2, <1>4, <2>1, Zenon DEF ReaderInv, Types, Kept
  <2>6. Beginning(read_buffer', script'[Current']) /\ ~(Current' > headers')
    BY <1>2, <1>3, <1>4, <1>7, <2>1, <2>2, Zenon DEF Kept
  <2>7. /\ bytes_to_read' = Len(MessageBytes(script'[Current']))
        /\ Len(HeaderBytes(script'[Current'])) <= Len(read_buffer')
        /\ Len(read_buffer') <= bytes_to_read'
        /\ header' = Decoded(script'[Current'].header)
    BY <1>2, <1>3, <1>6, <2>1, <2>2, <2>3, Zenon DEF Kept
  <2>8. "ReadPayload" # "ReadHeaderPreamble" /\ "ReadPayload" # "ReadHeader"
    OBVIOUS
  <2>9. Reading'
    BY <2>1, <2>6, <2>7, <2>8, Zenon DEF Reading
  <2> QED
    BY <1>2, <2>1, <2>4, <2>5, <2>9, Zenon DEF ReaderInv, Kept
<1> QED
  BY <1>10, <1>11

LEMMA ReaderInvStep ==
    ASSUME ReaderInv, [Next]_vars
    PROVE  ReaderInv' /\ [Stream!Next]_(Stream!vars)
<1>1. CASE WriteHeader
  <2>1. UNCHANGED Stream!vars
    BY <1>1, Zenon DEF WriteHeader, reader, Stream!vars
  <2> QED
    BY <1>1, <2>1, WriteHeaderInv, Zenon
<1>2. CASE WritePayload
  <2>1. Stream!Write
    BY <1>2, Zenon DEF WritePayload, reader, Stream!Write
  <2> QED
    BY <1>2, <2>1, WritePayloadInv, Zenon DEF Stream!Next
<1>3. CASE HangUp
  <2>1. /\ script' = script /\ headers' = headers /\ complete' = complete /\ hungup' = TRUE
        /\ stream' = stream /\ state' = state /\ read_buffer' = read_buffer
        /\ bytes_to_read' = bytes_to_read /\ header' = header /\ delivered' = delivered
        /\ closed' = closed
    BY <1>3, Zenon DEF HangUp, reader
  <2>2. Current' = Current
    BY <2>1, Zenon DEF Current
  <2>3. Stream!HangUp
    BY <1>3, Zenon DEF HangUp, reader, Stream!HangUp
  <2>4. Types' /\ Counts'
    BY <2>1, Zenon DEF ReaderInv, Types, Counts
  <2>5. Reading'
    BY <2>1, <2>2, Zenon DEF ReaderInv, Reading
  <2>6. Connected'
    BY <2>1, <2>2, Zenon DEF ReaderInv, Connected
  <2> QED
    BY <2>3, <2>4, <2>5, <2>6, Zenon DEF ReaderInv, Stream!Next
<1>4. ASSUME NEW k \in 1 .. Wanted, ReadPreamble(k)
      PROVE  ReaderInv' /\ [Stream!Next]_(Stream!vars)
  BY <1>4, ReadPreambleInv, Zenon DEF Stream!vars
<1>5. ASSUME NEW k \in 1 .. Wanted, ReadHeader(k)
      PROVE  ReaderInv' /\ [Stream!Next]_(Stream!vars)
  BY <1>5, ReadHeaderInv, Zenon DEF Stream!vars
<1>6. ASSUME NEW k \in 1 .. Wanted, ReadPayload(k)
      PROVE  ReaderInv' /\ [Stream!Next]_(Stream!vars)
  BY <1>6, ReadPayloadInv, Zenon DEF Stream!vars, Stream!Next
<1>7. CASE ReadFails
  <2>1. /\ script' = script /\ headers' = headers /\ complete' = complete /\ hungup' = hungup
        /\ stream' = <<>> /\ state' = state /\ read_buffer' = read_buffer
        /\ bytes_to_read' = bytes_to_read /\ header' = header /\ delivered' = delivered
        /\ closed' = TRUE
    BY <1>7, Zenon DEF ReadFails, writer
  <2>2. Current' = Current
    BY <2>1, Zenon DEF Current
  <2>3. <<>> \in Seq(Byte)
    OBVIOUS
  <2>4. Types' /\ Counts'
    BY <2>1, <2>3, Zenon DEF ReaderInv, Types, Counts
  <2>5. Reading'
    BY <2>1, <2>2, Zenon DEF ReaderInv, Reading
  <2>6. Connected' /\ UNCHANGED Stream!vars
    BY <2>1, Zenon DEF Connected, Stream!vars
  <2> QED
    BY <2>4, <2>5, <2>6, Zenon DEF ReaderInv
<1>8. CASE UNCHANGED vars
  <2>1. /\ script' = script /\ headers' = headers /\ complete' = complete /\ hungup' = hungup
        /\ stream' = stream /\ state' = state /\ read_buffer' = read_buffer
        /\ bytes_to_read' = bytes_to_read /\ header' = header /\ delivered' = delivered
        /\ closed' = closed
    BY <1>8, Zenon DEF vars, reader, writer
  <2>2. Current' = Current
    BY <2>1, Zenon DEF Current
  <2>3. Types' /\ Counts'
    BY <2>1, Zenon DEF ReaderInv, Types, Counts
  <2>4. Reading'
    BY <2>1, <2>2, Zenon DEF ReaderInv, Reading
  <2>5. Connected' /\ UNCHANGED Stream!vars
    BY <2>1, <2>2, Zenon DEF ReaderInv, Connected, Stream!vars
  <2> QED
    BY <2>3, <2>4, <2>5, Zenon DEF ReaderInv
<1> QED
  BY <1>1, <1>2, <1>3, <1>4, <1>5, <1>6, <1>7, <1>8, Zenon DEF Next, Read, Write

LEMMA Invariance == Spec => []ReaderInv
<1>1. ReaderInv /\ [Next]_vars => ReaderInv'
  BY ReaderInvStep, Zenon
<1> QED
  BY ReaderInvInit, <1>1, PTL DEF Spec

LEMMA InvTypes == ReaderInv => TypeOK
<1> SUFFICES ASSUME ReaderInv PROVE TypeOK
  OBVIOUS
<1>1. Types /\ Reading /\ Counts
  BY Zenon DEF ReaderInv
<1>2. PICK m, message : m = Current /\ message = script[m]
  BY Zenon
<1>3. m <= headers =>
        /\ Len(HeaderBytes(message)) \in Nat /\ Len(MessageBytes(message)) \in Nat
        /\ Decoded(message.header).topic \in [1 .. TopicSize -> Byte]
        /\ Decoded(message.header).reply_topic \in [1 .. TopicSize -> Byte]
  <2> SUFFICES ASSUME m <= headers
               PROVE  /\ Len(HeaderBytes(message)) \in Nat /\ Len(MessageBytes(message)) \in Nat
                      /\ Decoded(message.header).topic \in [1 .. TopicSize -> Byte]
                      /\ Decoded(message.header).reply_topic \in [1 .. TopicSize -> Byte]
    OBVIOUS
  <2>1. script \in Scripts /\ headers \in 0 .. Len(script) /\ Len(script) \in Nat
        /\ delivered \in Seq(Nat) /\ m = Len(delivered) + 1
    BY <1>1, <1>2, ScriptLength, Zenon DEF Types, Current
  <2>2. m \in 1 .. Len(script)
    BY <2>1
  <2>3. MessageBytes(message) \in Seq(Byte) /\ Len(HeaderBytes(message)) \in Nat
    BY <1>2, <2>1, <2>2, MessageOf, Zenon
  <2>4. Len(MessageBytes(message)) \in Nat
    BY <2>3
  <2>5. Sendable(m, message)
    <3>1. script \in Seq(Range(script)) /\ \A n \in DOMAIN script : Sendable(n, script[n])
      BY <2>1, ScriptsAssumption, Zenon
    <3>2. m \in DOMAIN script
      BY <2>2, <3>1
    <3> QED
      BY <1>2, <3>1, <3>2, Zenon
  <2>6. /\ Decoded(message.header).topic = message.header.topic
        /\ Decoded(message.header).reply_topic = message.header.reply_topic
        /\ message.header.topic \in [1 .. TopicSize -> Byte]
        /\ message.header.reply_topic \in [1 .. TopicSize -> Byte]
    BY <2>5, EncodedHeader, Zenon
  <2> QED
    BY <2>3, <2>4, <2>6, Zenon
<1>4. m <= headers \/ m > headers
  BY <1>1, <1>2, ScriptLength DEF Types, Current
<1>5. state # "ReadHeaderPreamble" => m <= headers
  BY <1>1, <1>2, <1>4, Zenon DEF Reading
<1>6. bytes_to_read \in Nat
  <2>1. Preamble \in Nat
    BY PreambleAssumption
  <2> QED
    BY <1>1, <1>2, <1>3, <1>5, <2>1, Zenon DEF Types, Reading
<1>7. header.topic \in [1 .. TopicSize -> Byte] /\ header.reply_topic \in [1 .. TopicSize -> Byte]
  <2>1. InitHeader.topic = Cleared /\ InitHeader.reply_topic = Cleared
    BY DEF InitHeader
  <2>2. Cleared \in [1 .. TopicSize -> Byte]
    BY DEF Cleared, Byte
  <2> QED
    BY <1>1, <1>2, <1>3, <1>5, <2>1, <2>2, Zenon DEF Types, Reading
<1> QED
  BY <1>1, <1>6, <1>7, Zenon DEF Types, TypeOK

LEMMA InvIsInStep == ReaderInv => InStep
<1> SUFFICES ASSUME ReaderInv PROVE InStep
  OBVIOUS
<1>1. PICK m, next, head, old : m = Current /\ next = script[m] /\ head = HeaderBytes(next)
                                /\ old = read_buffer
  BY Zenon
<1>2. script \in Scripts /\ headers \in 0 .. Len(script) /\ Len(script) \in Nat /\ old \in Seq(Byte)
      /\ delivered \in Seq(Nat) /\ m = Len(delivered) + 1
      /\ state \in {"ReadHeaderPreamble", "ReadHeader", "ReadPayload"}
  BY <1>1, ScriptLength, Zenon DEF ReaderInv, Types, Current
<1>3. m \in Nat /\ m >= 1 /\ Len(old) \in Nat
  BY <1>2
<1>4. Reading
  BY Zenon DEF ReaderInv
<1>5. m <= headers => m \in 1 .. Len(script)
  BY <1>2, <1>3
<1>6. m <= headers =>
        /\ MessageBytes(next) \in Seq(Byte) /\ head \in Seq(Byte) /\ next.payload \in Seq(Byte)
        /\ MessageBytes(next) = head \o next.payload
        /\ Len(MessageBytes(next)) = Len(head) + Len(next.payload)
  BY <1>1, <1>2, <1>5, MessageOf, Zenon DEF MessageBytes
<1>7. ~(m <= headers) => m > headers
  BY <1>2, <1>3
<1>8. Len(old) <= bytes_to_read
  <2>1. CASE state = "ReadHeaderPreamble"
    <3>1. bytes_to_read = 4 /\ Len(old) < 4
      BY <1>1, <1>4, <2>1, PreambleAssumption, Zenon DEF Reading
    <3> QED
      BY <1>3, <3>1
  <2>2. CASE state # "ReadHeaderPreamble"
    <3>1. m <= headers
      BY <1>1, <1>4, <1>7, <2>2, Zenon DEF Reading
    <3>2. Len(head) \in Nat /\ Len(MessageBytes(next)) \in Nat
      BY <1>6, <3>1
    <3>3. \/ bytes_to_read = Len(head) /\ Len(old) < bytes_to_read
          \/ bytes_to_read = Len(MessageBytes(next)) /\ Len(old) <= bytes_to_read
      BY <1>1, <1>2, <1>4, <2>2, Zenon DEF Reading
    <3> QED
      BY <1>3, <3>2, <3>3
  <2> QED
    BY <2>1, <2>2
<1>9. ASSUME old # <<>>
      PROVE  /\ old = SubSeq(head \o next.payload, 1, Len(old))
             /\ bytes_to_read = CASE state = "ReadHeaderPreamble" -> Preamble
                                  [] state = "ReadHeader" -> Len(head)
                                  [] state = "ReadPayload" -> Len(head) + Len(next.payload)
  <2>1. m <= headers
    BY <1>1, <1>4, <1>7, <1>9, Zenon DEF Reading
  <2>2. Beginning(old, next)
    BY <1>1, <1>4, <2>1, Zenon DEF Reading
  <2>3. PICK body \in Seq(Byte) : body = MessageBytes(next) /\ Len(body) = Len(head) + Len(next.payload)
                                  /\ body = head \o next.payload
    BY <1>6, <2>1, Zenon
  <2>4. Len(old) <= Len(body) /\ \A i \in 1 .. Len(old) : old[i] = body[i]
    BY <2>2, <2>3, Zenon DEF Beginning
  <2>5. old = SubSeq(body, 1, Len(old))
    <3>1. SubSeq(body, 1, Len(old)) \in Seq(Byte)
      BY <1>3, <2>4
    <3>2. Len(SubSeq(body, 1, Len(old))) = Len(old)
      BY <1>3, <2>4
    <3>3. \A i \in 1 .. Len(old) : SubSeq(body, 1, Len(old))[i] = body[i]
      BY <1>3, <2>4
    <3> QED
      BY <1>2, <2>4, <3>1, <3>2, <3>3
  <2>6. /\ state = "ReadHeaderPreamble" => bytes_to_read = Preamble
        /\ state = "ReadHeader" => bytes_to_read = Len(head)
        /\ state = "ReadPayload" => bytes_to_read = Len(head) + Len(next.payload)
    BY <1>1, <1>4, <2>3, Zenon DEF Reading
  <2>7. bytes_to_read = CASE state = "ReadHeaderPreamble" -> Preamble
                          [] state = "ReadHeader" -> Len(head)
                          [] state = "ReadPayload" -> Len(head) + Len(next.payload)
    BY <1>2, <2>6
  <2> QED
    BY <2>3, <2>5, <2>7, Zenon
<1> QED
  BY <1>1, <1>8, <1>9, Zenon DEF InStep, bytes_read, Current, HeaderBytes

LEMMA InvHeadersSurvive == ReaderInv => HeadersSurvive
<1> SUFFICES ASSUME ReaderInv, state = "ReadPayload"
             PROVE  LET sent == script[Len(delivered) + 1].header IN
                    /\ CString(header.topic) = CString(sent.topic)
                    /\ CString(header.reply_topic) = CString(sent.reply_topic)
                    /\ header.header_length = HeaderLength(sent)
                    /\ [header EXCEPT !.header_length = 0, !.topic = sent.topic,
                                      !.reply_topic = sent.reply_topic] = sent
  BY Zenon DEF HeadersSurvive
<1>1. PICK m, message, sent : m = Current /\ message = script[m] /\ sent = message.header
  BY Zenon
<1>2. header = Decoded(sent)
  BY <1>1, Zenon DEF ReaderInv, Reading
<1>3. script \in Scripts /\ headers \in 0 .. Len(script) /\ Len(script) \in Nat
      /\ delivered \in Seq(Nat) /\ m = Len(delivered) + 1
  BY <1>1, ScriptLength, Zenon DEF ReaderInv, Types, Current
<1>4. m \in 1 .. Len(script)
  <2>1. "ReadPayload" # "ReadHeaderPreamble"
    OBVIOUS
  <2>2. ~(m > headers)
    BY <1>1, <2>1, Zenon DEF ReaderInv, Reading
  <2> QED
    BY <1>3, <2>2
<1>5. Sendable(m, message)
  <2>1. script \in Seq(Range(script)) /\ \A n \in DOMAIN script : Sendable(n, script[n])
    BY <1>3, ScriptsAssumption, Zenon
  <2>2. m \in DOMAIN script
    BY <1>4, <2>1
  <2> QED
    BY <1>1, <2>1, <2>2, Zenon
<1>6. /\ Decoded(sent).header_length = HeaderLength(sent)
      /\ Decoded(sent).topic = sent.topic /\ Decoded(sent).reply_topic = sent.reply_topic
      /\ [Decoded(sent) EXCEPT !.header_length = 0, !.topic = sent.topic,
                               !.reply_topic = sent.reply_topic] = sent
  BY <1>1, <1>5, EncodedHeader, ZenonT(60)
<1> QED
  BY <1>1, <1>2, <1>3, <1>6, Zenon

(***************************************************************************)
(* The theorems.                                                           *)
(***************************************************************************)

(* Every variable keeps its type, the arrays of the reused header always   *)
(* hold TopicSize bytes (rtrouted.c:41-58).                                *)
THEOREM ReaderTypes == Spec => []TypeOK
BY Invariance, InvTypes, PTL

(* The buffer holds the beginning of the next message and nothing else, and*)
(* never more is asked for than is missing of it, whatever the messages and*)
(* wherever recv cuts them (rtrouted.c:338-402).                           *)
THEOREM ReaderInStep == Spec => []InStep
BY Invariance, InvIsInStep, PTL

(* A message is dispatched by the header its sender encoded, whatever its  *)
(* topics and whatever was decoded into the same arrays before             *)
(* (rtMessageHeader.c:39-72).                                              *)
THEOREM ReaderHeadersSurvive == Spec => []HeadersSurvive
BY Invariance, InvHeadersSurvive, PTL

(* The bytes the reader takes are the messages the client wrote: each is   *)
(* delivered once, whole, in order, and none before its last byte is       *)
(* written (rtrouted.c:387-397).                                           *)
THEOREM ReaderImplementsStream == Spec => Stream!Safe
<1>1. Init => Stream!Init
  BY Zenon DEF Init, Stream!Init
<1>2. ReaderInv /\ [Next]_vars => [Stream!Next]_(Stream!vars)
  BY ReaderInvStep, Zenon
<1> QED
  BY Invariance, <1>1, <1>2, PTL DEF Spec, Stream!Safe
=============================================================================
