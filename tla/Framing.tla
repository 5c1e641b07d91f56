------------------------------ MODULE Framing ------------------------------
(***************************************************************************)
(* How a message becomes bytes and a stream of bytes becomes messages      *)
(* again: the frame and its checksum (message.py), the packet around it    *)
(* (packet.py), padding and whitening (crypto.py), and the readers of a    *)
(* TCP connection at both ends, which learn from the first block of a      *)
(* packet how long it is.                                                  *)
(*                                                                         *)
(* AES is not modelled: a byte of ciphertext is the block it belongs to    *)
(* and its place there, and only a whole block in order can be decrypted.  *)
(* Both ends have one key: how they come to it is OmniLink's subject.      *)
(***************************************************************************)
EXTENDS EventWords

CONSTANTS
    Traffic,     \* what is written: for each direction a set of items
    MaxItems     \* bound on the items of a connection

ASSUME MaxItemsAssumption == MaxItems \in Nat \ {0}

PacketType == [NoMessage |-> 0, ClientRequestNewSession |-> 1,
               ControllerAckNewSession |-> 2, ClientRequestSecureSession |-> 3,
               ControllerAckSecureSession |-> 4, ClientSessionTerminated |-> 5,
               ControllerSessionTerminated |-> 6, ControllerCannotStartNewSession |-> 7,
               OmniLinkMessage |-> 16, OmniLinkUnencryptedMessage |-> 17,
               OmniLink2Message |-> 32, OmniLink2UnencryptedMessage |-> 33]

Raised == [raised |-> TRUE]
Refused(x) == "raised" \in DOMAIN x

----------------------------------------------------------------------------
(* Messages.                                                               *)

START_CHAR_V2 == 33
START_CHAR_V1_ADDRESSABLE == 65
START_CHAR_V1_UNADDRESSED == 90
MAX_DATA == 255

TwoBytes == 0..Word(255, 255)

\* Exclusive or, four bits at a time.
NibbleXor == [x \in 0..15 |-> [y \in 0..15 |->
    LET bit(weight) == IF (x \div weight) % 2 = (y \div weight) % 2 THEN 0 ELSE weight
    IN bit(1) + bit(2) + bit(4) + bit(8)]]
ByteXor(x, y) ==
    16 * NibbleXor[x \div 16][y \div 16] + NibbleXor[x % 16][y % 16]
Xor(x, y) == Word(ByteXor(HighByte(x), HighByte(y)), ByteXor(LowByte(x), LowByte(y)))

(* Eight shifts of the low byte, and the rest of the checksum moved down:  *)
(* the shifts are linear, so this is what the loop over the bits computes. *)
(* A long sequence is taken in halves.                                     *)
CrcPoly == 40961
CrcShifts[n \in 0..8, crc \in TwoBytes] ==
    IF n = 0 THEN crc
    ELSE CrcShifts[n - 1, IF crc % 2 = 1 THEN Xor(crc \div 2, CrcPoly) ELSE crc \div 2]
CrcTable == [byte \in Byte |-> CrcShifts[8, byte]]
CrcAfter[crc \in TwoBytes, bytes \in Seq(Byte)] ==
    LET half == Len(bytes) \div 2 IN
    CASE bytes = <<>>    -> crc
      [] Len(bytes) = 1  -> Xor(HighByte(crc), CrcTable[ByteXor(LowByte(crc), bytes[1])])
      [] OTHER -> CrcAfter[CrcAfter[crc, SubSeq(bytes, 1, half)],
                           SubSeq(bytes, half + 1, Len(bytes))]
Crc16Modbus(bytes) == CrcAfter[0, bytes] % 65536

Message(start, serial, bytes) ==
    IF start \notin {START_CHAR_V2, START_CHAR_V1_ADDRESSABLE, START_CHAR_V1_UNADDRESSED}
       \/ Len(bytes) \notin 1..MAX_DATA
    THEN Raised
    ELSE [start_char |-> start, serial_address |-> serial, data |-> bytes]

EncodeMessage(message) ==
    LET body == <<Len(message.data)>> \o message.data
        crc == Crc16Modbus(body)
    IN <<message.start_char>>
       \o (IF message.start_char = START_CHAR_V1_ADDRESSABLE
           THEN <<LowByte(message.serial_address)>> ELSE <<>>)
       \o body \o <<LowByte(crc), HighByte(crc)>>

(* Zeros after the checksum are the padding.                               *)
DecodeMessage[buf \in Seq(Byte)] ==
    LET header == IF buf[1] = START_CHAR_V1_ADDRESSABLE THEN 3 ELSE 2
        length == buf[header]
        end == header + length
        bytes == SubSeq(buf, header + 1, end)
    IN IF Len(buf) < 4 \/ Len(buf) < end + 2 THEN Raised
       ELSE IF Word(buf[end + 2], buf[end + 1]) # Crc16Modbus(<<length>> \o bytes) THEN Raised
       ELSE Message(buf[1], IF header = 3 THEN buf[2] ELSE 0, bytes)

----------------------------------------------------------------------------
(* Encryption.  The first two bytes of every block are whitened with the   *)
(* sequence number of the packet.                                          *)

BLOCK_SIZE == 16
Clear(byte) == [byte |-> byte, block |-> <<>>, at |-> 0]
CipherByte(block, at) == [byte |-> 255, block |-> block, at |-> at]
Garbled == [n \in 1..BLOCK_SIZE |-> 255]

Padding(length) == (BLOCK_SIZE - (length % BLOCK_SIZE)) % BLOCK_SIZE
Padded(plaintext) == plaintext \o [n \in 1..Padding(Len(plaintext)) |-> 0]
WhitenBlock(block, seq) ==
    [block EXCEPT ![1] = ByteXor(@, HighByte(seq)), ![2] = ByteXor(@, LowByte(seq))]

\* The place of byte n in its block, and that block.
PlaceOf(n) == ((n - 1) % BLOCK_SIZE) + 1
BlockOf(bytes, n) == [at \in 1..BLOCK_SIZE |-> bytes[n - PlaceOf(n) + at]]

EncryptMessagePayload(plaintext, seq) ==
    LET padded == Padded(plaintext)
    IN [n \in 1..Len(padded) |->
            CipherByte(WhitenBlock(BlockOf(padded, n), seq), PlaceOf(n))]

DecryptBlock(cipher) ==
    IF cipher[1].block # <<>>
       /\ cipher = [at \in 1..BLOCK_SIZE |-> CipherByte(cipher[1].block, at)]
    THEN cipher[1].block ELSE Garbled
DecryptMessagePayload(cipher, seq) ==
    [n \in 1..Len(cipher) |-> WhitenBlock(DecryptBlock(BlockOf(cipher, n)), seq)[PlaceOf(n)]]

----------------------------------------------------------------------------
(* Packets.                                                                *)

MAX_DATA_BYTES == 250
HEADER_BYTES == 4

PacketOfFullBlocks(seq, type, bytes) ==
    IF seq \notin TwoBytes \/ Len(bytes) >= BLOCK_SIZE * (MAX_DATA_BYTES \div BLOCK_SIZE)
    THEN Raised ELSE [seq |-> seq, type |-> type, data |-> bytes]
Packet(seq, type, bytes) ==
    IF seq \notin TwoBytes \/ Len(bytes) > MAX_DATA_BYTES THEN Raised
    ELSE [seq |-> seq, type |-> type, data |-> bytes]
EncodePacket(packet) ==
    [n \in 1..4 |-> Clear(<<HighByte(packet.seq), LowByte(packet.seq), packet.type, 0>>[n])]
    \o packet.data

Encrypted == {PacketType.OmniLink2Message, PacketType.ControllerAckSecureSession,
              PacketType.ClientRequestSecureSession}

Carriers == {PacketType.OmniLink2Message, PacketType.OmniLink2UnencryptedMessage}

(* An item is a packet before it is encrypted, with the events it stands   *)
(* for: `data` is the data of a message, or the contents of a control      *)
(* packet.                                                                 *)
PacketOf(item) ==
    LET message == Message(START_CHAR_V2, 0, item.data)
        Sent(plaintext) == Packet(item.seq, item.type,
                                  IF item.type \in Encrypted
                                  THEN EncryptMessagePayload(plaintext, item.seq)
                                  ELSE [n \in DOMAIN plaintext |-> Clear(plaintext[n])])
    IN IF item.type \notin Carriers THEN Sent(item.data)
       ELSE IF Refused(message) THEN Raised ELSE Sent(EncodeMessage(message))

\* The first part that a reader reads after the header of each type.
Parts(type) ==
    CASE type \in {PacketType.ControllerAckSecureSession,
                   PacketType.ClientRequestSecureSession}    -> <<"body", BLOCK_SIZE>>
      [] type = PacketType.OmniLink2Message                  -> <<"first", BLOCK_SIZE>>
      [] type = PacketType.ControllerAckNewSession           -> <<"body", 7>>
      [] type = PacketType.OmniLink2UnencryptedMessage       -> <<"head", 5>>
      [] OTHER                                               -> <<"body", 0>>

(* The types that the reader at each end goes on with.  The mock panel     *)
(* also takes version 1 messages over TCP, which no client of the package  *)
(* sends there; they are left out.                                         *)
Expects ==
    [to_client |-> {PacketType.NoMessage, PacketType.ControllerAckNewSession,
                    PacketType.ControllerAckSecureSession,
                    PacketType.ControllerSessionTerminated,
                    PacketType.ControllerCannotStartNewSession,
                    PacketType.ClientSessionTerminated, PacketType.OmniLink2Message,
                    PacketType.OmniLink2UnencryptedMessage},
     to_panel |-> {PacketType.ClientRequestNewSession,
                   PacketType.ClientRequestSecureSession,
                   PacketType.ClientSessionTerminated, PacketType.OmniLink2Message}]

(* The events that a message stands for.                                   *)
SYSTEM_EVENTS == 55
EventsIn(bytes) ==
    IF bytes[1] = SYSTEM_EVENTS
    THEN EventStream(<<Reply("SystemEvents", Tail(bytes))>>) ELSE <<>>

(* Each end writes what the other expects: messages with an opcode, their  *)
(* events and a checksum that is a number (which Crc16Modbus computes by    *)
(* recursion on the bytes), and control packets of one size.               *)
ASSUME TrafficAssumption ==
    /\ DOMAIN Traffic \subseteq DOMAIN Expects
    /\ \A d \in DOMAIN Traffic : \A item \in Traffic[d] :
          /\ item.seq \in TwoBytes /\ item.type \in Expects[d] /\ item.data \in Seq(Byte)
          /\ item = [seq |-> item.seq, type |-> item.type, data |-> item.data,
                     events |-> IF item.type \in Carriers THEN EventsIn(item.data) ELSE <<>>]
          /\ IF item.type \in Carriers
             THEN /\ item.data # <<>>
                  /\ Len(item.data) \in Byte =>
                        Crc16Modbus(<<Len(item.data)>> \o item.data) \in TwoBytes
             ELSE Len(item.data) = CASE item.type \in Encrypted -> BLOCK_SIZE
                                     [] item.type = PacketType.ControllerAckNewSession -> 7
                                     [] OTHER -> 0

Items == UNION {Traffic[d] : d \in DOMAIN Traffic}
PacketFor == [item \in Items |-> PacketOf(item)]

----------------------------------------------------------------------------
(* A connection.  One end writes, the other reads what it expects next.    *)

VARIABLES
    direction,   \* who writes: "to_client" or "to_panel"
    asked,       \* history: the items that were to be written
    written,     \* history: those of them that became packets
    closed,      \* the writer has closed its end
    stream,      \* the bytes on the way
    lost,        \* the network broke the connection
    stage,       \* what the reader waits for: so many bytes of a part of a packet
    taken,       \* the items that were read
    reader       \* the reader: reading, ended, or gone at a header it cannot go on with

vars == <<direction, asked, written, closed, stream, lost, stage, taken, reader>>

AtHeader == [part |-> "header", need |-> HEADER_BYTES, seq |-> 0, type |-> 0, got |-> <<>>]

Init ==
    /\ direction \in DOMAIN Traffic
    /\ asked = <<>> /\ written = <<>> /\ closed = FALSE
    /\ stream = <<>> /\ lost = FALSE
    /\ stage = AtHeader /\ taken = <<>> /\ reader = "reading"

\* The client's goodbye, after which it writes no more.
Goodbye(d, type) == d = "to_panel" /\ type = PacketType.ClientSessionTerminated

(* A message that does not fit raises before anything is written: in the   *)
(* caller of request(), with the connection as it was, or in the panel's   *)
(* handler of a request, which closes the connection on its way out (an    *)
(* event's own task only logs it).                                         *)
Closes(item) == IF Refused(PacketFor[item]) THEN direction = "to_client" /\ item.seq # 0
                                            ELSE Goodbye(direction, item.type)

Write ==
    /\ Len(asked) < MaxItems /\ ~closed /\ ~lost
    /\ \E item \in Traffic[direction] :
          LET packet == PacketFor[item] IN
          /\ asked' = Append(asked, item)
          /\ closed' = Closes(item)
          /\ IF Refused(packet) THEN UNCHANGED <<written, stream>>
             ELSE written' = Append(written, item) /\ stream' = stream \o EncodePacket(packet)
    /\ UNCHANGED <<direction, lost, stage, taken, reader>>

\* Some of what is on the way no longer arrives.
Breaks ==
    /\ ~lost
    /\ lost' = TRUE
    /\ \E left \in {0, Len(stream) \div 2, Len(stream)} : stream' = SubSeq(stream, 1, left)
    /\ UNCHANGED <<direction, asked, written, closed, stage, taken, reader>>

(* The bytes that follow the first block of a message, of which four more  *)
(* than its length frame the data; each end has its own formula.           *)
ExtraBytesOfData(length) ==
    LET remaining == length - BLOCK_SIZE
    IN IF remaining =< 0 THEN 0 ELSE remaining + Padding(remaining)
ExtraBytes(length) ==
    LET remaining == length + 4 - BLOCK_SIZE
    IN IF remaining =< 0 THEN 0 ELSE remaining + Padding(remaining)
PanelExtraBytes(length) ==
    LET needed == IF length + 4 > BLOCK_SIZE THEN length + 4 - BLOCK_SIZE ELSE 0
    IN needed + Padding(needed)
ExtraOf(length) == IF direction = "to_client" THEN ExtraBytes(length)
                                              ELSE PanelExtraBytes(length)

(* What the other end makes of a packet: its message, and the events of    *)
(* it; or an error.  A message is decrypted whether or not it was          *)
(* encrypted: one in the clear is no whole number of blocks, which raises, *)
(* or decrypts to noise, which the checksum refuses.                       *)
Decryptable(bytes) ==
    Len(bytes) % BLOCK_SIZE = 0 /\ \A n \in DOMAIN bytes : bytes[n].block # <<>>
Item(seq, type, bytes) ==
    LET decrypted == DecryptMessagePayload(bytes, seq)
        clear == [n \in DOMAIN bytes |-> bytes[n].byte]
        message == DecodeMessage[decrypted]
    IN IF type \notin Carriers
       THEN [seq |-> seq, type |-> type, events |-> <<>>,
             data |-> IF type \in Encrypted THEN decrypted ELSE clear]
       ELSE IF ~Decryptable(bytes) \/ Refused(message) THEN Raised
       ELSE [seq |-> seq, type |-> type, data |-> message.data,
             events |-> EventsIn(message.data)]

\* The reader has all of a packet, or of one part of it.
Dispatches(seq, type, bytes) ==
    /\ \E item \in {Item(seq, type, bytes)} : taken' = Append(taken, item)
    /\ stage' = AtHeader
Awaits(part, need, seq, type, got) ==
    stage' = [part |-> part, need |-> need, seq |-> seq, type |-> type, got |-> got]
             /\ UNCHANGED taken

Read(part) ==
    /\ reader = "reading" /\ stage.part = part /\ Len(stream) >= stage.need
    /\ stream' = SubSeq(stream, stage.need + 1, Len(stream))
    /\ UNCHANGED <<direction, asked, written, closed, lost>>
Got == SubSeq(stream, 1, stage.need)

ReadHeader ==
    LET seq == Word(Got[1].byte, Got[2].byte)
        type == Got[3].byte
        next == Parts(type)
    IN /\ Read("header")
       /\ IF type \notin Expects[direction] \/ (Got[4].byte # 0 /\ direction = "to_client")
          THEN reader' = "crashed" /\ UNCHANGED <<stage, taken>>
          ELSE /\ IF next[2] = 0 THEN Dispatches(seq, type, <<>>)
                                 ELSE Awaits(next[1], next[2], seq, type, <<>>)
               /\ reader' = IF Goodbye(direction, type) THEN "ended" ELSE reader

\* The second byte of the first block is the length of the message.
ReadFirstBlock ==
    LET extra == ExtraOf(DecryptMessagePayload(Got, stage.seq)[2]) IN
    /\ Read("first")
    /\ IF extra = 0 THEN Dispatches(stage.seq, stage.type, Got)
       ELSE Awaits("body", extra, stage.seq, stage.type, Got)
    /\ UNCHANGED reader

ReadClearHead ==
    LET length == Got[2].byte IN
    /\ Read("head")
    /\ IF length =< 1 THEN Dispatches(stage.seq, stage.type, Got)
       ELSE Awaits("body", length - 1, stage.seq, stage.type, Got)
    /\ UNCHANGED reader

ReadBody ==
    /\ Read("body")
    /\ Dispatches(stage.seq, stage.type, stage.got \o Got)
    /\ UNCHANGED reader

ReadsEnd ==
    /\ reader = "reading" /\ Len(stream) < stage.need /\ (lost \/ closed)
    /\ reader' = "ended"
    /\ UNCHANGED <<direction, asked, written, closed, stream, lost, stage, taken>>

Reads == ReadHeader \/ ReadFirstBlock \/ ReadClearHead \/ ReadBody \/ ReadsEnd
Next == Write \/ Breaks \/ Reads

(* The reader's task runs as long as it can go on.  Every step of it takes *)
(* bytes of a stream that is finite, or is its last: that it does not stop *)
(* while it can go on is its weak fairness, stated without ENABLED.        *)
CanRead == reader = "reading" /\ (Len(stream) >= stage.need \/ lost \/ closed)
Spec == Init /\ [][Next]_vars /\ []<>(~CanRead)

----------------------------------------------------------------------------
(* Properties.                                                             *)

\* What the reader can make of an item: of a message in the clear, nothing.
Made(item) == IF item.type = PacketType.OmniLink2UnencryptedMessage THEN Raised ELSE item

(* The reader never loses its place: it takes the packets that were        *)
(* written off the stream, in order, and makes of each encrypted message   *)
(* and each control packet its number, its data and the events it stands   *)
(* for, wherever the blocks of a message end and whatever the packets      *)
(* around it are.  A message in the clear is passed over in its place: the *)
(* client decrypts it, and gets an error (connection.py 489-499).          *)
ReadsWhatWasWritten ==
    /\ Len(taken) =< Len(written) /\ \A n \in 1..Len(taken) : taken[n] = Made(written[n])
    /\ reader # "crashed"

(* Whatever fits is written, and read to its last byte, unless the network *)
(* breaks the connection: a message with at most 235 bytes of payload.  A  *)
(* message that does not fit takes nothing with it that was written, or is *)
(* written later.                                                          *)
Fits(item) == Len(item.data) =< 236
DeliversAll ==
    \A n \in 1..MaxItems :
        Len(SelectSeq(asked, Fits)) >= n ~> Len(taken) >= n \/ lost
=============================================================================
