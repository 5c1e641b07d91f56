---------------------------- MODULE FramingProofs ----------------------------
(***************************************************************************)
(* That the reader of a TCP connection never loses its place, for any      *)
(* messages and any number of them.                                        *)
(***************************************************************************)
EXTENDS FramingInvariant, SequenceTheorems, TLAPS

-----------------------------------------------------------------------------
(* Whitening.                                                              *)

Bit(x, w) == (x \div w) % 2

\* Exclusive or with the same nibble twice changes nothing.
LEMMA NibbleTwice ==
    ASSUME NEW x \in 0..15, NEW y \in 0..15
    PROVE  NibbleXor[x][y] \in 0..15 /\ NibbleXor[NibbleXor[x][y]][y] = x
<1> DEFINE bit(w) == IF (x \div w) % 2 = (y \div w) % 2 THEN 0 ELSE w
           z == NibbleXor[x][y]
           back(w) == IF (z \div w) % 2 = (y \div w) % 2 THEN 0 ELSE w
<1>1. z = bit(1) + bit(2) + bit(4) + bit(8)
  BY DEF NibbleXor
<1>2. z \in 0..15
  BY <1>1
<1>3. NibbleXor[z][y] = back(1) + back(2) + back(4) + back(8)
  BY <1>2 DEF NibbleXor
<1>4. \A v \in 0..15 : v = Bit(v, 1) + 2 * Bit(v, 2) + 4 * Bit(v, 4) + 8 * Bit(v, 8)
  BY DEF Bit
<1>5. /\ Bit(z, 1) = IF Bit(x, 1) = Bit(y, 1) THEN 0 ELSE 1
      /\ Bit(z, 2) = IF Bit(x, 2) = Bit(y, 2) THEN 0 ELSE 1
      /\ Bit(z, 4) = IF Bit(x, 4) = Bit(y, 4) THEN 0 ELSE 1
      /\ Bit(z, 8) = IF Bit(x, 8) = Bit(y, 8) THEN 0 ELSE 1
  BY <1>1 DEF Bit
<1>6. \A v \in 0..15, w \in {1, 2, 4, 8} : Bit(v, w) \in {0, 1}
  BY DEF Bit
<1>7. /\ back(1) = Bit(x, 1) /\ back(2) = 2 * Bit(x, 2)
      /\ back(4) = 4 * Bit(x, 4) /\ back(8) = 8 * Bit(x, 8)
  <2>1. /\ back(1) = IF Bit(z, 1) = Bit(y, 1) THEN 0 ELSE 1
        /\ back(2) = IF Bit(z, 2) = Bit(y, 2) THEN 0 ELSE 2
        /\ back(4) = IF Bit(z, 4) = Bit(y, 4) THEN 0 ELSE 4
        /\ back(8) = IF Bit(z, 8) = Bit(y, 8) THEN 0 ELSE 8
    BY DEF Bit
  <2>. HIDE DEF back, z
  <2>. QED BY <1>5, <1>6, <2>1
<1>. HIDE DEF back, z
<1>8. NibbleXor[z][y] = x
  BY <1>3, <1>4, <1>7
<1>. QED BY <1>2, <1>8 DEF z

\* Nor with the same byte.
LEMMA ByteTwice ==
    ASSUME NEW x \in Byte, NEW y \in Byte
    PROVE  ByteXor(x, y) \in Byte /\ ByteXor(ByteXor(x, y), y) = x
<1> DEFINE h == NibbleXor[x \div 16][y \div 16]
           l == NibbleXor[x % 16][y % 16]
<1>1. x \div 16 \in 0..15 /\ x % 16 \in 0..15 /\ y \div 16 \in 0..15 /\ y % 16 \in 0..15
  BY DEF Byte
<1>2. /\ h \in 0..15 /\ l \in 0..15
      /\ NibbleXor[h][y \div 16] = x \div 16 /\ NibbleXor[l][y % 16] = x % 16
  BY <1>1, NibbleTwice
<1>3. ByteXor(x, y) = 16 * h + l
  BY DEF ByteXor
<1>. HIDE DEF h, l
<1>4. (16 * h + l) \div 16 = h /\ (16 * h + l) % 16 = l /\ 16 * h + l \in Byte
  BY <1>2 DEF Byte
<1>5. ByteXor(ByteXor(x, y), y) = 16 * (x \div 16) + (x % 16)
  BY <1>2, <1>3, <1>4 DEF ByteXor
<1>. QED BY <1>3, <1>4, <1>5 DEF Byte

\* The ranges, as the provers can use them.
LEMMA Ranges ==
    /\ \A b : b \in Byte <=> b \in Int /\ 0 <= b /\ b <= 255
    /\ \A w : w \in TwoBytes <=> w \in Int /\ 0 <= w /\ w <= 65535
<1>1. Word(255, 255) = 65535
  BY DEF Word
<1>. QED BY <1>1 DEF Byte, TwoBytes

\* A number of two bytes is its two bytes.
LEMMA WordOfBytes ==
    ASSUME NEW w \in TwoBytes
    PROVE  HighByte(w) \in Byte /\ LowByte(w) \in Byte /\ Word(HighByte(w), LowByte(w)) = w
<1>1. w \in Int /\ 0 <= w /\ w <= 65535
  BY Ranges
<1>2. /\ 0 <= w \div 256 /\ w \div 256 <= 255 /\ 0 <= w % 256 /\ w % 256 <= 255
      /\ w = 256 * (w \div 256) + (w % 256) /\ w \div 256 \in Int /\ w % 256 \in Int
  BY <1>1
<1>3. (w \div 256) % 256 = w \div 256
  BY <1>2
<1>. QED BY <1>2, <1>3, Ranges DEF HighByte, LowByte, Word

\* Whitening a block twice gives it back.
LEMMA WhitenTwice ==
    ASSUME NEW block \in [1..BLOCK_SIZE -> Byte], NEW seq \in TwoBytes
    PROVE  /\ WhitenBlock(block, seq) \in [1..BLOCK_SIZE -> Byte]
           /\ WhitenBlock(WhitenBlock(block, seq), seq) = block
<1> DEFINE once == WhitenBlock(block, seq)
<1>1. HighByte(seq) \in Byte /\ LowByte(seq) \in Byte
  BY WordOfBytes
<1>2. once = [block EXCEPT ![1] = ByteXor(@, HighByte(seq)), ![2] = ByteXor(@, LowByte(seq))]
  BY DEF WhitenBlock
<1>3. 1 \in 1..BLOCK_SIZE /\ 2 \in 1..BLOCK_SIZE
  BY DEF BLOCK_SIZE
<1>4. /\ once \in [1..BLOCK_SIZE -> Byte]
      /\ once[1] = ByteXor(block[1], HighByte(seq)) /\ once[2] = ByteXor(block[2], LowByte(seq))
      /\ \A at \in 1..BLOCK_SIZE : at \notin {1, 2} => once[at] = block[at]
  <2>1. block[1] \in Byte /\ block[2] \in Byte
    BY <1>3
  <2>2. ByteXor(block[1], HighByte(seq)) \in Byte /\ ByteXor(block[2], LowByte(seq)) \in Byte
    BY <1>1, <2>1, ByteTwice
  <2>. QED BY <1>2, <1>3, <2>2
<1>. HIDE DEF once
<1>5. /\ ByteXor(once[1], HighByte(seq)) = block[1]
      /\ ByteXor(once[2], LowByte(seq)) = block[2]
  BY <1>1, <1>3, <1>4, ByteTwice
<1>6. WhitenBlock(once, seq)
        = [once EXCEPT ![1] = ByteXor(@, HighByte(seq)), ![2] = ByteXor(@, LowByte(seq))]
  BY DEF WhitenBlock
<1>7. WhitenBlock(once, seq) = block
  <2>1. block[1] \in Byte /\ block[2] \in Byte
    BY <1>3
  <2>2. WhitenBlock(once, seq) = [once EXCEPT ![1] = block[1], ![2] = block[2]]
    BY <1>3, <1>4, <1>5, <1>6
  <2>3. WhitenBlock(once, seq) \in [1..BLOCK_SIZE -> Byte]
    BY <1>3, <1>4, <2>1, <2>2
  <2>4. \A at \in 1..BLOCK_SIZE : WhitenBlock(once, seq)[at] = block[at]
    BY <1>3, <1>4, <2>2
  <2>5. /\ block = [at \in 1..BLOCK_SIZE |-> block[at]]
        /\ WhitenBlock(once, seq) = [at \in 1..BLOCK_SIZE |-> WhitenBlock(once, seq)[at]]
    BY <2>3
  <2>. QED BY <2>4, <2>5, Zenon
<1>. QED BY <1>4, <1>7 DEF once

-----------------------------------------------------------------------------
(* Blocks and padding.                                                     *)

\* Padding fills the last block.
LEMMA PaddingFills ==
    ASSUME NEW n \in Nat
    PROVE  Padding(n) \in 0..15 /\ (n + Padding(n)) % BLOCK_SIZE = 0
BY DEF Padding, BLOCK_SIZE

\* A padded text is whole blocks that begin with the text.
LEMMA PaddedIs ==
    ASSUME NEW text \in Seq(Byte)
    PROVE  /\ Padded(text) \in Seq(Byte)
           /\ Len(Padded(text)) = Len(text) + Padding(Len(text))
           /\ \A i \in 1..Len(text) : Padded(text)[i] = text[i]
<1> DEFINE zeros == [n \in 1..Padding(Len(text)) |-> 0]
<1>1. Padding(Len(text)) \in Nat
  BY PaddingFills
<1>2. zeros \in Seq(Byte) /\ Len(zeros) = Padding(Len(text))
  BY <1>1 DEF Byte
<1>. HIDE DEF zeros
<1>3. Padded(text) = text \o zeros
  BY DEF Padded, zeros
<1>4. Len(text) \in Nat
  BY LenProperties
<1>. QED BY <1>1, <1>2, <1>3, <1>4

\* Where byte n lies in its block.
LEMMA Places ==
    ASSUME NEW n \in Nat \ {0}
    PROVE  /\ PlaceOf(n) \in 1..BLOCK_SIZE
           /\ n - PlaceOf(n) \in Nat /\ (n - PlaceOf(n)) % BLOCK_SIZE = 0
           /\ \A at \in 1..BLOCK_SIZE : PlaceOf(n - PlaceOf(n) + at) = at
           /\ \A length \in Nat :
                length % BLOCK_SIZE = 0 /\ n <= length => n - PlaceOf(n) + BLOCK_SIZE <= length
<1> DEFINE q == (n - 1) \div 16
<1>1. q \in Nat /\ n - PlaceOf(n) = 16 * q /\ PlaceOf(n) \in 1..16
  BY DEF PlaceOf, BLOCK_SIZE
<1>2. \A at \in 1..16 : (16 * q + at - 1) % 16 = at - 1
  BY <1>1
<1>3. \A length \in Nat : length % 16 = 0 /\ n <= length => 16 * q + 16 <= length
  BY <1>1
<1>. HIDE DEF q
<1>4. \A at \in 1..16 : PlaceOf(16 * q + at) = at
  BY <1>1, <1>2 DEF PlaceOf, BLOCK_SIZE
<1>. QED BY <1>1, <1>3, <1>4 DEF BLOCK_SIZE

\* Decrypting the first blocks of a ciphertext gives the first of the text.
LEMMA DecryptsBack ==
    ASSUME NEW text \in Seq(Byte), NEW seq \in TwoBytes, NEW cipher \in Seq(WireByte),
           Len(cipher) % BLOCK_SIZE = 0,
           Len(cipher) <= Len(EncryptMessagePayload(text, seq)),
           \A i \in 1..Len(cipher) : cipher[i] = EncryptMessagePayload(text, seq)[i]
    PROVE  DecryptMessagePayload(cipher, seq) = [n \in 1..Len(cipher) |-> Padded(text)[n]]
<1> DEFINE padded == Padded(text)
           whole == EncryptMessagePayload(text, seq)
<1>0. BLOCK_SIZE \in Nat
  BY DEF BLOCK_SIZE
<1>1. padded \in Seq(Byte) /\ Len(padded) \in Nat /\ Len(cipher) \in Nat
  BY PaddedIs, LenProperties
<1>2. whole = [n \in 1..Len(padded) |->
                   CipherByte(WhitenBlock(BlockOf(padded, n), seq), PlaceOf(n))]
  BY DEF EncryptMessagePayload
<1>3. Len(whole) = Len(padded) /\ Len(cipher) <= Len(padded)
  BY <1>1, <1>2
<1>. HIDE DEF padded, whole
<1>4. ASSUME NEW n \in 1..Len(cipher)
      PROVE  WhitenBlock(DecryptBlock(BlockOf(cipher, n)), seq)[PlaceOf(n)] = padded[n]
  <2> DEFINE before == n - PlaceOf(n)
             block == BlockOf(padded, n)
             white == WhitenBlock(block, seq)
             taken16 == BlockOf(cipher, n)
  <2>1. /\ before \in Nat /\ before % BLOCK_SIZE = 0 /\ PlaceOf(n) \in 1..BLOCK_SIZE
        /\ before + BLOCK_SIZE <= Len(cipher)
        /\ \A at \in 1..BLOCK_SIZE : PlaceOf(before + at) = at
    BY <1>1, Places
  <2>2. before + PlaceOf(n) = n
    BY <1>1, <2>1
  <2>. HIDE DEF before
  <2>3. block = [at \in 1..BLOCK_SIZE |-> padded[before + at]]
    BY DEF BlockOf, before
  <2>4. \A at \in 1..BLOCK_SIZE : before + at \in 1..Len(cipher) /\ before + at \in 1..Len(padded)
    BY <1>0, <1>1, <1>3, <2>1
  <2>5. block \in [1..BLOCK_SIZE -> Byte]
    BY <1>1, <2>3, <2>4, ElementOfSeq
  <2>6. white \in [1..BLOCK_SIZE -> Byte] /\ WhitenBlock(white, seq) = block
    BY <2>5, WhitenTwice
  <2>7. \A at \in 1..BLOCK_SIZE : cipher[before + at] = CipherByte(white, at)
    <3>1. TAKE at \in 1..BLOCK_SIZE
    <3>2. BlockOf(padded, before + at) = block
      <4>1. (before + at) - PlaceOf(before + at) = before
        BY <2>1
      <4>. QED BY <4>1, <2>3 DEF BlockOf
    <3>3. cipher[before + at] = whole[before + at]
      BY <2>4 DEF whole
    <3>4. whole[before + at]
            = CipherByte(WhitenBlock(BlockOf(padded, before + at), seq), PlaceOf(before + at))
      BY <1>2, <2>4
    <3>. QED BY <2>1, <3>2, <3>3, <3>4
  <2>8. taken16 = [at \in 1..BLOCK_SIZE |-> CipherByte(white, at)]
    BY <2>7 DEF BlockOf, before
  <2>9. taken16[1].block = white
    BY <2>8 DEF CipherByte, BLOCK_SIZE
  <2>10. white # <<>>
    <3>1. 1 \in DOMAIN white
      BY <2>6 DEF BLOCK_SIZE
    <3>2. DOMAIN <<>> = {}
      OBVIOUS
    <3>. QED BY <3>1, <3>2, Zenon
  <2>. HIDE DEF taken16, white, block
  <2>11. DecryptBlock(taken16) = white
    BY <2>8, <2>9, <2>10 DEF DecryptBlock
  <2>12. block[PlaceOf(n)] = padded[n]
    BY <2>1, <2>2, <2>3
  <2>. QED BY <2>6, <2>11, <2>12 DEF taken16
<1>. QED BY <1>4 DEF DecryptMessagePayload, padded


\* A ciphertext is bytes for the wire, as many as the padded text.
LEMMA Encrypts ==
    ASSUME NEW text \in Seq(Byte), NEW seq \in TwoBytes
    PROVE  /\ EncryptMessagePayload(text, seq) \in Seq(WireByte)
           /\ Len(EncryptMessagePayload(text, seq)) = Len(text) + Padding(Len(text))
<1> DEFINE padded == Padded(text)
<1>0. BLOCK_SIZE \in Nat
  BY DEF BLOCK_SIZE
<1>1. /\ padded \in Seq(Byte) /\ Len(padded) \in Nat /\ Len(text) \in Nat
      /\ Len(padded) = Len(text) + Padding(Len(text))
  BY PaddedIs, LenProperties
<1>2. Len(padded) % BLOCK_SIZE = 0
  BY <1>1, PaddingFills
<1>. HIDE DEF padded
<1>3. ASSUME NEW n \in 1..Len(padded)
      PROVE  CipherByte(WhitenBlock(BlockOf(padded, n), seq), PlaceOf(n)) \in WireByte
  <2>1. /\ n - PlaceOf(n) \in Nat /\ PlaceOf(n) \in 1..BLOCK_SIZE
        /\ n - PlaceOf(n) + BLOCK_SIZE <= Len(padded)
    BY <1>1, <1>2, Places
  <2>2. \A at \in 1..BLOCK_SIZE : n - PlaceOf(n) + at \in 1..Len(padded)
    BY <1>0, <1>1, <2>1
  <2>3. BlockOf(padded, n) \in [1..BLOCK_SIZE -> Byte]
    BY <1>1, <2>2, ElementOfSeq DEF BlockOf
  <2>4. WhitenBlock(BlockOf(padded, n), seq) \in [1..BLOCK_SIZE -> Byte]
    BY <2>3, WhitenTwice
  <2>5. WhitenBlock(BlockOf(padded, n), seq) \in Seq(Byte)
    BY <1>0, <2>4, SeqDef
  <2>6. 255 \in Byte
    BY Ranges
  <2>7. PlaceOf(n) \in 0..BLOCK_SIZE
    BY <1>0, <2>1
  <2>. QED BY <2>5, <2>6, <2>7 DEF CipherByte, WireByte
<1>4. EncryptMessagePayload(text, seq)
        = [n \in 1..Len(padded) |->
               CipherByte(WhitenBlock(BlockOf(padded, n), seq), PlaceOf(n))]
  BY DEF EncryptMessagePayload, padded
<1>. QED BY <1>1, <1>3, <1>4

-----------------------------------------------------------------------------
(* Messages.                                                               *)

\* What the provers need to know of the codes.
LEMMA Codes ==
    /\ PacketType.NoMessage = 0 /\ PacketType.ClientRequestNewSession = 1
    /\ PacketType.ControllerAckNewSession = 2 /\ PacketType.ClientRequestSecureSession = 3
    /\ PacketType.ControllerAckSecureSession = 4 /\ PacketType.ClientSessionTerminated = 5
    /\ PacketType.ControllerSessionTerminated = 6
    /\ PacketType.ControllerCannotStartNewSession = 7
    /\ PacketType.OmniLink2Message = 32 /\ PacketType.OmniLink2UnencryptedMessage = 33
BY DEF PacketType

\* A message is framed in four bytes more than its data, the length second.
LEMMA Frames ==
    ASSUME NEW bytes \in Seq(Byte), bytes # <<>>, Len(bytes) \in Byte,
           Crc16Modbus(<<Len(bytes)>> \o bytes) \in TwoBytes
    PROVE  LET frame == EncodeMessage(Message(START_CHAR_V2, 0, bytes)) IN
           /\ ~Refused(Message(START_CHAR_V2, 0, bytes))
           /\ frame \in Seq(Byte) /\ Len(frame) = Len(bytes) + 4
           /\ frame[2] = Len(bytes)
           /\ \A buf \in Seq(Byte) :
                 /\ Len(buf) >= Len(frame)
                 /\ \A i \in 1..Len(frame) : buf[i] = frame[i]
                 => DecodeMessage[buf] = Message(START_CHAR_V2, 0, bytes)
<1> DEFINE n == Len(bytes)
           crc == Crc16Modbus(<<n>> \o bytes)
           message == Message(START_CHAR_V2, 0, bytes)
           frame == EncodeMessage(message)
<1>1. n \in Nat /\ 1 <= n /\ n <= 255
  BY EmptySeq, Ranges
<1>2. LowByte(crc) \in Byte /\ HighByte(crc) \in Byte /\ Word(HighByte(crc), LowByte(crc)) = crc
  BY WordOfBytes
<1>3. message = [start_char |-> 33, serial_address |-> 0, data |-> bytes]
  <2>1. MAX_DATA \in Int /\ MAX_DATA >= 255
    BY DEF MAX_DATA
  <2>2. n \in 1..MAX_DATA
    BY <1>1, <2>1
  <2>. QED BY <2>2 DEF Message, START_CHAR_V2
<1>4. ~Refused(message)
  BY <1>3 DEF Refused
<1>. HIDE DEF message
<1>5. frame = <<33>> \o <<>> \o (<<n>> \o bytes) \o <<LowByte(crc), HighByte(crc)>>
  <2>1. message.start_char = 33 /\ message.data = bytes
    BY <1>3
  <2>2. frame = <<message.start_char>> \o <<>> \o (<<Len(message.data)>> \o message.data)
                  \o <<LowByte(Crc16Modbus(<<Len(message.data)>> \o message.data)),
                       HighByte(Crc16Modbus(<<Len(message.data)>> \o message.data))>>
    BY <2>1 DEF EncodeMessage, START_CHAR_V1_ADDRESSABLE
  <2>. QED BY <2>1, <2>2
<1>. HIDE DEF crc, frame
<1>6. 33 \in Byte /\ n \in Byte
  BY <1>1, Ranges
<1>7. /\ frame \in Seq(Byte) /\ Len(frame) = n + 4
      /\ frame[1] = 33 /\ frame[2] = n
      /\ \A i \in 1..n : frame[i + 2] = bytes[i]
      /\ frame[n + 3] = LowByte(crc) /\ frame[n + 4] = HighByte(crc)
  BY <1>1, <1>2, <1>5, <1>6
<1>8. ASSUME NEW buf \in Seq(Byte), Len(buf) >= Len(frame),
             \A i \in 1..Len(frame) : buf[i] = frame[i]
      PROVE  DecodeMessage[buf] = message
  <2>1. buf[1] = 33 /\ buf[2] = n /\ buf[n + 3] = LowByte(crc) /\ buf[n + 4] = HighByte(crc)
        /\ \A i \in 1..n : buf[i + 2] = bytes[i]
    <3>1. /\ 1 \in 1..n + 4 /\ 2 \in 1..n + 4 /\ n + 3 \in 1..n + 4 /\ n + 4 \in 1..n + 4
          /\ \A i \in 1..n : i + 2 \in 1..n + 4
      BY <1>1
    <3>2. \A i \in 1..n + 4 : buf[i] = frame[i]
      BY <1>7, <1>8
    <3>3. \A i \in 1..n : buf[i + 2] = bytes[i]
      BY <1>7, <3>1, <3>2, Zenon
    <3>. QED BY <1>7, <3>1, <3>2, <3>3, Zenon
  <2>2. SubSeq(buf, 3, n + 2) = bytes
    BY <1>1, <1>7, <1>8, <2>1
  <2>3. Len(buf) \in Nat /\ Len(buf) >= n + 4
    BY <1>7, <1>8
  <2>4. DecodeMessage[buf]
          = IF Len(buf) < 4 \/ Len(buf) < 2 + n + 2 THEN Raised
            ELSE IF Word(buf[2 + n + 2], buf[2 + n + 1]) # Crc16Modbus(<<n>> \o SubSeq(buf, 3, 2 + n))
                 THEN Raised
                 ELSE Message(buf[1], 0, SubSeq(buf, 3, 2 + n))
    BY <2>1, SMTT(30) DEF DecodeMessage, START_CHAR_V1_ADDRESSABLE
  <2>5. 2 + n = n + 2 /\ 2 + n + 1 = n + 3 /\ 2 + n + 2 = n + 4
    BY <1>1
  <2>6. Word(buf[n + 4], buf[n + 3]) = Crc16Modbus(<<n>> \o bytes)
    BY <1>2, <2>1 DEF crc
  <2>7. DecodeMessage[buf]
          = IF Len(buf) < 4 \/ Len(buf) < n + 4 THEN Raised
            ELSE IF Word(buf[n + 4], buf[n + 3]) # Crc16Modbus(<<n>> \o SubSeq(buf, 3, n + 2))
                 THEN Raised
                 ELSE Message(buf[1], 0, SubSeq(buf, 3, n + 2))
    BY <2>4, <2>5, Zenon
  <2>8. ~(Len(buf) < 4) /\ ~(Len(buf) < n + 4)
    BY <1>1, <2>3
  <2>9. DecodeMessage[buf] = Message(buf[1], 0, bytes)
    BY <2>2, <2>6, <2>7, <2>8, Zenon
  <2>. QED BY <2>1, <2>9 DEF START_CHAR_V2, message
<1>. QED BY <1>4, <1>7, <1>8 DEF message, frame


-----------------------------------------------------------------------------
(* Packets.                                                                *)

\* What is in a packet before it is encrypted.
PlainOf(item) ==
    IF item.type \in Carriers THEN EncodeMessage(Message(START_CHAR_V2, 0, item.data))
    ELSE item.data

\* A message that is not refused has a length of one byte.
LEMMA MessageFits ==
    ASSUME NEW bytes \in Seq(Byte), ~Refused(Message(START_CHAR_V2, 0, bytes))
    PROVE  Len(bytes) \in Byte
<1>1. Refused(Raised)
  BY DEF Refused, Raised
<1>2. Len(bytes) \in 1..MAX_DATA
  BY <1>1 DEF Message
<1>3. MAX_DATA \in Int /\ MAX_DATA <= 255
  BY DEF MAX_DATA
<1>. QED BY <1>2, <1>3, Ranges

\* The packet of an item, when there is one.
LEMMA PacketIs ==
    ASSUME NEW d \in DOMAIN Traffic, NEW item \in Traffic[d], ~Refused(PacketFor[item])
    PROVE  /\ item.type \in Carriers => ~Refused(Message(START_CHAR_V2, 0, item.data))
           /\ PacketFor[item]
                = [seq |-> item.seq, type |-> item.type,
                   data |-> IF item.type \in Encrypted
                            THEN EncryptMessagePayload(PlainOf(item), item.seq)
                            ELSE [n \in DOMAIN PlainOf(item) |-> Clear(PlainOf(item)[n])]]
<1> DEFINE Data == IF item.type \in Encrypted
                   THEN EncryptMessagePayload(PlainOf(item), item.seq)
                   ELSE [n \in DOMAIN PlainOf(item) |-> Clear(PlainOf(item)[n])]
<1>1. Refused(Raised)
  BY DEF Refused, Raised
<1>2. PacketFor[item] = PacketOf(item)
  BY DEF PacketFor, Items
<1>3. PacketOf(item)
        = IF item.type \notin Carriers THEN Packet(item.seq, item.type, Data)
          ELSE IF Refused(Message(START_CHAR_V2, 0, item.data)) THEN Raised
          ELSE Packet(item.seq, item.type, Data)
  BY DEF PacketOf, PlainOf
<1>. HIDE DEF Data
<1>4. item.type \in Carriers => ~Refused(Message(START_CHAR_V2, 0, item.data))
  BY <1>1, <1>2, <1>3
<1>5. PacketFor[item] = Packet(item.seq, item.type, Data)
  BY <1>2, <1>3, <1>4
<1>6. PacketFor[item] = [seq |-> item.seq, type |-> item.type, data |-> Data]
  BY <1>1, <1>5 DEF Packet
<1>. QED BY <1>4, <1>6 DEF Data

\* What TrafficAssumption says of one item, and of its frame if it has one.
LEMMA ItemIs ==
    ASSUME NEW d \in DOMAIN Traffic, NEW item \in Traffic[d]
    PROVE  /\ item.seq \in TwoBytes /\ item.type \in Expects[d] /\ item.data \in Seq(Byte)
           /\ item.type \in Carriers =>
                /\ item = [seq |-> item.seq, type |-> item.type, data |-> item.data,
                            events |-> EventsIn(item.data)]
                /\ item.data # <<>>
                /\ Len(item.data) \in Byte =>
                     Crc16Modbus(<<Len(item.data)>> \o item.data) \in TwoBytes
           /\ item.type \notin Carriers =>
                /\ item = [seq |-> item.seq, type |-> item.type, data |-> item.data,
                            events |-> <<>>]
                /\ item.type \in Encrypted => Len(item.data) = BLOCK_SIZE
                /\ item.type = PacketType.ControllerAckNewSession /\ item.type \notin Encrypted
                     => Len(item.data) = 7
                /\ item.type # PacketType.ControllerAckNewSession /\ item.type \notin Encrypted
                     => Len(item.data) = 0
<1>1. /\ item.seq \in TwoBytes /\ item.type \in Expects[d] /\ item.data \in Seq(Byte)
      /\ item = [seq |-> item.seq, type |-> item.type, data |-> item.data,
                 events |-> IF item.type \in Carriers THEN EventsIn(item.data) ELSE <<>>]
      /\ item.type \in Carriers =>
           /\ item.data # <<>>
           /\ Len(item.data) \in Byte =>
                Crc16Modbus(<<Len(item.data)>> \o item.data) \in TwoBytes
  BY TrafficAssumption
<1>2. item.type \notin Carriers =>
        Len(item.data) = CASE item.type \in Encrypted -> BLOCK_SIZE
                           [] item.type = PacketType.ControllerAckNewSession -> 7
                           [] OTHER -> 0
  BY TrafficAssumption
<1>3. PacketType.ControllerAckNewSession \notin Encrypted
  BY Codes DEF Encrypted
<1>4. CASE item.type \in Carriers
  BY <1>1, <1>4
<1>5. CASE item.type \notin Carriers
  <2>1. item = [seq |-> item.seq, type |-> item.type, data |-> item.data, events |-> <<>>]
    BY <1>1, <1>5
  <2>. QED BY <1>1, <1>2, <1>3, <1>5, <2>1
<1>. QED BY <1>4, <1>5

\* A plaintext is bytes; a message's is its frame.
LEMMA PlainIs ==
    ASSUME NEW d \in DOMAIN Traffic, NEW item \in Traffic[d], ~Refused(PacketFor[item])
    PROVE  /\ PlainOf(item) \in Seq(Byte)
           /\ item.type \in Carriers =>
                /\ Len(PlainOf(item)) = Len(item.data) + 4 /\ PlainOf(item)[2] = Len(item.data)
                /\ Len(item.data) \in Byte /\ Len(item.data) >= 1
                /\ \A buf \in Seq(Byte) :
                      /\ Len(buf) >= Len(item.data) + 4
                      /\ \A i \in 1..Len(item.data) + 4 : buf[i] = PlainOf(item)[i]
                      => DecodeMessage[buf] = Message(START_CHAR_V2, 0, item.data)
<1>1. CASE item.type \notin Carriers
  BY <1>1, ItemIs DEF PlainOf
<1>2. CASE item.type \in Carriers
  <2>1. /\ item.data \in Seq(Byte) /\ item.data # <<>>
        /\ Len(item.data) \in Byte
        /\ Crc16Modbus(<<Len(item.data)>> \o item.data) \in TwoBytes
    BY <1>2, ItemIs, PacketIs, MessageFits
  <2>2. PlainOf(item) = EncodeMessage(Message(START_CHAR_V2, 0, item.data))
    BY <1>2 DEF PlainOf
  <2>3. /\ PlainOf(item) \in Seq(Byte) /\ Len(PlainOf(item)) = Len(item.data) + 4
        /\ PlainOf(item)[2] = Len(item.data)
        /\ \A buf \in Seq(Byte) :
             /\ Len(buf) >= Len(PlainOf(item))
             /\ \A i \in 1..Len(PlainOf(item)) : buf[i] = PlainOf(item)[i]
             => DecodeMessage[buf] = Message(START_CHAR_V2, 0, item.data)
    BY <2>1, <2>2, Frames
  <2>4. Len(item.data) >= 1
    BY <2>1, EmptySeq
  <2>. QED BY <2>1, <2>3, <2>4
<1>. QED BY <1>1, <1>2


\* The sequence that is a number of bytes long and has these bytes.
LEMMA SameBytes ==
    ASSUME NEW s \in Seq(Byte), NEW t, t = [n \in 1..Len(s) |-> s[n]]
    PROVE  t = s
BY LenProperties

\* The data of a packet: how long it is, and the plaintext that is read from it.
LEMMA DataIs ==
    ASSUME NEW d \in DOMAIN Traffic, NEW item \in Traffic[d], ~Refused(PacketFor[item])
    PROVE  LET data == PacketFor[item].data
               text == PlainOf(item) IN
           /\ data \in Seq(WireByte)
           /\ item.type \in Encrypted =>
                /\ Len(data) = Len(text) + Padding(Len(text))
                /\ \A cipher \in Seq(WireByte) :
                      /\ Len(cipher) % BLOCK_SIZE = 0 /\ Len(cipher) <= Len(data)
                      /\ \A i \in 1..Len(cipher) : cipher[i] = data[i]
                      => DecryptMessagePayload(cipher, item.seq)
                           = [n \in 1..Len(cipher) |-> Padded(text)[n]]
           /\ item.type \notin Encrypted =>
                /\ Len(data) = Len(text)
                /\ \A n \in 1..Len(text) : data[n] = Clear(text[n])
<1> DEFINE data == PacketFor[item].data
           text == PlainOf(item)
<1>1. text \in Seq(Byte) /\ item.seq \in TwoBytes
  BY PlainIs, ItemIs
<1>2. data = IF item.type \in Encrypted THEN EncryptMessagePayload(text, item.seq)
             ELSE [n \in DOMAIN text |-> Clear(text[n])]
  <2>1. PacketFor[item] = [seq |-> item.seq, type |-> item.type,
                           data |-> IF item.type \in Encrypted
                                    THEN EncryptMessagePayload(text, item.seq)
                                    ELSE [n \in DOMAIN text |-> Clear(text[n])]]
    BY PacketIs
  <2>. QED BY <2>1
<1>. HIDE DEF data, text
<1>3. CASE item.type \in Encrypted
  <2>1. data = EncryptMessagePayload(text, item.seq)
    BY <1>2, <1>3
  <2>2. data \in Seq(WireByte) /\ Len(data) = Len(text) + Padding(Len(text))
    BY <1>1, <2>1, Encrypts
  <2>3. ASSUME NEW cipher \in Seq(WireByte),
               Len(cipher) % BLOCK_SIZE = 0, Len(cipher) <= Len(data),
               \A i \in 1..Len(cipher) : cipher[i] = data[i]
        PROVE  DecryptMessagePayload(cipher, item.seq) = [n \in 1..Len(cipher) |-> Padded(text)[n]]
    <3> DEFINE seq == item.seq
    <3>1. /\ seq \in TwoBytes /\ text \in Seq(Byte)
          /\ Len(cipher) <= Len(EncryptMessagePayload(text, seq))
          /\ \A i \in 1..Len(cipher) : cipher[i] = EncryptMessagePayload(text, seq)[i]
      BY <1>1, <2>1, <2>3
    <3>. HIDE DEF seq
    <3>2. DecryptMessagePayload(cipher, seq) = [n \in 1..Len(cipher) |-> Padded(text)[n]]
      BY <2>3, <3>1, DecryptsBack
    <3>. QED BY <3>2 DEF seq
  <2>. QED BY <1>3, <2>2, <2>3 DEF data, text
<1>4. CASE item.type \notin Encrypted
  <2>1. DOMAIN text = 1..Len(text) /\ Len(text) \in Nat /\ \A n \in 1..Len(text) : text[n] \in Byte
    BY <1>1, LenProperties, ElementOfSeq
  <2>2. data = [n \in 1..Len(text) |-> Clear(text[n])]
    BY <1>2, <1>4, <2>1
  <2>3. \A b \in Byte : Clear(b) \in WireByte
    <3>1. <<>> \in Seq(Byte) /\ 0 \in 0..BLOCK_SIZE
      BY EmptySeq DEF BLOCK_SIZE
    <3>. QED BY <3>1 DEF Clear, WireByte
  <2>. QED BY <1>4, <2>1, <2>2, <2>3 DEF data, text
<1>. QED BY <1>3, <1>4

\* What was encrypted can be decrypted.
LEMMA CipherIs ==
    ASSUME NEW d \in DOMAIN Traffic, NEW item \in Traffic[d], ~Refused(PacketFor[item]),
           item.type \in Encrypted
    PROVE  Decryptable(PacketFor[item].data)
<1> DEFINE text == PlainOf(item)
           padded == Padded(text)
           seq == item.seq
           data == EncryptMessagePayload(text, seq)
<1>1. text \in Seq(Byte) /\ Len(text) \in Nat /\ seq \in TwoBytes
  BY PlainIs, ItemIs, LenProperties
<1>2. PacketFor[item].data = data
  <2>1. PacketFor[item] = [seq |-> item.seq, type |-> item.type,
                           data |-> IF item.type \in Encrypted
                                    THEN EncryptMessagePayload(text, item.seq)
                                    ELSE [n \in DOMAIN text |-> Clear(text[n])]]
    BY PacketIs
  <2>. QED BY <2>1
<1>. HIDE DEF text, seq
<1>3. /\ padded \in Seq(Byte) /\ Len(padded) \in Nat
      /\ Len(padded) = Len(text) + Padding(Len(text)) /\ Len(padded) % BLOCK_SIZE = 0
  BY <1>1, PaddedIs, PaddingFills, LenProperties
<1>. HIDE DEF padded
<1>4. data = [n \in 1..Len(padded) |->
                  CipherByte(WhitenBlock(BlockOf(padded, n), seq), PlaceOf(n))]
  BY DEF EncryptMessagePayload, padded
<1>. HIDE DEF data
<1>5. ASSUME NEW n \in 1..Len(padded)
      PROVE  data[n].block # <<>>
  <2>1. data[n].block = WhitenBlock(BlockOf(padded, n), seq)
    BY <1>4 DEF CipherByte
  <2>2. 1 \in DOMAIN WhitenBlock(BlockOf(padded, n), seq)
    <3>1. DOMAIN WhitenBlock(BlockOf(padded, n), seq) = 1..BLOCK_SIZE
      BY DEF WhitenBlock, BlockOf
    <3>. QED BY <3>1 DEF BLOCK_SIZE
  <2>3. DOMAIN <<>> = {}
    OBVIOUS
  <2>. QED BY <2>1, <2>2, <2>3, Zenon
<1>6. Len(data) = Len(padded) /\ DOMAIN data = 1..Len(padded)
  BY <1>3, <1>4
<1>. QED BY <1>2, <1>3, <1>5, <1>6 DEF Decryptable

\* Of a packet the reader makes what can be made of its item.
LEMMA PacketReads ==
    ASSUME NEW d \in DOMAIN Traffic, NEW item \in Traffic[d], ~Refused(PacketFor[item])
    PROVE  Item(item.seq, item.type, PacketFor[item].data) = Made(item)
<1> DEFINE data == PacketFor[item].data
           text == PlainOf(item)
           plain == IF item.type \in Encrypted THEN DecryptMessagePayload(data, item.seq)
                    ELSE [n \in DOMAIN data |-> data[n].byte]
<1>1. text \in Seq(Byte) /\ Len(text) \in Nat /\ data \in Seq(WireByte) /\ Len(data) \in Nat
  BY PlainIs, DataIs, LenProperties
<1>2. /\ plain \in Seq(Byte) /\ Len(plain) >= Len(text)
      /\ \A i \in 1..Len(text) : plain[i] = text[i]
      /\ item.type \notin Carriers => plain = text
  <2>1. CASE item.type \in Encrypted
    <3>1. Len(data) = Len(text) + Padding(Len(text)) /\ Padding(Len(text)) \in Nat
      BY <1>1, <2>1, DataIs, PaddingFills
    <3>2. Len(data) % BLOCK_SIZE = 0
      BY <1>1, <3>1, PaddingFills
    <3>3. plain = [n \in 1..Len(data) |-> Padded(text)[n]]
      <4>1. \A cipher \in Seq(WireByte) :
              /\ Len(cipher) % BLOCK_SIZE = 0 /\ Len(cipher) <= Len(data)
              /\ \A i \in 1..Len(cipher) : cipher[i] = data[i]
              => DecryptMessagePayload(cipher, item.seq) = [n \in 1..Len(cipher) |-> Padded(text)[n]]
        BY <2>1, DataIs
      <4>2. plain = DecryptMessagePayload(data, item.seq)
        BY <2>1
      <4>. HIDE DEF plain, data, text
      <4>. QED BY <1>1, <3>2, <4>1, <4>2
    <3>4. /\ Padded(text) \in Seq(Byte) /\ Len(Padded(text)) = Len(data)
          /\ \A i \in 1..Len(text) : Padded(text)[i] = text[i]
      BY <1>1, <3>1, PaddedIs
    <3>. HIDE DEF plain, data, text
    <3>5. plain = Padded(text)
      BY <3>3, <3>4, SameBytes
    <3>6. item.type \notin Carriers => Len(text) = BLOCK_SIZE
      BY <2>1, ItemIs DEF PlainOf, text
    <3>7. Padding(BLOCK_SIZE) = 0
      BY DEF Padding, BLOCK_SIZE
    <3>8. item.type \notin Carriers => plain = text
      BY <1>1, <3>1, <3>4, <3>5, <3>6, <3>7, SeqEqual
    <3>. QED BY <1>1, <3>1, <3>4, <3>5, <3>8
  <2>2. CASE item.type \notin Encrypted
    <3>1. Len(data) = Len(text) /\ \A n \in 1..Len(text) : data[n] = Clear(text[n])
      BY <2>2, DataIs
    <3>2. plain = [n \in DOMAIN data |-> data[n].byte] /\ DOMAIN data = 1..Len(data)
      BY <1>1, <2>2, LenProperties
    <3>. HIDE DEF plain, data, text
    <3>3. plain = [n \in 1..Len(text) |-> text[n]]
      BY <3>1, <3>2 DEF Clear
    <3>4. plain = text
      BY <1>1, <3>3, SameBytes
    <3>. QED BY <1>1, <3>4
  <2>. QED BY <2>1, <2>2
<1>3. /\ item.type \notin Carriers => Item(item.seq, item.type, data)
            = [seq |-> item.seq, type |-> item.type, data |-> plain, events |-> <<>>]
      /\ item.type \in Carriers /\ ~Decryptable(data) => Item(item.seq, item.type, data) = Raised
      /\ item.type \in Carriers /\ Decryptable(data) /\ item.type \in Encrypted
           => Item(item.seq, item.type, data)
                = IF Refused(DecodeMessage[plain]) THEN Raised
                  ELSE [seq |-> item.seq, type |-> item.type, data |-> DecodeMessage[plain].data,
                        events |-> EventsIn(DecodeMessage[plain].data)]
  BY DEF Item
<1>. HIDE DEF plain, data, text
<1>4. CASE item.type \notin Carriers
  <2>1. Made(item) = item
    BY <1>4 DEF Made, Carriers
  <2>. QED BY <1>2, <1>3, <1>4, <2>1, ItemIs DEF PlainOf, data, text
<1>5. CASE item.type = PacketType.OmniLink2Message
  <2>1. DecodeMessage[plain] = Message(START_CHAR_V2, 0, item.data)
    BY <1>2, <1>5, PlainIs DEF text, Carriers
  <2>2. ~Refused(Message(START_CHAR_V2, 0, item.data))
    BY <1>5, PacketIs DEF Carriers
  <2>3. Refused(Raised)
    BY DEF Refused, Raised
  <2>4. Message(START_CHAR_V2, 0, item.data).data = item.data
    BY <2>2, <2>3 DEF Message
  <2>5. item.type \in Carriers /\ item.type \in Encrypted
    BY <1>5 DEF Carriers, Encrypted
  <2>6. Decryptable(data)
    BY <2>5, CipherIs DEF data
  <2>7. Made(item) = item
    BY <1>5, Codes DEF Made
  <2>. QED BY <1>3, <2>1, <2>2, <2>4, <2>5, <2>6, <2>7, ItemIs DEF data
<1>6. CASE item.type = PacketType.OmniLink2UnencryptedMessage
  <2>1. item.type \in Carriers /\ item.type \notin Encrypted
    BY <1>6, Codes DEF Carriers, Encrypted
  <2>2. Len(text) >= 1 /\ Len(data) = Len(text) /\ data[1] = Clear(text[1])
    <3>1. Len(text) >= 1
      BY <2>1, PlainIs, LenProperties DEF text
    <3>. QED BY <1>1, <2>1, <3>1, DataIs DEF data, text
  <2>3. 1 \in DOMAIN data /\ data[1].block = <<>>
    BY <1>1, <2>2, LenProperties DEF Clear
  <2>4. ~Decryptable(data)
    BY <2>3 DEF Decryptable
  <2>. QED BY <1>3, <1>6, <2>1, <2>4 DEF Made, data
<1>. QED BY <1>4, <1>5, <1>6 DEF data, Carriers


\* What both readers take for the rest of a message is the rest of its blocks.
LEMMA ExtraIsRest ==
    ASSUME NEW n \in Nat, n >= 1
    PROVE  /\ ExtraBytes(n) \in Nat /\ PanelExtraBytes(n) = ExtraBytes(n)
           /\ n + 4 + Padding(n + 4) = BLOCK_SIZE + ExtraBytes(n)
BY DEF ExtraBytes, PanelExtraBytes, Padding, BLOCK_SIZE

\* How the parts of a packet that the reader waits for fit the packet.
LEMMA PartsFit ==
    ASSUME NEW d \in DOMAIN Traffic, NEW item \in Traffic[d], ~Refused(PacketFor[item])
    PROVE  LET data == PacketFor[item].data
               n == Len(item.data) IN
           /\ item.type \notin Carriers => Parts(item.type) = <<"body", Len(data)>>
           /\ item.type = PacketType.OmniLink2Message =>
                /\ Parts(item.type) = <<"first", BLOCK_SIZE>>
                /\ ExtraBytes(n) \in Nat /\ PanelExtraBytes(n) = ExtraBytes(n)
                /\ Len(data) = BLOCK_SIZE + ExtraBytes(n)
                /\ \A first \in Seq(WireByte) :
                      /\ Len(first) = BLOCK_SIZE
                      /\ \A i \in 1..BLOCK_SIZE : first[i] = data[i]
                      => DecryptMessagePayload(first, item.seq)[2] = n
           /\ item.type = PacketType.OmniLink2UnencryptedMessage =>
                /\ Parts(item.type) = <<"head", 5>>
                /\ n \in Nat /\ n >= 1 /\ Len(data) = n + 4
                /\ data[2].byte = n
<1> DEFINE data == PacketFor[item].data
           text == PlainOf(item)
           n == Len(item.data)
<1>1. /\ text \in Seq(Byte) /\ Len(text) \in Nat /\ data \in Seq(WireByte) /\ Len(data) \in Nat
      /\ item.data \in Seq(Byte) /\ n \in Nat
  BY PlainIs, DataIs, ItemIs, LenProperties
<1>2. ASSUME item.type \notin Carriers
      PROVE  Parts(item.type) = <<"body", Len(data)>>
  <2>1. text = item.data
    BY <1>2 DEF PlainOf
  <2>2. CASE item.type \in Encrypted
    <3>1. n = BLOCK_SIZE
      BY <1>2, <2>2, ItemIs
    <3>2. Len(data) = Len(text) + Padding(Len(text))
      BY <2>2, DataIs
    <3>3. Len(data) = BLOCK_SIZE
      <4>1. Len(text) = BLOCK_SIZE
        BY <2>1, <3>1
      <4>2. BLOCK_SIZE + Padding(BLOCK_SIZE) = BLOCK_SIZE
        BY DEF Padding, BLOCK_SIZE
      <4>. QED BY <3>2, <4>1, <4>2
    <3>4. item.type \in {PacketType.ControllerAckSecureSession,
                         PacketType.ClientRequestSecureSession}
      BY <1>2, <2>2 DEF Encrypted, Carriers
    <3>5. /\ item.type # PacketType.OmniLink2Message
          /\ item.type # PacketType.ControllerAckNewSession
          /\ item.type # PacketType.OmniLink2UnencryptedMessage
      BY <3>4, Codes
    <3>. QED BY <3>3, <3>4, <3>5 DEF Parts
  <2>3. CASE item.type \notin Encrypted
    <3>1. Len(data) = n
      BY <2>1, <2>3, DataIs
    <3>2. /\ item.type # PacketType.OmniLink2Message
          /\ item.type # PacketType.OmniLink2UnencryptedMessage
          /\ item.type \notin {PacketType.ControllerAckSecureSession,
                               PacketType.ClientRequestSecureSession}
      BY <1>2, <2>3 DEF Encrypted, Carriers
    <3>3. CASE item.type = PacketType.ControllerAckNewSession
      BY <1>2, <2>3, <3>1, <3>2, <3>3, ItemIs DEF Parts
    <3>4. CASE item.type # PacketType.ControllerAckNewSession
      BY <1>2, <2>3, <3>1, <3>2, <3>4, ItemIs DEF Parts
    <3>. QED BY <3>3, <3>4
  <2>. QED BY <2>2, <2>3
<1>3. item.type \in Carriers => /\ Len(text) = n + 4 /\ n >= 1 /\ text[2] = n
  BY PlainIs
<1>4. ASSUME item.type = PacketType.OmniLink2Message
      PROVE  /\ Parts(item.type) = <<"first", BLOCK_SIZE>>
             /\ ExtraBytes(n) \in Nat /\ PanelExtraBytes(n) = ExtraBytes(n)
             /\ Len(data) = BLOCK_SIZE + ExtraBytes(n)
             /\ \A first \in Seq(WireByte) :
                   /\ Len(first) = BLOCK_SIZE
                   /\ \A i \in 1..BLOCK_SIZE : first[i] = data[i]
                   => DecryptMessagePayload(first, item.seq)[2] = n
  <2>1. item.type \in Encrypted /\ item.type \in Carriers
    BY <1>4 DEF Encrypted, Carriers
  <2>2. Parts(item.type) = <<"first", BLOCK_SIZE>>
    BY <1>4, Codes DEF Parts
  <2>3. Len(data) = Len(text) + Padding(Len(text))
    BY <2>1, DataIs
  <2>4. ExtraBytes(n) \in Nat /\ PanelExtraBytes(n) = ExtraBytes(n) /\ Len(data) = BLOCK_SIZE + ExtraBytes(n)
    BY <1>1, <1>3, <2>1, <2>3, ExtraIsRest
  <2>5. \A cipher \in Seq(WireByte) :
          /\ Len(cipher) % BLOCK_SIZE = 0 /\ Len(cipher) <= Len(data)
          /\ \A i \in 1..Len(cipher) : cipher[i] = data[i]
          => DecryptMessagePayload(cipher, item.seq) = [k \in 1..Len(cipher) |-> Padded(text)[k]]
    BY <2>1, DataIs
  <2>6. Padded(text)[2] = n
    BY <1>1, <1>3, <2>1, PaddedIs
  <2>. HIDE DEF data, text, n
  <2>7. ASSUME NEW first \in Seq(WireByte), Len(first) = BLOCK_SIZE,
               \A i \in 1..BLOCK_SIZE : first[i] = data[i]
        PROVE  DecryptMessagePayload(first, item.seq)[2] = n
    <3>1. BLOCK_SIZE % BLOCK_SIZE = 0 /\ BLOCK_SIZE \in Nat /\ 2 \in 1..BLOCK_SIZE
      BY DEF BLOCK_SIZE
    <3>2. Len(first) <= Len(data)
      BY <2>4, <2>7, <3>1
    <3>3. DecryptMessagePayload(first, item.seq) = [k \in 1..Len(first) |-> Padded(text)[k]]
      BY <2>5, <2>7, <3>1, <3>2
    <3>. QED BY <2>6, <2>7, <3>1, <3>3
  <2>. QED BY <2>2, <2>4, <2>7
<1>5. ASSUME item.type = PacketType.OmniLink2UnencryptedMessage
      PROVE  /\ Parts(item.type) = <<"head", 5>>
             /\ n \in Nat /\ n >= 1 /\ Len(data) = n + 4
             /\ data[2].byte = n
  <2>1. item.type \notin Encrypted /\ item.type \in Carriers
    BY <1>5, Codes DEF Encrypted, Carriers
  <2>2. Parts(item.type) = <<"head", 5>>
    BY <1>5, Codes DEF Parts
  <2>3. Len(data) = Len(text) /\ \A k \in 1..Len(text) : data[k] = Clear(text[k])
    BY <2>1, DataIs
  <2>4. Len(data) = n + 4 /\ data[2] = Clear(n)
    BY <1>1, <1>3, <2>1, <2>3
  <2>. QED BY <1>1, <1>3, <2>1, <2>2, <2>4 DEF Clear
<1>. QED BY <1>2, <1>4, <1>5


\* What is written for a packet: its header, then its data.
LEMMA PacketBytes ==
    ASSUME NEW d \in DOMAIN Traffic, NEW item \in Traffic[d], ~Refused(PacketFor[item])
    PROVE  LET packet == PacketFor[item]
               bytes == EncodePacket(packet) IN
           /\ packet.seq = item.seq /\ packet.type = item.type
           /\ packet.data \in Seq(WireByte)
           /\ bytes \in Seq(WireByte) /\ Len(bytes) = HEADER_BYTES + Len(packet.data)
           /\ Word(bytes[1].byte, bytes[2].byte) = item.seq
           /\ bytes[3].byte = item.type /\ bytes[4].byte = 0
           /\ \A k \in 1..Len(packet.data) : bytes[HEADER_BYTES + k] = packet.data[k]
<1> DEFINE packet == PacketFor[item]
           data == packet.data
           fields == <<HighByte(packet.seq), LowByte(packet.seq), packet.type, 0>>
           header == [n \in 1..4 |-> Clear(fields[n])]
<1>1. packet.seq = item.seq /\ packet.type = item.type
  <2>1. \E x : packet = [seq |-> item.seq, type |-> item.type, data |-> x]
    BY PacketIs
  <2>. QED BY <2>1
<1>2. item.seq \in TwoBytes /\ item.type \in Expects[d]
  BY ItemIs
<1>3. item.type \in Byte
  <2>1. d \in {"to_client", "to_panel"}
    BY TrafficAssumption DEF Expects
  <2>2. item.type \in Int /\ 0 <= item.type /\ item.type <= 33
    BY <1>2, <2>1, Codes DEF Expects
  <2>. QED BY <2>2, Ranges
<1>4. data \in Seq(WireByte) /\ Len(data) \in Nat
  BY DataIs, LenProperties
<1>5. EncodePacket(packet) = header \o data
  BY DEF EncodePacket
<1>. HIDE DEF packet, data
<1>6. \A b \in Byte : Clear(b) \in WireByte /\ Clear(b).byte = b
  <2>1. <<>> \in Seq(Byte) /\ 0 \in 0..BLOCK_SIZE
    BY EmptySeq DEF BLOCK_SIZE
  <2>. QED BY <2>1 DEF Clear, WireByte
<1>7. /\ fields[1] = HighByte(item.seq) /\ fields[2] = LowByte(item.seq)
      /\ fields[3] = item.type /\ fields[4] = 0
  BY <1>1
<1>8. /\ HighByte(item.seq) \in Byte /\ LowByte(item.seq) \in Byte
      /\ Word(HighByte(item.seq), LowByte(item.seq)) = item.seq
  <2> DEFINE seq == item.seq
  <2>1. seq \in TwoBytes
    BY <1>2
  <2>. HIDE DEF seq
  <2>2. HighByte(seq) \in Byte /\ LowByte(seq) \in Byte /\ Word(HighByte(seq), LowByte(seq)) = seq
    BY <2>1, WordOfBytes
  <2>. QED BY <2>2 DEF seq
<1>9. 0 \in Byte
  BY Ranges
<1>. HIDE DEF fields
<1>10. /\ header \in Seq(WireByte) /\ Len(header) = 4
       /\ header[1].byte = HighByte(item.seq) /\ header[2].byte = LowByte(item.seq)
       /\ header[3].byte = item.type /\ header[4].byte = 0
  BY <1>3, <1>6, <1>7, <1>8, <1>9
<1>. HIDE DEF header
<1>11. /\ EncodePacket(packet) \in Seq(WireByte) /\ Len(EncodePacket(packet)) = 4 + Len(data)
       /\ \A k \in 1..4 : EncodePacket(packet)[k] = header[k]
       /\ \A k \in 1..Len(data) : EncodePacket(packet)[4 + k] = data[k]
  <2>1. \A s, t \in Seq(WireByte) :
          /\ s \o t \in Seq(WireByte) /\ Len(s \o t) = Len(s) + Len(t)
          /\ \A k \in 1..Len(s) : (s \o t)[k] = s[k]
          /\ \A k \in 1..Len(t) : (s \o t)[Len(s) + k] = t[k]
    BY LenProperties
  <2>2. /\ header \o data \in Seq(WireByte) /\ Len(header \o data) = Len(header) + Len(data)
        /\ \A k \in 1..Len(header) : (header \o data)[k] = header[k]
        /\ \A k \in 1..Len(data) : (header \o data)[Len(header) + k] = data[k]
    BY <1>4, <1>10, <2>1, Zenon
  <2>3. Len(header) = 4
    BY <1>10
  <2>. QED BY <1>5, <2>2, <2>3, Zenon
<1>. QED BY <1>1, <1>4, <1>8, <1>10, <1>11 DEF HEADER_BYTES, packet, data

-----------------------------------------------------------------------------
(* The stream.                                                             *)

\* Each packet that was written, as the lemmas about items say.
LEMMA WrittenIs ==
    ASSUME Bookkeeping, OnlyPacketsWritten, NEW i \in 1..Written
    PROVE  /\ written[i] \in Traffic[direction] /\ ~Refused(PacketFor[written[i]])
           /\ i \in 1..Len(written)
<1>1. Len(written) \in Nat /\ Written = Len(written)
  BY LenProperties DEF Bookkeeping, Written
<1>. QED BY <1>1, ElementOfSeq DEF Bookkeeping, OnlyPacketsWritten, PacketAt

\* What the reader takes next comes from the packet it is in.
LEMMA GotIs ==
    ASSUME Bookkeeping, NEW begins \in [Nat -> Int], Laid(begins),
           Current <= Written, Consumed \in Nat, NEW need \in Nat,
           Consumed + need <= Len(BytesOf(Current)), need <= Len(stream)
    PROVE  \A k \in 1..need : stream[k] = BytesOf(Current)[Consumed + k]
<1>1. Len(stream) \in Nat /\ Current \in Nat /\ Len(written) \in Nat /\ Written \in Int
  BY LenProperties DEF Bookkeeping, Current, Written
<1>2. begins[Current] + Consumed = 0 /\ Current \in Current..Written
  BY <1>1 DEF Laid
<1>3. ASSUME NEW k \in 1..need
      PROVE  stream[k] = BytesOf(Current)[Consumed + k]
  <2>1. Consumed + k \in 1..Len(BytesOf(Current)) /\ begins[Current] + (Consumed + k) = k
    <3>1. begins[Current] \in Int
      BY <1>1
    <3>2. PICK b \in Int : b = begins[Current]
      BY <3>1
    <3>3. PICK c \in Nat : c = Consumed
      OBVIOUS
    <3>4. c + k \in 1..Len(BytesOf(Current))
      BY <3>3
    <3>5. b + c = 0 /\ b + (c + k) = (b + c) + k
      BY <1>2, <3>2, <3>3, SMTT(30)
    <3>6. b + (c + k) = k
      BY <3>5
    <3>. QED BY <3>2, <3>3, <3>4, <3>6
  <2>2. k \in 1..Len(stream)
    BY <1>1
  <2>. QED BY <1>2, <2>1, <2>2 DEF Laid
<1>. QED BY <1>3

\* What the variables count.
LEMMA Counts ==
    ASSUME Bookkeeping
    PROVE  /\ Len(written) \in Nat /\ Len(taken) \in Nat /\ Len(stream) \in Nat
           /\ Len(stage.got) \in Nat /\ stage.need \in Nat
           /\ Written \in Nat /\ Written = Len(written)
           /\ Current \in Nat \ {0} /\ Consumed \in Nat
<1>1. Len(written) \in Nat /\ Len(taken) \in Nat /\ Len(stream) \in Nat /\ Len(stage.got) \in Nat
  BY LenProperties DEF Bookkeeping
<1>. QED BY <1>1 DEF Written, Current, Consumed, HEADER_BYTES, Bookkeeping

\* The packet the reader is in, as the lemmas about items say.
LEMMA CurrentIs ==
    ASSUME Bookkeeping, OnlyPacketsWritten, Current <= Written
    PROVE  LET packet == PacketAt(Current)
               bytes == BytesOf(Current) IN
           /\ written[Current] \in Traffic[direction] /\ ~Refused(packet)
           /\ packet.seq = written[Current].seq /\ packet.type = written[Current].type
           /\ packet.data \in Seq(WireByte)
           /\ bytes \in Seq(WireByte) /\ Len(bytes) = HEADER_BYTES + Len(packet.data)
           /\ Word(bytes[1].byte, bytes[2].byte) = packet.seq
           /\ bytes[3].byte = packet.type /\ bytes[4].byte = 0
           /\ packet.type \in Expects[direction]
           /\ \A k \in 1..Len(packet.data) : bytes[HEADER_BYTES + k] = packet.data[k]
<1> DEFINE item == written[Current]
<1>1. item \in Traffic[direction] /\ ~Refused(PacketFor[item])
  BY Counts, WrittenIs
<1>2. direction \in DOMAIN Traffic
  BY DEF Bookkeeping
<1>. HIDE DEF item
<1>3. item.type \in Expects[direction]
  BY <1>1, <1>2, ItemIs
<1>4. LET packet == PacketFor[item]
          bytes == EncodePacket(packet) IN
      /\ packet.seq = item.seq /\ packet.type = item.type
      /\ packet.data \in Seq(WireByte)
      /\ bytes \in Seq(WireByte) /\ Len(bytes) = HEADER_BYTES + Len(packet.data)
      /\ Word(bytes[1].byte, bytes[2].byte) = item.seq
      /\ bytes[3].byte = item.type /\ bytes[4].byte = 0
      /\ \A k \in 1..Len(packet.data) : bytes[HEADER_BYTES + k] = packet.data[k]
  BY <1>1, <1>2, PacketBytes
<1>5. PacketAt(Current) = PacketFor[item] /\ BytesOf(Current) = EncodePacket(PacketFor[item])
  BY DEF PacketAt, BytesOf, item
<1>. QED BY <1>1, <1>3, <1>4, <1>5 DEF item

\* What was written is bytes.
LEMMA BytesAre ==
    ASSUME Bookkeeping, OnlyPacketsWritten, NEW i \in 1..Written
    PROVE  BytesOf(i) \in Seq(WireByte) /\ Len(BytesOf(i)) \in Nat
<1> DEFINE item == written[i]
<1>1. item \in Traffic[direction] /\ ~Refused(PacketFor[item]) /\ direction \in DOMAIN Traffic
  BY WrittenIs DEF Bookkeeping
<1>. HIDE DEF item
<1>2. EncodePacket(PacketFor[item]) \in Seq(WireByte)
  BY <1>1, PacketBytes
<1>3. BytesOf(i) = EncodePacket(PacketFor[item])
  BY DEF BytesOf, PacketAt, item
<1>. QED BY <1>2, <1>3, LenProperties

\* The reader takes bytes from the stream, and is then further in its packet or
\* at the next one.
Takes ==
    /\ stream' = SubSeq(stream, stage.need + 1, Len(stream))
    /\ UNCHANGED <<direction, written, closed, lost>>
    /\ reader' \in {reader, "ended"}

GoesOn ==
    /\ taken' = taken
    /\ Consumed + stage.need <= Len(BytesOf(Current))
    /\ Consumed' = Consumed + stage.need

Finishes ==
    /\ taken' = Append(taken, Made(written[Current]))
    /\ Consumed + stage.need = Len(BytesOf(Current))
    /\ Consumed' = 0

\* What is left of a sequence when its first elements are taken.
LEMMA RestIs ==
    ASSUME NEW S, NEW s \in Seq(S), NEW need \in Nat, need <= Len(s)
    PROVE  LET rest == SubSeq(s, need + 1, Len(s)) IN
           /\ rest \in Seq(S) /\ Len(rest) = Len(s) - need
           /\ \A k \in 1..Len(s) - need : rest[k] = s[k + need]
<1>1. Len(s) \in Nat /\ \A i \in 1..Len(s) : s[i] \in S
  OBVIOUS
<1>2. Len(SubSeq(s, need + 1, Len(s))) = Len(s) - need
  BY <1>1
<1>3. \A k \in 1..Len(s) - need : SubSeq(s, need + 1, Len(s))[k] = s[k + need]
  BY <1>1
<1>4. SubSeq(s, need + 1, Len(s)) \in Seq(S)
  BY <1>1
<1>. QED BY <1>2, <1>3, <1>4

\* What is left of the stream lies as it did.
LEMMA LaidStays ==
    ASSUME Bookkeeping, OnlyPacketsWritten, \E begins \in [Nat -> Int] : Laid(begins),
           Takes, GoesOn \/ Finishes, Current <= Written, stage.need <= Len(stream)
    PROVE  /\ (\E begins \in [Nat -> Int] : Laid(begins))'
           /\ stream' \in Seq(WireByte)
<1>1. PICK begins \in [Nat -> Int] : Laid(begins)
  OBVIOUS
<1>2. PICK need \in Nat : need = stage.need
  BY Counts
<1>3. PICK after \in [Nat -> Int] : \A i \in Nat : after[i] = begins[i] - need
  <2> DEFINE f == [i \in Nat |-> begins[i] - need]
  <2>1. f \in [Nat -> Int] /\ \A i \in Nat : f[i] = begins[i] - need
    OBVIOUS
  <2>. QED BY <2>1
<1>4. /\ Current \in Nat /\ Consumed \in Nat /\ Written \in Nat /\ Current <= Written
      /\ Len(stream) \in Nat /\ Len(taken) \in Nat /\ need <= Len(stream)
      /\ \A i \in Current..Written :
            i \in Nat /\ i + 1 \in Nat /\ Len(BytesOf(i)) \in Nat
  <2>1. Current \in Nat \ {0} /\ Written \in Nat
    BY Counts
  <2>2. \A i \in Current..Written : i \in 1..Written /\ i \in Nat /\ i + 1 \in Nat
    BY <2>1
  <2>. QED BY <1>2, <2>2, Counts, BytesAre
<1>5. Written' = Written /\ \A i : BytesOf(i)' = BytesOf(i)
  BY DEF Takes, Written, BytesOf, PacketAt
<1>6. /\ stream' \in Seq(WireByte) /\ Len(stream') = Len(stream) - need
      /\ \A k \in 1..Len(stream) - need : stream'[k] = stream[k + need]
  <2>1. stream' = SubSeq(stream, need + 1, Len(stream))
    BY <1>2 DEF Takes
  <2>2. stream \in Seq(WireByte)
    BY DEF Bookkeeping
  <2>. QED BY <1>4, <2>1, <2>2, RestIs
<1>7. Current' \in {Current, Current + 1} /\ after[Current'] + Consumed' = 0
  <2>1. /\ begins[Current] + Consumed = 0
        /\ begins[Current + 1] = begins[Current] + Len(BytesOf(Current))
        /\ Len(BytesOf(Current)) \in Nat
    BY <1>1, <1>4 DEF Laid
  <2>2. /\ after[Current] = -Consumed - need
        /\ after[Current + 1] = Len(BytesOf(Current)) - Consumed - need
    <3>1. begins[Current] \in Int /\ Current + 1 \in Nat /\ begins[Current + 1] \in Int
      BY <1>4, SMTT(30)
    <3>2. after[Current] = begins[Current] - need /\ after[Current + 1] = begins[Current + 1] - need
      BY <1>3, <1>4, <3>1
    <3>3. PICK b \in Int : b = begins[Current]
      BY <3>1
    <3>4. PICK c \in Nat : c = Consumed
      BY <1>4
    <3>5. PICK l \in Nat : l = Len(BytesOf(Current))
      BY <2>1
    <3>6. b + c = 0 /\ begins[Current + 1] = b + l
      BY <2>1, <3>3, <3>4, <3>5
    <3>7. b - need = -c - need /\ (b + l) - need = l - c - need
      BY <3>6
    <3>. QED BY <3>2, <3>3, <3>4, <3>5, <3>6, <3>7
  <2>3. CASE GoesOn
    <3>1. Current' = Current /\ Consumed' = Consumed + need
      BY <1>2, <2>3 DEF GoesOn, Current
    <3>. QED BY <1>4, <2>2, <3>1
  <2>4. CASE Finishes
    <3>1. Len(taken') = Len(taken) + 1
      <4>1. /\ Made(written[Current]) \in {Made(item) : item \in Traffic[direction]}
            /\ taken \in Seq({Made(item) : item \in Traffic[direction]})
        BY CurrentIs DEF Bookkeeping
      <4>. QED BY <2>4, <4>1, AppendProperties DEF Finishes
    <3>2. Current' = Current + 1 /\ Consumed' = 0 /\ Consumed + need = Len(BytesOf(Current))
      BY <1>2, <1>4, <2>4, <3>1 DEF Finishes, Current
    <3>3. after[Current + 1] = 0
      BY <1>4, <2>1, <2>2, <3>2
    <3>. QED BY <3>2, <3>3
  <2>. QED BY <2>3, <2>4
<1>8. ASSUME NEW i \in Current..Written
      PROVE  /\ after[i + 1] = after[i] + Len(BytesOf(i)) /\ after[i + 1] <= after[Written + 1]
             /\ \A k \in 1..Len(BytesOf(i)) :
                  after[i] + k \in 1..Len(stream') => stream'[after[i] + k] = BytesOf(i)[k]
  <2>1. /\ begins[i + 1] = begins[i] + Len(BytesOf(i)) /\ begins[i + 1] <= begins[Written + 1]
        /\ \A k \in 1..Len(BytesOf(i)) :
             begins[i] + k \in 1..Len(stream) => stream[begins[i] + k] = BytesOf(i)[k]
    BY <1>1 DEF Laid
  <2>2. /\ i \in Nat /\ i + 1 \in Nat /\ begins[i] \in Int /\ begins[i + 1] \in Int
        /\ Len(BytesOf(i)) \in Nat
    BY <1>4
  <2>3. after[i] = begins[i] - need /\ after[i + 1] = begins[i + 1] - need
    BY <1>3, <2>2
  <2>4. ASSUME NEW k \in 1..Len(BytesOf(i)), after[i] + k \in 1..Len(stream')
        PROVE  stream'[after[i] + k] = BytesOf(i)[k]
    <3>1. PICK b \in Int : b = begins[i]
      BY <2>2
    <3>2. PICK n \in Nat : n = Len(stream)
      BY <1>4
    <3>3. after[i] = b - need /\ Len(stream') = n - need
      BY <1>6, <2>3, <3>1, <3>2
    <3>4. k \in Int /\ (b - need) + k \in 1..n - need
      BY <2>2, <2>4, <3>3
    <3>5. b + k \in 1..n /\ ((b - need) + k) + need = b + k
      <4>1. \A x, y, m, z \in Int : (x - z) + y \in 1..m - z
                => x + y >= 1 + z /\ x + y <= m /\ ((x - z) + y) + z = x + y
        OBVIOUS
      <4>2. b + k >= 1 + need /\ b + k <= n /\ ((b - need) + k) + need = b + k
        BY <3>4, <4>1
      <4>. QED BY <3>4, <4>2
    <3>6. stream'[(b - need) + k] = stream[b + k]
      BY <1>6, <3>2, <3>4, <3>5
    <3>7. stream[b + k] = BytesOf(i)[k]
      BY <2>1, <2>4, <3>1, <3>2, <3>5
    <3>. QED BY <3>3, <3>6, <3>7
  <2>5. after[i + 1] = after[i] + Len(BytesOf(i))
    BY <2>1, <2>2, <2>3
  <2>6. after[i + 1] <= after[Written + 1]
    <3>1. Written + 1 \in Nat /\ begins[Written + 1] \in Int
      BY <1>4
    <3>2. after[Written + 1] = begins[Written + 1] - need
      BY <1>3, <3>1
    <3>3. \A x, y \in Int : x <= y => x - need <= y - need
      OBVIOUS
    <3>. QED BY <2>1, <2>2, <2>3, <3>1, <3>2, <3>3
  <2>. QED BY <2>4, <2>5, <2>6
<1>9. Len(stream') <= after[Written + 1] /\ (~lost => Len(stream') = after[Written + 1])
  <2>1. Len(stream) <= begins[Written + 1] /\ (~lost => Len(stream) = begins[Written + 1])
    BY <1>1 DEF Laid
  <2>2. Written + 1 \in Nat
    BY <1>4
  <2>3. PICK b \in Int : b = begins[Written + 1]
    BY <2>2
  <2>4. after[Written + 1] = b - need
    BY <1>3, <2>2, <2>3
  <2>5. PICK n \in Nat : n = Len(stream)
    BY <1>4
  <2>6. n <= b /\ (~lost => n = b) /\ Len(stream') = n - need
    BY <1>6, <2>1, <2>3, <2>5
  <2>. QED BY <2>4, <2>6
<1>10. Laid(after)'
  <2>1. \A i \in Current'..Written : i \in Current..Written
    BY <1>4, <1>7, SMTT(30)
  <2>2. lost' = lost
    BY DEF Takes
  <2>. QED BY <1>5, <1>7, <1>8, <1>9, <2>1, <2>2 DEF Laid
<1>. QED BY <1>6, <1>10

\* A reader that is in a packet is in one that was written, and one that waits
\* for a header finds the header of one.
LEMMA InPacket ==
    ASSUME IInv, Len(stream) >= stage.need
    PROVE  Current <= Written
<1>1. CASE stage = AtHeader
  <2>1. stage.need = 4 /\ Consumed = 0
    BY <1>1 DEF AtHeader, HEADER_BYTES, Consumed
  <2>2. PICK begins \in [Nat -> Int] : Laid(begins)
    BY DEF IInv
  <2>3. Current \in Nat /\ Written \in Nat /\ Len(stream) \in Nat /\ Current <= Written + 1
    BY Counts DEF IInv, TakenInOrder, Current
  <2>4. begins[Current] + 0 = 0 /\ Len(stream) <= begins[Written + 1] /\ begins[Current] \in Int
    BY <2>1, <2>2, <2>3 DEF Laid
  <2>5. Current # Written + 1
    BY <2>1, <2>3, <2>4
  <2>. QED BY <2>3, <2>5
<1>2. CASE stage # AtHeader
  BY <1>2 DEF IInv, StageInPacket
<1>. QED BY <1>1, <1>2

\* What stays as it is while the reader takes bytes.
LEMMA Kept ==
    ASSUME IInv, Takes
    PROVE  /\ Written' = Written /\ OnlyPacketsWritten' /\ reader' \in {"reading", "ended"}
           /\ \A i : PacketAt(i)' = PacketAt(i) /\ BytesOf(i)' = BytesOf(i)
           /\ direction' \in DOMAIN Traffic /\ closed' \in BOOLEAN /\ lost' \in BOOLEAN
           /\ written' = written /\ written' \in Seq(Traffic[direction'])
BY DEF Takes, IInv, Bookkeeping, Written, OnlyPacketsWritten, PacketAt, BytesOf

\* The last bytes of a packet.
LEMMA Finished ==
    ASSUME IInv, Takes, stage.need <= Len(stream),
           Consumed + stage.need = Len(BytesOf(Current)),
           taken' = Append(taken, Made(written[Current])), stage' = AtHeader
    PROVE  IInv'
<1>1. Current <= Written
  BY InPacket, Counts DEF IInv
<1>2. Consumed' = 0
  BY DEF Consumed, AtHeader
<1>3. Finishes
  BY <1>2 DEF Finishes
<1>4. (\E begins \in [Nat -> Int] : Laid(begins))' /\ stream' \in Seq(WireByte)
  BY <1>1, <1>3, LaidStays DEF IInv
<1>5. written[Current] \in Traffic[direction]
  BY <1>1, CurrentIs DEF IInv
<1>6. /\ taken' \in Seq({Made(item) : item \in Traffic[direction']})
      /\ Len(taken') = Len(taken) + 1 /\ taken'[Len(taken) + 1] = Made(written[Current])
      /\ \A n \in 1..Len(taken) : taken'[n] = taken[n]
  <2> DEFINE S == {Made(item) : item \in Traffic[direction]}
  <2>1. taken \in Seq(S) /\ direction' = direction /\ Made(written[Current]) \in S
    BY <1>5 DEF IInv, Bookkeeping, Takes
  <2>2. S = {Made(item) : item \in Traffic[direction']}
    BY <2>1
  <2>. HIDE DEF S
  <2>3. /\ taken' \in Seq(S) /\ Len(taken') = Len(taken) + 1
        /\ taken'[Len(taken) + 1] = Made(written[Current])
        /\ \A n \in 1..Len(taken) : taken'[n] = taken[n]
    BY <2>1, AppendProperties
  <2>. QED BY <2>2, <2>3
<1>7. stage'.need \in Nat /\ stage'.got \in Seq(WireByte)
  BY EmptySeq DEF AtHeader, HEADER_BYTES
<1>8. Bookkeeping'
  BY <1>4, <1>6, <1>7, Kept DEF IInv, Bookkeeping
<1>9. TakenInOrder'
  <2>1. Len(taken) \in Nat /\ Written \in Nat /\ Current = Len(taken) + 1
    BY Counts DEF IInv, Current
  <2>2. written' = written /\ Written' = Written
    BY Kept
  <2>3. ASSUME NEW n \in 1..Len(taken) + 1
        PROVE  taken'[n] = Made(written[n])
    <3>1. CASE n \in 1..Len(taken)
      BY <1>6, <3>1 DEF IInv, TakenInOrder
    <3>2. CASE n = Len(taken) + 1
      BY <1>6, <2>1, <3>2
    <3>. QED BY <2>1, <3>1, <3>2
  <2>4. Len(taken') <= Written
    BY <1>1, <1>6, <2>1
  <2>. QED BY <1>6, <2>2, <2>3, <2>4 DEF TakenInOrder
<1>10. StageInPacket'
  BY DEF StageInPacket
<1>. QED BY <1>4, <1>8, <1>9, <1>10, Kept DEF IInv

\* Bytes of a packet that are not its last.
LEMMA Continued ==
    ASSUME IInv, Takes, stage.need <= Len(stream), taken' = taken,
           Consumed + stage.need <= Len(BytesOf(Current)), Consumed' = Consumed + stage.need,
           stage'.need \in Nat, stage'.got \in Seq(WireByte), StageInPacket'
    PROVE  IInv'
<1>1. Current <= Written
  BY InPacket, Counts DEF IInv
<1>2. GoesOn
  BY DEF GoesOn
<1>3. (\E begins \in [Nat -> Int] : Laid(begins))' /\ stream' \in Seq(WireByte)
  BY <1>1, <1>2, LaidStays DEF IInv
<1>4. Bookkeeping'
  BY <1>3, Kept DEF IInv, Bookkeeping, Takes
<1>5. TakenInOrder'
  BY Kept DEF IInv, TakenInOrder
<1>. QED BY <1>3, <1>4, <1>5, Kept DEF IInv

\* What the reader takes: bytes of its packet.
LEMMA GotAre ==
    ASSUME IInv, stage.need <= Len(stream), Consumed + stage.need <= Len(BytesOf(Current))
    PROVE  /\ Got \in Seq(WireByte) /\ Len(Got) = stage.need
           /\ \A k \in 1..stage.need : Got[k] = BytesOf(Current)[Consumed + k]
<1>1. PICK need \in Nat : need = stage.need
  BY Counts DEF IInv
<1>2. PICK begins \in [Nat -> Int] : Laid(begins)
  BY DEF IInv
<1>3. Len(stream) \in Nat /\ Consumed \in Nat /\ Current <= Written
  BY Counts, InPacket DEF IInv
<1>4. \A k \in 1..need : stream[k] = BytesOf(Current)[Consumed + k]
  BY <1>1, <1>2, <1>3, GotIs DEF IInv
<1>5. stream \in Seq(WireByte) /\ \A k \in 1..need : stream[k] \in WireByte
  <2>1. stream \in Seq(WireByte)
    BY DEF IInv, Bookkeeping
  <2>. QED BY <1>1, <1>3, <2>1, ElementOfSeq
<1>6. Got = SubSeq(stream, 1, need)
  BY <1>1 DEF Got
<1>7. /\ SubSeq(stream, 1, need) \in Seq(WireByte) /\ Len(SubSeq(stream, 1, need)) = need
      /\ \A k \in 1..need : SubSeq(stream, 1, need)[k] = stream[k]
  BY <1>1, <1>3, <1>5, SMTT(30)
<1>. QED BY <1>1, <1>4, <1>6, <1>7

\* A step of the reader takes what it waits for.
LEMMA ReadTakes ==
    ASSUME IInv, NEW part, Read(part), reader' \in {reader, "ended"}
    PROVE  /\ Takes /\ stage.part = part /\ stage.need <= Len(stream)
           /\ Current <= Written /\ stage.need \in Nat
<1>1. stage.part = part /\ stage.need <= Len(stream) /\ stage.need \in Nat /\ Takes
  BY Counts DEF Read, Takes, IInv
<1>. QED BY <1>1, InPacket, Counts DEF IInv

\* The reader in the middle of a packet.
LEMMA StageIs ==
    ASSUME IInv, stage.part # "header"
    PROVE  LET packet == PacketAt(Current) read == Len(stage.got) IN
           /\ stage.seq = packet.seq /\ stage.type = packet.type
           /\ read <= Len(packet.data) /\ stage.got = SubSeq(packet.data, 1, read)
           /\ stage.part = "body" => stage.need = Len(packet.data) - read
           /\ stage.part # "body" =>
                 read = 0 /\ <<stage.part, stage.need>> = Parts(packet.type)
           /\ stage.part = "first" => packet.type = PacketType.OmniLink2Message
           /\ stage.part = "head" => packet.type = PacketType.OmniLink2UnencryptedMessage
           /\ Consumed = HEADER_BYTES + read
<1>1. stage # AtHeader
  BY DEF AtHeader
<1>2. StageInPacket
  BY DEF IInv
<1>3. Consumed = HEADER_BYTES + Len(stage.got)
  BY DEF Consumed
<1>. QED BY <1>1, <1>2, <1>3, Zenon DEF StageInPacket

\* Of the whole packet the reader makes what can be made of its item.
LEMMA WholePacket ==
    ASSUME IInv, Current <= Written, NEW bytes \in Seq(WireByte),
           Len(bytes) = Len(PacketAt(Current).data),
           \A k \in 1..Len(bytes) : bytes[k] = PacketAt(Current).data[k]
    PROVE  Item(PacketAt(Current).seq, PacketAt(Current).type, bytes) = Made(written[Current])
<1> DEFINE item == written[Current]
           data == PacketFor[item].data
<1>1. /\ item \in Traffic[direction] /\ ~Refused(PacketFor[item]) /\ direction \in DOMAIN Traffic
      /\ PacketAt(Current) = PacketFor[item]
      /\ PacketAt(Current).seq = item.seq /\ PacketAt(Current).type = item.type
      /\ data \in Seq(WireByte)
  BY CurrentIs DEF IInv, Bookkeeping, PacketAt
<1>2. bytes = data
  <2>1. Len(bytes) = Len(data) /\ \A k \in 1..Len(bytes) : bytes[k] = data[k]
    BY <1>1
  <2>. HIDE DEF data
  <2>. QED BY <1>1, <2>1, SeqEqual
<1>3. Item(item.seq, item.type, data) = Made(item)
  <2>. HIDE DEF item
  <2>. QED BY <1>1, PacketReads
<1>. QED BY <1>1, <1>2, <1>3

-----------------------------------------------------------------------------
(* The steps of the reader.                                                *)

LEMMA ReadBodyKeeps ==
    ASSUME IInv, ReadBody
    PROVE  IInv'
<1>1. /\ Read("body") /\ Dispatches(stage.seq, stage.type, stage.got \o Got) /\ reader' = reader
  BY DEF ReadBody
<1>2. /\ Takes /\ stage.part = "body" /\ stage.need <= Len(stream)
      /\ Current <= Written /\ stage.need \in Nat
  BY <1>1, ReadTakes
<1> DEFINE data == PacketAt(Current).data
<1>3. /\ data \in Seq(WireByte) /\ Len(data) \in Nat
      /\ Len(BytesOf(Current)) = HEADER_BYTES + Len(data)
      /\ \A k \in 1..Len(data) : BytesOf(Current)[HEADER_BYTES + k] = data[k]
  BY <1>2, CurrentIs, LenProperties DEF IInv
<1>4. /\ stage.seq = PacketAt(Current).seq /\ stage.type = PacketAt(Current).type
      /\ Len(stage.got) <= Len(data) /\ stage.got = SubSeq(data, 1, Len(stage.got))
      /\ stage.need = Len(data) - Len(stage.got)
      /\ Consumed = HEADER_BYTES + Len(stage.got)
  BY <1>2, StageIs
<1>5. stage.got \in Seq(WireByte) /\ Len(stage.got) \in Nat
  BY Counts DEF IInv, Bookkeeping
<1>. HIDE DEF data
<1>6. Consumed + stage.need = Len(BytesOf(Current))
  <2>1. PICK read \in Nat : read = Len(stage.got)
    BY <1>5
  <2>2. PICK n \in Nat : n = Len(data)
    BY <1>3
  <2>3. /\ stage.need = n - read /\ Consumed = 4 + read
        /\ Len(BytesOf(Current)) = 4 + n
    BY <1>3, <1>4, <2>1, <2>2 DEF HEADER_BYTES
  <2>4. (4 + read) + (n - read) = 4 + n
    OBVIOUS
  <2>. QED BY <2>3, <2>4
<1>7. /\ Got \in Seq(WireByte) /\ Len(Got) = stage.need
      /\ \A k \in 1..stage.need : Got[k] = BytesOf(Current)[Consumed + k]
  BY <1>2, <1>6, GotAre
<1>8. /\ stage.got \o Got \in Seq(WireByte) /\ Len(stage.got \o Got) = Len(data)
      /\ \A k \in 1..Len(stage.got \o Got) : (stage.got \o Got)[k] = data[k]
  <2>1. PICK read \in Nat : read = Len(stage.got)
    BY <1>5
  <2>2. PICK n \in Nat : n = Len(data)
    BY <1>3
  <2>3. stage.need = n - read /\ read <= n /\ stage.got = SubSeq(data, 1, read)
    BY <1>4, <2>1, <2>2
  <2>4. /\ stage.got \o Got \in Seq(WireByte) /\ Len(stage.got \o Got) = n
        /\ \A k \in 1..read : (stage.got \o Got)[k] = stage.got[k]
        /\ \A k \in 1..n - read : (stage.got \o Got)[read + k] = Got[k]
    BY <1>5, <1>7, <2>1, <2>3
  <2>5. \A k \in 1..read : stage.got[k] = data[k]
    BY <1>3, <2>2, <2>3
  <2>6. \A k \in 1..n - read : Got[k] = data[read + k]
    <3>1. ASSUME NEW k \in 1..n - read
          PROVE  Got[k] = data[read + k]
      <4>1. Got[k] = BytesOf(Current)[Consumed + k]
        BY <1>7, <2>3
      <4>2. Consumed + k = HEADER_BYTES + (read + k) /\ read + k \in 1..n
        BY <1>4, <2>1 DEF HEADER_BYTES
      <4>. QED BY <1>3, <2>2, <4>1, <4>2
    <3>. QED BY <3>1
  <2>7. ASSUME NEW k \in 1..n
        PROVE  (stage.got \o Got)[k] = data[k]
    <3>1. CASE k <= read
      <4>1. k \in 1..read
        BY <3>1
      <4>. QED BY <2>4, <2>5, <4>1
    <3>2. CASE k > read
      <4>1. PICK j \in 1..n - read : k = read + j
        <5>1. k - read \in 1..n - read /\ k = read + (k - read)
          BY <3>2
        <5>. QED BY <5>1
      <4>2. (stage.got \o Got)[read + j] = Got[j] /\ Got[j] = data[read + j]
        BY <2>4, <2>6
      <4>. QED BY <4>1, <4>2
    <3>3. k <= read \/ k > read
      OBVIOUS
    <3>. QED BY <3>1, <3>2, <3>3
  <2>. QED BY <2>2, <2>4, <2>7
<1>9. Item(stage.seq, stage.type, stage.got \o Got) = Made(written[Current])
  BY <1>2, <1>4, <1>8, WholePacket DEF data
<1>10. taken' = Append(taken, Made(written[Current])) /\ stage' = AtHeader
  BY <1>1, <1>9 DEF Dispatches
<1>. QED BY <1>2, <1>6, <1>10, Finished

\* After the header the reader waits for the first part of its packet.
LEMMA ReadHeaderKeeps ==
    ASSUME IInv, ReadHeader
    PROVE  IInv'
<1> DEFINE packet == PacketAt(Current)
           item == written[Current]
           data == packet.data
           seq == Word(Got[1].byte, Got[2].byte)
           type == Got[3].byte
           next == Parts(type)
<1>1. Read("header") /\ stage.part = "header" /\ stage.need <= Len(stream)
  BY Counts DEF ReadHeader, Read, IInv
<1>2. stage.need = 4 /\ Consumed = 0 /\ Current <= Written
  <2>1. stage = AtHeader
    BY <1>1 DEF IInv, StageInPacket
  <2>. QED BY <1>1, <2>1, InPacket, Counts DEF AtHeader, HEADER_BYTES, Consumed, IInv
<1>3. /\ item \in Traffic[direction] /\ ~Refused(PacketFor[item]) /\ direction \in DOMAIN Traffic
      /\ packet = PacketFor[item] /\ packet.seq = item.seq /\ packet.type = item.type
      /\ data \in Seq(WireByte) /\ Len(data) \in Nat
      /\ Len(BytesOf(Current)) = HEADER_BYTES + Len(data)
      /\ Word(BytesOf(Current)[1].byte, BytesOf(Current)[2].byte) = packet.seq
      /\ BytesOf(Current)[3].byte = packet.type /\ BytesOf(Current)[4].byte = 0
      /\ packet.type \in Expects[direction]
  BY <1>2, CurrentIs, LenProperties DEF IInv, Bookkeeping, PacketAt
<1>4. \A k \in 1..4 : Got[k] = BytesOf(Current)[k]
  <2>1. Consumed + stage.need <= Len(BytesOf(Current))
    BY <1>2, <1>3 DEF HEADER_BYTES
  <2>2. \A k \in 1..stage.need : Got[k] = BytesOf(Current)[Consumed + k]
    BY <1>1, <2>1, GotAre
  <2>3. \A k \in 1..4 : Consumed + k = k
    BY <1>2
  <2>. QED BY <1>2, <2>2, <2>3
<1>5. seq = packet.seq /\ type = packet.type /\ Got[4].byte = 0
  <2>1. 1 \in 1..4 /\ 2 \in 1..4 /\ 3 \in 1..4 /\ 4 \in 1..4
    OBVIOUS
  <2>. QED BY <1>3, <1>4, <2>1
<1>6. /\ reader' \in {reader, "ended"}
      /\ IF next[2] = 0 THEN Dispatches(seq, type, <<>>)
                        ELSE Awaits(next[1], next[2], seq, type, <<>>)
  BY <1>3, <1>5 DEF ReadHeader
<1>7. Takes
  BY <1>1, <1>6, ReadTakes
<1>8. /\ packet.type \notin Carriers => next = <<"body", Len(data)>>
      /\ packet.type = PacketType.OmniLink2Message => next = <<"first", 16>> /\ Len(data) >= 16
      /\ packet.type = PacketType.OmniLink2UnencryptedMessage =>
            next = <<"head", 5>> /\ Len(data) >= 5
  <2>. HIDE DEF item
  <2>1. /\ item.type \notin Carriers => Parts(item.type) = <<"body", Len(data)>>
        /\ item.type = PacketType.OmniLink2Message =>
              /\ Parts(item.type) = <<"first", BLOCK_SIZE>>
              /\ ExtraBytes(Len(item.data)) \in Nat
              /\ Len(data) = BLOCK_SIZE + ExtraBytes(Len(item.data))
        /\ item.type = PacketType.OmniLink2UnencryptedMessage =>
              /\ Parts(item.type) = <<"head", 5>>
              /\ Len(item.data) \in Nat /\ Len(item.data) >= 1 /\ Len(data) = Len(item.data) + 4
    BY <1>3, PartsFit
  <2>. QED BY <1>3, <1>5, <2>1 DEF BLOCK_SIZE
<1>9. packet.type \in Carriers => packet.type \in {PacketType.OmniLink2Message,
                                                  PacketType.OmniLink2UnencryptedMessage}
  BY DEF Carriers
<1>. HIDE DEF packet, item, data, next, seq, type
<1>10. CASE next[2] = 0
  <2>1. packet.type \notin Carriers /\ Len(data) = 0
    BY <1>8, <1>9, <1>10
  <2>2. Item(packet.seq, packet.type, <<>>) = Made(item)
    <3>1. <<>> \in Seq(WireByte) /\ Len(<<>>) = 0
      BY EmptySeq
    <3>2. Len(<<>>) = Len(data) /\ \A k \in 1..Len(<<>>) : <<>>[k] = data[k]
      BY <2>1, <3>1
    <3>. QED BY <1>2, <3>1, <3>2, WholePacket DEF item, packet, data
  <2>3. taken' = Append(taken, Made(item)) /\ stage' = AtHeader
    BY <1>5, <1>6, <1>10, <2>2 DEF Dispatches
  <2>4. Consumed + stage.need = Len(BytesOf(Current))
    BY <1>2, <1>3, <2>1 DEF HEADER_BYTES
  <2>. QED BY <1>1, <1>6, <1>7, <2>3, <2>4, Finished DEF item
<1>11. CASE next[2] # 0
  <2>1. /\ stage' = [part |-> next[1], need |-> next[2], seq |-> seq, type |-> type, got |-> <<>>]
        /\ taken' = taken
    BY <1>6, <1>11 DEF Awaits
  <2>2. /\ stage'.part = next[1] /\ stage'.need = next[2]
        /\ stage'.seq = packet.seq /\ stage'.type = packet.type
        /\ stage'.got = <<>> /\ Len(stage'.got) = 0
    BY <1>5, <2>1
  <2>3. /\ next[1] \in {"first", "head", "body"} /\ next[2] \in Nat
        /\ next[1] = "body" => next[2] = Len(data)
        /\ next[1] = "first" => packet.type = PacketType.OmniLink2Message
        /\ next[1] = "head" => packet.type = PacketType.OmniLink2UnencryptedMessage
        /\ next = <<next[1], next[2]>>
    <3>1. CASE packet.type \notin Carriers
      BY <1>3, <1>8, <3>1
    <3>2. CASE packet.type = PacketType.OmniLink2Message
      BY <1>8, <3>2
    <3>3. CASE packet.type = PacketType.OmniLink2UnencryptedMessage
      BY <1>8, <3>3
    <3>. QED BY <1>9, <3>1, <3>2, <3>3
  <2>4. Consumed' = 4 /\ Consumed + stage.need = 4 /\ 4 <= Len(BytesOf(Current))
    <3>1. stage'.part # "header"
      BY <2>2, <2>3
    <3>. QED BY <1>2, <1>3, <2>2, <3>1 DEF Consumed, HEADER_BYTES
  <2>5. StageInPacket'
    <3>1. Current' = Current /\ Written' = Written /\ PacketAt(Current)' = packet
      BY <1>7, <2>1 DEF Current, Written, PacketAt, packet, Takes
    <3>2. SubSeq(data, 1, 0) = <<>>
      BY SubSeqEmpty
    <3>3. next = Parts(packet.type)
      BY <1>5 DEF next
    <3>4. next[1] = "body" => next[2] = Len(data) - 0
      BY <1>3, <2>3
    <3>5. LET read == Len(stage'.got) IN
          /\ read <= Len(data) /\ stage'.got = SubSeq(data, 1, read)
          /\ stage'.part = "body" => stage'.need = Len(data) - read
          /\ stage'.part # "body" => read = 0 /\ <<stage'.part, stage'.need>> = Parts(packet.type)
      BY <1>3, <2>2, <2>3, <3>2, <3>3, <3>4
    <3>. QED BY <1>2, <2>2, <2>3, <3>1, <3>5 DEF StageInPacket, data
  <2>6. stage'.need \in Nat /\ stage'.got \in Seq(WireByte)
    BY <2>2, <2>3, EmptySeq
  <2>. QED BY <1>1, <1>6, <1>7, <2>1, <2>4, <2>5, <2>6, Continued
<1>. QED BY <1>10, <1>11

\* What the reader takes first of a message.
LEMMA FirstPart ==
    ASSUME IInv, stage.part \in {"first", "head"}, stage.need <= Len(stream),
           Current <= Written, stage.need <= Len(PacketAt(Current).data)
    PROVE  /\ Got \in Seq(WireByte) /\ Len(Got) = stage.need
           /\ \A k \in 1..stage.need : Got[k] = PacketAt(Current).data[k]
           /\ Consumed = HEADER_BYTES
<1> DEFINE data == PacketAt(Current).data
<1>1. /\ Len(BytesOf(Current)) = HEADER_BYTES + Len(data) /\ Len(data) \in Nat
      /\ \A k \in 1..Len(data) : BytesOf(Current)[HEADER_BYTES + k] = data[k]
  BY CurrentIs, LenProperties DEF IInv
<1>2. Len(stage.got) = 0 /\ Consumed = HEADER_BYTES + Len(stage.got)
  BY StageIs
<1>3. Consumed = 4 /\ HEADER_BYTES = 4
  BY <1>2 DEF HEADER_BYTES
<1>4. stage.need \in Nat /\ stage.need <= Len(data)
  BY Counts DEF IInv
<1>. HIDE DEF data
<1>5. /\ Got \in Seq(WireByte) /\ Len(Got) = stage.need
      /\ \A k \in 1..stage.need : Got[k] = BytesOf(Current)[Consumed + k]
  BY <1>1, <1>3, <1>4, GotAre
<1>6. \A k \in 1..stage.need : k \in 1..Len(data)
  BY <1>1, <1>4
<1>. QED BY <1>1, <1>3, <1>5, <1>6 DEF data

\* When it is all of the message, that is read; if not, the rest is next.
LEMMA FirstPartKeeps ==
    ASSUME IInv, stage.part \in {"first", "head"}, stage.need <= Len(stream), Takes,
           Current <= Written, NEW extra \in Nat,
           Len(PacketAt(Current).data) = stage.need + extra,
           IF extra = 0 THEN Dispatches(stage.seq, stage.type, Got)
                        ELSE Awaits("body", extra, stage.seq, stage.type, Got)
    PROVE  IInv'
<1> DEFINE packet == PacketAt(Current)
           data == packet.data
<1>1. PICK need \in Nat : need = stage.need
  BY Counts DEF IInv
<1>2. /\ data \in Seq(WireByte) /\ Len(data) = need + extra /\ need <= Len(data)
      /\ Len(BytesOf(Current)) = 4 + Len(data)
  BY <1>1, CurrentIs, SMTT(30) DEF IInv, HEADER_BYTES
<1>3. /\ Got \in Seq(WireByte) /\ Len(Got) = need /\ Consumed = 4
      /\ \A k \in 1..need : Got[k] = data[k]
  BY <1>1, <1>2, FirstPart DEF HEADER_BYTES
<1>4. stage.seq = packet.seq /\ stage.type = packet.type
  BY StageIs
<1>. HIDE DEF packet, data
<1>5. CASE extra = 0
  <2>1. Item(stage.seq, stage.type, Got) = Made(written[Current])
    BY <1>2, <1>3, <1>4, <1>5, WholePacket DEF packet, data
  <2>2. taken' = Append(taken, Made(written[Current])) /\ stage' = AtHeader
    BY <1>5, <2>1 DEF Dispatches
  <2>3. Consumed + stage.need = Len(BytesOf(Current))
    BY <1>1, <1>2, <1>3, <1>5
  <2>. QED BY <2>2, <2>3, Finished
<1>6. CASE extra # 0
  <2>1. /\ stage' = [part |-> "body", need |-> extra, seq |-> stage.seq, type |-> stage.type,
                     got |-> Got]
        /\ taken' = taken
    BY <1>6 DEF Awaits
  <2>2. /\ stage'.part = "body" /\ stage'.need = extra /\ stage'.seq = packet.seq
        /\ stage'.type = packet.type /\ stage'.got = Got
    BY <1>4, <2>1
  <2>3. /\ Consumed' = Consumed + stage.need
        /\ Consumed + stage.need <= Len(BytesOf(Current))
    BY <1>1, <1>2, <1>3, <2>2, SMTT(30) DEF Consumed, HEADER_BYTES
  <2>4. StageInPacket'
    <3>1. Current' = Current /\ Written' = Written /\ PacketAt(Current)' = packet
      BY <2>1 DEF Current, Written, PacketAt, packet, Takes
    <3>2. Got = SubSeq(data, 1, need)
      <4>1. \A k \in 1..need : data[k] \in WireByte
        BY <1>2, ElementOfSeq
      <4>2. /\ SubSeq(data, 1, need) \in Seq(WireByte) /\ Len(SubSeq(data, 1, need)) = need
            /\ \A k \in 1..need : SubSeq(data, 1, need)[k] = data[k]
        BY <4>1
      <4>. QED BY <1>3, <4>2, SeqEqual
    <3>3. extra = (need + extra) - need
      OBVIOUS
    <3>4. LET read == Len(stage'.got) IN
          /\ read <= Len(data) /\ stage'.got = SubSeq(data, 1, read)
          /\ stage'.need = Len(data) - read
      BY <1>2, <1>3, <2>2, <3>2, <3>3
    <3>. QED BY <2>2, <3>1, <3>4 DEF StageInPacket, data
  <2>5. stage'.need \in Nat /\ stage'.got \in Seq(WireByte)
    BY <1>3, <2>2
  <2>. QED BY <2>1, <2>3, <2>4, <2>5, Continued
<1>. QED BY <1>5, <1>6

\* The second byte of the first block says how much more there is.
LEMMA ReadFirstBlockKeeps ==
    ASSUME IInv, ReadFirstBlock
    PROVE  IInv'
<1> DEFINE item == written[Current]
           data == PacketAt(Current).data
           length == DecryptMessagePayload(Got, stage.seq)[2]
           extra == ExtraOf(length)
<1>1. /\ Read("first") /\ reader' = reader
      /\ IF extra = 0 THEN Dispatches(stage.seq, stage.type, Got)
                      ELSE Awaits("body", extra, stage.seq, stage.type, Got)
  BY DEF ReadFirstBlock
<1>2. /\ Takes /\ stage.part = "first" /\ stage.need <= Len(stream)
      /\ Current <= Written /\ stage.need \in Nat
  BY <1>1, ReadTakes
<1>3. /\ item \in Traffic[direction] /\ ~Refused(PacketFor[item]) /\ direction \in DOMAIN Traffic
      /\ data = PacketFor[item].data
      /\ PacketAt(Current).seq = item.seq /\ PacketAt(Current).type = item.type
  BY <1>2, CurrentIs DEF IInv, Bookkeeping, PacketAt
<1>4. /\ item.type = PacketType.OmniLink2Message /\ stage.seq = item.seq
      /\ stage.need = Parts(item.type)[2]
  <2>1. /\ PacketAt(Current).type = PacketType.OmniLink2Message
        /\ stage.seq = PacketAt(Current).seq
        /\ <<stage.part, stage.need>> = Parts(PacketAt(Current).type)
    BY <1>2, StageIs
  <2>. QED BY <1>3, <2>1
<1>5. /\ Parts(item.type) = <<"first", BLOCK_SIZE>>
      /\ ExtraBytes(Len(item.data)) \in Nat
      /\ PanelExtraBytes(Len(item.data)) = ExtraBytes(Len(item.data))
      /\ Len(data) = BLOCK_SIZE + ExtraBytes(Len(item.data))
      /\ \A first \in Seq(WireByte) :
            /\ Len(first) = BLOCK_SIZE
            /\ \A i \in 1..BLOCK_SIZE : first[i] = data[i]
            => DecryptMessagePayload(first, item.seq)[2] = Len(item.data)
  <2>. HIDE DEF item
  <2>. QED BY <1>3, <1>4, PartsFit
<1>6. stage.need = BLOCK_SIZE /\ stage.need <= Len(data)
  BY <1>2, <1>4, <1>5 DEF BLOCK_SIZE
<1>7. /\ Got \in Seq(WireByte) /\ Len(Got) = BLOCK_SIZE
      /\ \A k \in 1..BLOCK_SIZE : Got[k] = data[k]
  BY <1>2, <1>6, FirstPart
<1>8. length = Len(item.data)
  BY <1>4, <1>5, <1>7
<1>9. extra = ExtraBytes(Len(item.data))
  BY <1>5, <1>8 DEF ExtraOf
<1>. HIDE DEF extra, data, item
<1>10. extra \in Nat /\ Len(data) = stage.need + extra
  BY <1>5, <1>6, <1>9
<1>. QED BY <1>1, <1>2, <1>10, FirstPartKeeps DEF data

\* So does the second byte of a message in the clear.
LEMMA ReadClearHeadKeeps ==
    ASSUME IInv, ReadClearHead
    PROVE  IInv'
<1> DEFINE item == written[Current]
           data == PacketAt(Current).data
           length == Got[2].byte
<1>1. /\ Read("head") /\ reader' = reader
      /\ IF length =< 1 THEN Dispatches(stage.seq, stage.type, Got)
                        ELSE Awaits("body", length - 1, stage.seq, stage.type, Got)
  BY DEF ReadClearHead
<1>2. /\ Takes /\ stage.part = "head" /\ stage.need <= Len(stream)
      /\ Current <= Written /\ stage.need \in Nat
  BY <1>1, ReadTakes
<1>3. /\ item \in Traffic[direction] /\ ~Refused(PacketFor[item]) /\ direction \in DOMAIN Traffic
      /\ data = PacketFor[item].data /\ PacketAt(Current).type = item.type
  BY <1>2, CurrentIs DEF IInv, Bookkeeping, PacketAt
<1>4. item.type = PacketType.OmniLink2UnencryptedMessage /\ stage.need = Parts(item.type)[2]
  <2>1. /\ PacketAt(Current).type = PacketType.OmniLink2UnencryptedMessage
        /\ <<stage.part, stage.need>> = Parts(PacketAt(Current).type)
    BY <1>2, StageIs
  <2>. QED BY <1>3, <2>1
<1>5. /\ Parts(item.type) = <<"head", 5>>
      /\ Len(item.data) \in Nat /\ Len(item.data) >= 1 /\ Len(data) = Len(item.data) + 4
      /\ data[2].byte = Len(item.data)
  <2>. HIDE DEF item
  <2>. QED BY <1>3, <1>4, PartsFit
<1>6. stage.need = 5 /\ stage.need <= Len(data)
  BY <1>4, <1>5
<1>7. \A k \in 1..5 : Got[k] = data[k]
  BY <1>2, <1>6, FirstPart
<1>8. length = Len(item.data)
  <2>1. 2 \in 1..5
    OBVIOUS
  <2>. QED BY <1>5, <1>7, <2>1
<1>. HIDE DEF length, data, item
<1>9. length - 1 \in Nat /\ (length =< 1 <=> length - 1 = 0) /\ Len(data) = stage.need + (length - 1)
  <2>1. PICK n \in Nat : n = length
    BY <1>5, <1>8
  <2>2. n >= 1 /\ Len(data) = n + 4 /\ stage.need = 5
    BY <1>5, <1>6, <1>8, <2>1
  <2>3. n - 1 \in Nat /\ (n =< 1 <=> n - 1 = 0) /\ n + 4 = 5 + (n - 1)
    BY <2>2
  <2>. QED BY <2>1, <2>2, <2>3
<1>. QED BY <1>1, <1>2, <1>9, FirstPartKeeps DEF data

-----------------------------------------------------------------------------
(* The other steps.                                                        *)

LEMMA InitHolds == Init => IInv
<1>. SUFFICES ASSUME Init PROVE IInv
  OBVIOUS
<1>1. /\ direction \in DOMAIN Traffic /\ written = <<>> /\ closed = FALSE /\ stream = <<>>
      /\ lost = FALSE /\ stage = AtHeader /\ taken = <<>> /\ reader = "reading"
  BY DEF Init
<1>2. Len(taken) = 0 /\ Len(stream) = 0 /\ Written = 0 /\ Current = 1
  BY <1>1 DEF Written, Current
<1>3. Consumed = 0 /\ stage.need = 4 /\ stage.got = <<>>
  BY <1>1 DEF Consumed, AtHeader, HEADER_BYTES
<1>4. Bookkeeping
  <2>1. \A S : <<>> \in Seq(S)
    BY EmptySeq
  <2>2. /\ written \in Seq(Traffic[direction])
        /\ taken \in Seq({Made(item) : item \in Traffic[direction]})
    BY <1>1, <2>1, Zenon
  <2>3. stream \in Seq(WireByte) /\ stage.got \in Seq(WireByte)
    BY <1>1, <1>3, <2>1, Zenon
  <2>4. stage.need \in Nat
    BY <1>3
  <2>5. /\ closed \in BOOLEAN /\ lost \in BOOLEAN
        /\ reader \in {"reading", "ended"}
    BY <1>1
  <2>. QED BY <1>1, <2>2, <2>3, <2>4, <2>5 DEF Bookkeeping
<1>5. OnlyPacketsWritten
  BY <1>2 DEF OnlyPacketsWritten
<1>6. TakenInOrder
  BY <1>1, <1>2 DEF TakenInOrder
<1>7. StageInPacket
  BY <1>1 DEF StageInPacket
<1>8. \E begins \in [Nat -> Int] : Laid(begins)
  <2> DEFINE none == [i \in Nat |-> 0]
  <2>1. none \in [Nat -> Int] /\ none[1] = 0
    OBVIOUS
  <2>2. Laid(none)
    BY <1>2, <1>3, <2>1 DEF Laid
  <2>. QED BY <2>1, <2>2
<1>. QED BY <1>4, <1>5, <1>6, <1>7, <1>8 DEF IInv

\* What arrives no more.
LEMMA BreaksKeeps ==
    ASSUME IInv, Breaks
    PROVE  IInv'
<1>1. /\ lost' = TRUE /\ direction' = direction /\ written' = written /\ closed' = closed
      /\ stage' = stage /\ taken' = taken /\ reader' = reader
  BY DEF Breaks
<1>2. stream \in Seq(WireByte) /\ Len(stream) \in Nat
  BY Counts DEF IInv, Bookkeeping
<1>3. PICK left \in 0..Len(stream) : stream' = SubSeq(stream, 1, left)
  <2>1. PICK left \in {0, Len(stream) \div 2, Len(stream)} : stream' = SubSeq(stream, 1, left)
    BY DEF Breaks
  <2>2. left \in 0..Len(stream)
    BY <1>2
  <2>. QED BY <2>1, <2>2
<1>4. /\ stream' \in Seq(WireByte) /\ Len(stream') = left
      /\ \A k \in 1..left : stream'[k] = stream[k]
  <2>1. \A k \in 1..left : stream[k] \in WireByte
    BY <1>2, ElementOfSeq
  <2>. QED BY <1>2, <1>3, <2>1
<1>5. /\ Written' = Written /\ Current' = Current /\ Consumed' = Consumed
      /\ \A i : PacketAt(i)' = PacketAt(i) /\ BytesOf(i)' = BytesOf(i)
  BY <1>1 DEF Written, Current, Consumed, PacketAt, BytesOf
<1>6. Bookkeeping'
  BY <1>1, <1>4 DEF IInv, Bookkeeping
<1>7. OnlyPacketsWritten' /\ TakenInOrder'
  BY <1>1, <1>5 DEF IInv, OnlyPacketsWritten, TakenInOrder
<1>8. StageInPacket'
  BY <1>1, <1>5 DEF IInv, StageInPacket
<1>9. (\E begins \in [Nat -> Int] : Laid(begins))'
  <2>1. PICK begins \in [Nat -> Int] : Laid(begins)
    BY DEF IInv
  <2>2. ASSUME NEW i \in Current..Written, NEW k \in 1..Len(BytesOf(i)),
               begins[i] + k \in 1..Len(stream')
        PROVE  stream'[begins[i] + k] = BytesOf(i)[k]
    <3>1. begins[i] + k \in 1..left /\ begins[i] + k \in 1..Len(stream)
      BY <1>2, <1>3, <1>4, <2>2
    <3>. QED BY <1>4, <2>1, <2>2, <3>1 DEF Laid
  <2>3. Len(stream') <= begins[Written + 1]
    <3>1. Written + 1 \in Nat /\ Len(stream) <= begins[Written + 1]
      <4>1. Written \in Nat /\ Len(stream) <= begins[Written + 1]
        BY <2>1, Counts DEF Laid, IInv
      <4>. QED BY <4>1
    <3>2. begins[Written + 1] \in Int
      BY <3>1
    <3>. QED BY <1>2, <1>3, <1>4, <3>1, <3>2
  <2>4. Laid(begins)'
    BY <1>1, <1>5, <2>1, <2>2, <2>3 DEF Laid
  <2>. QED BY <2>4
<1>. QED BY <1>6, <1>7, <1>8, <1>9 DEF IInv

LEMMA ReadsEndKeeps ==
    ASSUME IInv, ReadsEnd
    PROVE  IInv'
<1>1. /\ reader' = "ended" /\ direction' = direction /\ written' = written /\ closed' = closed
      /\ stream' = stream /\ lost' = lost /\ stage' = stage /\ taken' = taken
  BY DEF ReadsEnd
<1>. QED BY <1>1 DEF IInv, Bookkeeping, OnlyPacketsWritten, TakenInOrder, StageInPacket, Laid,
                     Written, Current, Consumed, PacketAt, BytesOf

LEMMA StutterKeeps ==
    ASSUME IInv, UNCHANGED vars
    PROVE  IInv'
<1>1. /\ reader' = reader /\ direction' = direction /\ written' = written /\ closed' = closed
      /\ stream' = stream /\ lost' = lost /\ stage' = stage /\ taken' = taken
  BY DEF vars
<1>. QED BY <1>1 DEF IInv, Bookkeeping, OnlyPacketsWritten, TakenInOrder, StageInPacket, Laid,
                     Written, Current, Consumed, PacketAt, BytesOf

\* Where the next packet begins is what is on the way.
LEMMA WriteKeeps ==
    ASSUME IInv, Write
    PROVE  IInv'
<1>1. PICK item \in Traffic[direction] :
          /\ closed' = Closes(item)
          /\ IF Refused(PacketFor[item]) THEN UNCHANGED <<written, stream>>
             ELSE /\ written' = Append(written, item)
                  /\ stream' = stream \o EncodePacket(PacketFor[item])
  BY DEF Write
<1>2. closed' \in BOOLEAN
  BY <1>1, Zenon DEF Closes, Goodbye
<1>3. /\ ~lost /\ lost' = lost /\ direction' = direction /\ stage' = stage
      /\ taken' = taken /\ reader' = reader
  BY DEF Write
<1>4. /\ direction \in DOMAIN Traffic /\ written \in Seq(Traffic[direction])
      /\ Len(written) \in Nat /\ Len(taken) \in Nat /\ Len(stream) \in Nat
      /\ Written \in Nat /\ Written = Len(written) /\ Current \in Nat \ {0} /\ Consumed \in Nat
      /\ stream \in Seq(WireByte) /\ Len(taken) <= Written
  BY Counts DEF IInv, Bookkeeping, TakenInOrder
<1>5. PICK w \in Nat : Written = w /\ Len(written) = w /\ Len(taken) <= w
  BY <1>4
<1>6. PICK begins \in [Nat -> Int] : Laid(begins)
  BY DEF IInv
<1>7. CASE Refused(PacketFor[item])
  <2>1. stream' = stream /\ written' = written
    BY <1>1, <1>7
  <2>2. Bookkeeping'
    BY <1>2, <1>3, <2>1 DEF IInv, Bookkeeping
  <2>. QED BY <1>2, <1>3, <2>1, <2>2 DEF IInv, OnlyPacketsWritten, TakenInOrder, StageInPacket, Laid,
                     Written, Current, Consumed, PacketAt, BytesOf
<1>8. CASE ~Refused(PacketFor[item])
  <2> DEFINE bytes == EncodePacket(PacketFor[item])
  <2>1. /\ written' \in Seq(Traffic[direction']) /\ Len(written') = w + 1
        /\ written'[w + 1] = item /\ Written' = w + 1
        /\ \A i \in 1..w : written'[i] = written[i]
    <3>1. written' = Append(written, item)
      BY <1>1, <1>8
    <3>2. written \in Seq(Traffic[direction]) /\ Len(written) = w
      BY <1>4, <1>5
    <3>3. /\ written' \in Seq(Traffic[direction]) /\ Len(written') = w + 1
          /\ \A i \in 1..w : written'[i] = written[i]
          /\ written'[w + 1] = item
      BY <3>1, <3>2, AppendProperties
    <3>. QED BY <1>3, <3>3 DEF Written
  <2>2. \A i \in 1..w : PacketAt(i)' = PacketAt(i) /\ BytesOf(i)' = BytesOf(i)
    BY <2>1 DEF PacketAt, BytesOf
  <2>3. Current' = Current /\ Consumed' = Consumed
    BY <1>2, <1>3 DEF Current, Consumed
  <2>4. TakenInOrder'
    <3>1. \A n \in 1..Len(taken) : n \in 1..w
      BY <1>4, <1>5
    <3>2. \A n \in 1..Len(taken) : taken[n] = Made(written'[n])
      BY <2>1, <3>1 DEF IInv, TakenInOrder
    <3>. QED BY <1>2, <1>3, <1>4, <1>5, <2>1, <3>2 DEF TakenInOrder
  <2>5. StageInPacket'
    <3>1. CASE stage = AtHeader
      BY <1>2, <1>3, <3>1 DEF StageInPacket
    <3>2. CASE stage # AtHeader
      <4>1. Current <= Written
        BY <3>2 DEF IInv, StageInPacket
      <4>2. Current' <= Written' /\ PacketAt(Current)' = PacketAt(Current)
        BY <1>4, <1>5, <2>1, <2>3, <4>1 DEF PacketAt
      <4>. QED BY <1>2, <1>3, <3>2, <4>1, <4>2 DEF IInv, StageInPacket
    <3>. QED BY <3>1, <3>2
  <2>6. /\ stream' = stream \o bytes /\ Written' = w + 1
        /\ bytes \in Seq(WireByte) /\ Len(bytes) \in Nat
        /\ PacketAt(w + 1)' = PacketFor[item] /\ BytesOf(w + 1)' = bytes
    <3>1. bytes \in Seq(WireByte)
      BY <1>4, <1>5, <1>8, PacketBytes
    <3>2. PacketAt(w + 1)' = PacketFor[item] /\ BytesOf(w + 1)' = bytes
      BY <2>1 DEF PacketAt, BytesOf
    <3>. QED BY <1>1, <1>8, <2>1, <3>1, <3>2, LenProperties
  <2>. HIDE DEF bytes
  <2>7. /\ stream' \in Seq(WireByte) /\ Len(stream') = Len(stream) + Len(bytes)
        /\ \A k \in 1..Len(stream) : stream'[k] = stream[k]
        /\ \A k \in 1..Len(bytes) : stream'[Len(stream) + k] = bytes[k]
    <3>1. \A s, t \in Seq(WireByte) :
            /\ s \o t \in Seq(WireByte) /\ Len(s \o t) = Len(s) + Len(t)
            /\ \A k \in 1..Len(s) : (s \o t)[k] = s[k]
            /\ \A k \in 1..Len(t) : (s \o t)[Len(s) + k] = t[k]
      BY LenProperties, SMTT(30)
    <3>. QED BY <1>4, <2>6, <3>1, Zenon
  <2>8. Bookkeeping'
    BY <1>2, <1>3, <1>4, <2>1, <2>7 DEF IInv, Bookkeeping
  <2>9. OnlyPacketsWritten'
    <3>1. \A i \in 1..w + 1 : i \in 1..w \/ i = w + 1
      BY <1>4, <1>5
    <3>. QED BY <1>5, <1>8, <2>2, <2>6, <3>1 DEF IInv, OnlyPacketsWritten
  <2>10. /\ w + 1 \in Nat /\ w + 2 \in Nat /\ Current <= w + 1
        /\ begins[w + 1] = Len(stream) /\ begins[Current] + Consumed = 0
    <3>1. begins[w + 1] = Len(stream) /\ begins[Current] + Consumed = 0
      BY <1>2, <1>3, <1>5, <1>6 DEF Laid
    <3>. QED BY <1>4, <1>5, <3>1 DEF Current
  <2>11. PICK later \in [Nat -> Int] :
           /\ \A i \in Nat : i <= w + 1 => later[i] = begins[i]
           /\ later[w + 2] = Len(stream) + Len(bytes)
    <3> DEFINE f == [i \in Nat |-> IF i <= w + 1 THEN begins[i] ELSE Len(stream) + Len(bytes)]
    <3>1. f \in [Nat -> Int]
      BY <1>4, <1>5, <2>6
    <3>2. ~(w + 2 <= w + 1)
      BY <1>4, <1>5
    <3>3. \A i \in Nat : f[i] = IF i <= w + 1 THEN begins[i] ELSE Len(stream) + Len(bytes)
      OBVIOUS
    <3>. HIDE DEF f
    <3>. QED BY <2>10, <3>1, <3>2, <3>3
  <2>12. ASSUME NEW i \in Current..w
        PROVE  /\ i \in 1..w /\ i \in Nat /\ i + 1 \in Nat
               /\ later[i] = begins[i] /\ later[i + 1] = begins[i + 1]
               /\ begins[i + 1] = begins[i] + Len(BytesOf(i)) /\ begins[i + 1] <= Len(stream)
               /\ Len(BytesOf(i)) \in Nat
               /\ \A k \in 1..Len(BytesOf(i)) :
                     begins[i] + k \in 1..Len(stream) => stream[begins[i] + k] = BytesOf(i)[k]
    <3>1. i \in 1..w /\ i \in Nat /\ i + 1 \in Nat /\ i <= w + 1 /\ i + 1 <= w + 1
      BY <1>4, <1>5
    <3>2. later[i] = begins[i] /\ later[i + 1] = begins[i + 1]
      BY <2>11, <3>1
    <3>3. Len(BytesOf(i)) \in Nat
      BY <1>5, <3>1, BytesAre DEF IInv
    <3>. QED BY <1>5, <1>6, <2>10, <3>1, <3>2, <3>3 DEF Laid
  <2>13. ASSUME NEW i \in Current..w
        PROVE  /\ later[i + 1] = later[i] + Len(BytesOf(i)) /\ later[i + 1] <= later[w + 2]
               /\ \A k \in 1..Len(BytesOf(i)) :
                     later[i] + k \in 1..Len(stream') => stream'[later[i] + k] = BytesOf(i)[k]
    <3>1. later[i + 1] = later[i] + Len(BytesOf(i))
      BY <2>12
    <3>2. later[i + 1] <= later[w + 2]
      <4>1. PICK b \in Int : b = begins[i + 1]
        BY <2>12
      <4>2. PICK m, n \in Nat : m = Len(stream) /\ n = Len(bytes)
        BY <1>4, <1>5, <2>6
      <4>3. b <= m /\ later[w + 2] = m + n /\ later[i + 1] = b
        BY <2>11, <2>12, <4>1, <4>2
      <4>. QED BY <4>3
    <3>3. ASSUME NEW k \in 1..Len(BytesOf(i)), later[i] + k \in 1..Len(stream')
          PROVE  stream'[later[i] + k] = BytesOf(i)[k]
      <4>1. PICK b \in Int : b = begins[i]
        BY <2>12
      <4>2. PICK l \in Nat : l = Len(BytesOf(i))
        BY <2>12
      <4>3. k \in 1..l /\ b + l <= Len(stream) /\ b + k >= 1 /\ later[i] = b
        <5>1. k \in 1..l /\ later[i] = b
          BY <2>12, <3>3, <4>1, <4>2
        <5>2. b + l <= Len(stream)
          BY <2>12, <4>1, <4>2
        <5>3. b + k >= 1
          BY <3>3, <5>1
        <5>. QED BY <5>1, <5>2, <5>3
      <4>4. b + k \in 1..Len(stream)
        BY <1>4, <1>5, <4>3
      <4>5. stream[b + k] = BytesOf(i)[k]
        BY <2>12, <3>3, <4>1, <4>4
      <4>6. stream'[b + k] = stream[b + k]
        BY <2>7, <4>4
      <4>. QED BY <4>3, <4>5, <4>6
    <3>. QED BY <3>1, <3>2, <3>3
  <2>14. /\ later[w + 2] = later[w + 1] + Len(bytes)
        /\ \A k \in 1..Len(bytes) :
              later[w + 1] + k \in 1..Len(stream') => stream'[later[w + 1] + k] = bytes[k]
    <3>1. later[w + 1] = Len(stream)
      BY <1>4, <1>5, <2>10, <2>11
    <3>. QED BY <2>7, <2>11, <3>1
  <2>15. Laid(later)'
    <3>1. ASSUME NEW i \in Current..w + 1
          PROVE  /\ later[i + 1] = later[i] + Len(BytesOf(i)') /\ later[i + 1] <= later[w + 2]
                 /\ \A k \in 1..Len(BytesOf(i)') :
                       later[i] + k \in 1..Len(stream') => stream'[later[i] + k] = BytesOf(i)'[k]
      <4>1. CASE i \in Current..w
        <5>1. BytesOf(i)' = BytesOf(i)
          BY <2>2, <2>12, <4>1
        <5>. QED BY <2>13, <4>1, <5>1
      <4>2. CASE i = w + 1
        <5>1. i + 1 = w + 2 /\ BytesOf(i)' = bytes
          BY <1>4, <1>5, <2>6, <4>2
        <5>2. later[w + 2] <= later[w + 2]
          BY <2>10
        <5>. QED BY <2>14, <4>2, <5>1, <5>2
      <4>3. i \in Current..w \/ i = w + 1
        BY <1>4, <1>5
      <4>. QED BY <4>1, <4>2, <4>3
    <3>2. later[Current] + Consumed = 0
      BY <1>4, <1>5, <2>10, <2>11
    <3>3. Len(stream') = later[w + 2] /\ Len(stream') <= later[w + 2]
      BY <1>4, <1>5, <2>6, <2>7, <2>11
    <3>4. Written' + 1 = w + 2
      BY <1>4, <1>5, <2>6
    <3>. QED BY <2>3, <2>6, <3>1, <3>2, <3>3, <3>4 DEF Laid
  <2>. QED BY <2>4, <2>5, <2>8, <2>9, <2>15 DEF IInv
<1>. QED BY <1>7, <1>8

-----------------------------------------------------------------------------
(* The theorems.                                                           *)

(* Where each packet that is not yet read begins is known in every state,  *)
(* and what was made of each that is read: the inductive invariant, for    *)
(* any messages and any number of them.                                    *)
THEOREM Invariance == Spec => []IInv
<1>1. IInv /\ [Next]_vars => IInv'
  <2>. SUFFICES ASSUME IInv, [Next]_vars PROVE IInv'
    OBVIOUS
  <2>1. CASE Write
    BY <2>1, WriteKeeps
  <2>2. CASE Breaks
    BY <2>2, BreaksKeeps
  <2>3. CASE ReadHeader
    BY <2>3, ReadHeaderKeeps
  <2>4. CASE ReadFirstBlock
    BY <2>4, ReadFirstBlockKeeps
  <2>5. CASE ReadClearHead
    BY <2>5, ReadClearHeadKeeps
  <2>6. CASE ReadBody
    BY <2>6, ReadBodyKeeps
  <2>7. CASE ReadsEnd
    BY <2>7, ReadsEndKeeps
  <2>8. CASE UNCHANGED vars
    BY <2>8, StutterKeeps
  <2>. QED BY <2>1, <2>2, <2>3, <2>4, <2>5, <2>6, <2>7, <2>8 DEF Next, Reads
<1>. QED BY <1>1, InitHolds, PTL DEF Spec

(* The reader of a TCP connection (connection.py's _read_loop and the mock *)
(* panel's _handle_client) takes the packets that were written off the     *)
(* stream in order and whole, whatever the lengths of the messages around  *)
(* each, and never meets a header that it cannot go on with.  Of an        *)
(* encrypted message and of a control packet it makes what was written; a  *)
(* message in the clear keeps its place, but nothing is made of it.        *)
THEOREM ReadsInOrder == Spec => []ReadsWhatWasWritten
<1>1. IInv => ReadsWhatWasWritten
  <2>. SUFFICES ASSUME IInv PROVE ReadsWhatWasWritten
    OBVIOUS
  <2>1. Len(taken) <= Len(written) /\ \A n \in 1..Len(taken) : taken[n] = Made(written[n])
    BY DEF IInv, TakenInOrder, Written
  <2>2. reader # "crashed"
    BY DEF IInv, Bookkeeping
  <2>. QED BY <2>1, <2>2 DEF ReadsWhatWasWritten
<1>. QED BY <1>1, Invariance, PTL
=============================================================================
