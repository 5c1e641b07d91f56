-------------------------- MODULE FramingInvariant --------------------------
(***************************************************************************)
(* Why the reader of a TCP connection never loses its place: an inductive  *)
(* invariant of Framing about where on the stream each packet that is not  *)
(* yet read begins.                                                        *)
(***************************************************************************)
EXTENDS Framing

Written == Len(written)
PacketAt(i) == PacketFor[written[i]]
BytesOf(i) == EncodePacket(PacketAt(i))

\* The item whose packet is read next, or now, and how much of it is read.
Current == Len(taken) + 1
Consumed == IF stage.part = "header" THEN 0 ELSE HEADER_BYTES + Len(stage.got)

WireByte == [byte : Byte, block : Seq(Byte), at : 0..BLOCK_SIZE]

Bookkeeping ==
    /\ direction \in DOMAIN Traffic
    /\ closed \in BOOLEAN /\ lost \in BOOLEAN
    /\ written \in Seq(Traffic[direction])
    /\ taken \in Seq({Made(item) : item \in Traffic[direction]})
    /\ stream \in Seq(WireByte)
    /\ stage.need \in Nat /\ stage.got \in Seq(WireByte)
    /\ reader \in {"reading", "ended"}

OnlyPacketsWritten == \A i \in 1..Written : ~Refused(PacketAt(i))

\* What was read is what was written, as far as the reader can make it out.
TakenInOrder ==
    /\ Len(taken) <= Written
    /\ \A n \in 1..Len(taken) : taken[n] = Made(written[n])

\* In the middle of a packet the reader knows its header, what it has read of
\* the rest, and how much of it comes next.
StageInPacket ==
    \/ stage = AtHeader
    \/ /\ Current <= Written
       /\ stage.part \in {"first", "head", "body"}
       /\ LET packet == PacketAt(Current) read == Len(stage.got) IN
          /\ stage.seq = packet.seq /\ stage.type = packet.type
          /\ read <= Len(packet.data) /\ stage.got = SubSeq(packet.data, 1, read)
          /\ stage.part = "body" => stage.need = Len(packet.data) - read
          /\ stage.part # "body" =>
                read = 0 /\ <<stage.part, stage.need>> = Parts(packet.type)
          /\ stage.part = "first" => packet.type = PacketType.OmniLink2Message
          /\ stage.part = "head" => packet.type = PacketType.OmniLink2UnencryptedMessage

(* begins[i] is how many bytes of the stream come before packet i: none of *)
(* the next one if the reader is at a header, and if it is further less    *)
(* than none.                                                              *)
Laid(begins) ==
    /\ begins[Current] + Consumed = 0
    /\ \A i \in Current..Written :
          /\ begins[i + 1] = begins[i] + Len(BytesOf(i)) /\ begins[i + 1] <= begins[Written + 1]
          /\ \A k \in 1..Len(BytesOf(i)) :
                begins[i] + k \in 1..Len(stream) => stream[begins[i] + k] = BytesOf(i)[k]
    /\ Len(stream) <= begins[Written + 1]
    /\ ~lost => Len(stream) = begins[Written + 1]

IInv ==
    /\ Bookkeeping
    /\ OnlyPacketsWritten
    /\ TakenInOrder
    /\ StageInPacket
    /\ \E begins \in [Nat -> Int] : Laid(begins)
=============================================================================
