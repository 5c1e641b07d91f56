----------------------------- MODULE MCFraming -----------------------------
(***************************************************************************)
(* Instances of Framing for TLC: messages on both sides of every multiple  *)
(* of a block that matters, at the limits of a packet and of the sequence  *)
(* numbers, among control packets.                                         *)
(***************************************************************************)
EXTENDS FramingInvariant, PanelState

Bytes(n) == [i \in 1..n |-> (37 * i + n) % 256]
Plain(seq, type, bytes) == [seq |-> seq, type |-> type, data |-> bytes, events |-> <<>>]
Msg(seq, n) == Plain(seq, PacketType.OmniLink2Message, <<23>> \o Bytes(n))
Control(type, n) == Plain(1, type, Bytes(n))
Event(word, event) ==
    [seq |-> 0, type |-> PacketType.OmniLink2Message, events |-> <<event>>,
     data |-> <<SYSTEM_EVENTS>> \o BuildSystemEventsMessage(<<word>>).payload]

MCTraffic ==
    [to_client |->
        {Msg(1, n) : n \in {0, 10, 11, 12, 26, 27, 28, 234, 235, 236, 254, 255}}
        \cup {Msg(65535, 43), Msg(256, 12),
              Plain(7, PacketType.OmniLink2UnencryptedMessage, <<23>>),
              Plain(7, PacketType.OmniLink2UnencryptedMessage, <<23>> \o Bytes(30)),
              Control(PacketType.ControllerAckNewSession, 7),
              Control(PacketType.ControllerAckSecureSession, 16),
              Control(PacketType.ControllerSessionTerminated, 0),
              Event(ZoneStateChangedWord(255, 1), ZoneStateChanged(255, 1)),
              Event(UnitStateChangedWord(300, 1), UnitStateChanged(300, 1)),
              Event(UnitStateChangedWord(511, 0), UnitStateChanged(511, 0)),
              Event(ArmingChangedWord(8, 7, 99), ArmingChanged(8, 7, 99, FALSE))},
     to_panel |->
        {Msg(2, n) : n \in {0, 11, 12, 27, 28, 235, 255}}
        \cup {Control(PacketType.ClientRequestNewSession, 0),
              Control(PacketType.ClientRequestSecureSession, 16),
              Control(PacketType.ClientSessionTerminated, 0)}]
=============================================================================
