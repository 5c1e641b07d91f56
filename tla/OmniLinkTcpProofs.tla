------------------------- MODULE OmniLinkTcpProofs -------------------------
(***************************************************************************)
(* What holds of OmniLink over TCP alone, where a packet arrives at most   *)
(* once and in order: InvalidEncryptionKeyError is about the key, and no   *)
(* request is executed twice.  Over UDP neither is so.                     *)
(*                                                                         *)
(*   1. what a step does to the part of the state that one handshake lives *)
(*      in, and OneSession;                                                *)
(*   2. how often a request is on its way, and SentOnce;                   *)
(*   3. the two properties.                                                *)
(***************************************************************************)
EXTENDS OmniLinkProofs

-----------------------------------------------------------------------------
(* One session.                                                            *)

\* A step leaves the panel's end of c's link, and c's _state, alone.
SessionStands(c) ==
    /\ state'[c] = state[c] /\ sessionId'[c] = sessionId[c]
    /\ toPanel'[c] = toPanel[c] /\ session'[c] = session[c] /\ panelEnd'[c] = panelEnd[c]

\* Such a step keeps OneSession when it takes packets from the client's side.
LEMMA SessionStandsKeeps ==
    ASSUME NEW c \in Conns, OneSession(c), SessionStands(c),
           InFlight(toClient'[c]) \cup {hsPkt'[c]} \subseteq InFlight(toClient[c]) \cup {hsPkt[c], NoPacket},
           toClient[c] = <<>> /\ hsPkt[c] = NoPacket => toClient'[c] = <<>> /\ hsPkt'[c] = NoPacket
    PROVE  OneSession(c)'
<1>1. \A p \in InFlight(toClient'[c]) \cup {hsPkt'[c]} :
        p \in InFlight(toClient[c]) \cup {hsPkt[c]} \/ p.type = "none"
  BY DEF NoPacket
<1>2. state'[c] \in {"DISCONNECTED", "CONNECTING"}
         => /\ ~panelEnd'[c] /\ session'[c] = 0 /\ hsPkt'[c] = NoPacket
            /\ toPanel'[c] = <<>> /\ toClient'[c] = <<>>
  BY DEF OneSession, SessionStands
<1>3. state'[c] = "NEW_SESSION"
         => \/ toPanel'[c] = <<>>
            \/ /\ Len(toPanel'[c]) = 1 /\ toPanel'[c][1].type = "NewSession"
               /\ session'[c] = 0
               /\ \A p \in InFlight(toClient'[c]) \cup {hsPkt'[c]} : p.type # "AckNewSession"
  BY <1>1 DEF OneSession, SessionStands
<1>4. state'[c] = "NEW_SESSION"
         => \A p \in InFlight(toClient'[c]) \cup {hsPkt'[c]} :
                p.type = "AckNewSession" => session'[c] \in {0, p.sid}
  BY <1>1 DEF OneSession, SessionStands
<1>5. state'[c] \in {"SECURE", "ONLINE"}
         => /\ session'[c] \in {0, sessionId'[c]}
            /\ \A p \in InFlight(toPanel'[c]) : p.type # "NewSession"
  BY DEF OneSession, SessionStands
<1>6. state'[c] \in InHandshake
         => \A p \in InFlight(toPanel'[c]) : p.type # "Message"
  BY DEF OneSession, SessionStands
<1>7. state'[c] \in InHandshake /\ c \notin WrongKey
         => \A p \in InFlight(toClient'[c]) \cup {hsPkt'[c]} : p.type # "Terminated"
  BY <1>1 DEF OneSession, SessionStands
<1>. QED BY <1>2, <1>3, <1>4, <1>5, <1>6, <1>7 DEF OneSession

\* A step that changes nothing of c keeps OneSession.
LEMMA UntouchedKeeps ==
    ASSUME NEW c \in Conns, OneSession(c), SessionStands(c),
           toClient'[c] = toClient[c], hsPkt'[c] = hsPkt[c]
    PROVE  OneSession(c)'
BY SessionStandsKeeps

\* Over TCP a claim takes a number and changes nothing else.
LEMMA TcpClaim ==
    ASSUME Tcp, TypeOK, NEW c \in Conns, ClaimSeq(c)
    PROVE  toClient' = toClient
BY DEF ClaimSeq, Forget, TypeOK

\* Over TCP a write appends.
LEMMA TcpWrites ==
    ASSUME Tcp, TypeOK, NEW c \in Conns, NEW p
    PROVE  /\ ToPanel(c, p) => toPanel' = [toPanel EXCEPT ![c] = Append(@, p)]
           /\ ToClient(c, p) => toClient' = [toClient EXCEPT ![c] = Append(@, p)]
BY DEF ToPanel, ToClient, Put, Forget

\* Steps of a connection leave the others alone.
LEMMA ConnStepOthers ==
    ASSUME Tcp, TypeOK, NEW d \in Conns, ConnNext(d), NEW c \in Conns, c # d
    PROVE  SessionStands(c) /\ toClient'[c] = toClient[c] /\ hsPkt'[c] = hsPkt[c] /\ closed'[c] = closed[c]
<1> USE DEF SessionStands, panelVars, sessionVars, wireVars
<1>0. /\ state \in [Conns -> States] /\ sessionId \in [Conns -> Nat]
      /\ hsPkt \in [Conns -> Packet \cup {NoPacket}] /\ closed \in [Conns -> BOOLEAN]
      /\ panelEnd \in [Conns -> BOOLEAN]
      /\ toPanel \in [Conns -> Channel] /\ toClient \in [Conns -> Channel]
  BY DEF TypeOK, ClientTypeOK
<1>1. ASSUME Close(d)
      PROVE  /\ state'[c] = state[c] /\ closed'[c] = closed[c]
             /\ toPanel'[c] = toPanel[c] /\ toClient' = toClient
  BY <1>0, <1>1, TcpClaim, TcpWrites DEF Close, BeginClose
<1>2. CASE Connect(d) \/ SocketFails(d)
  BY <1>0, <1>2 DEF Connect, SocketFails
<1>3. CASE SocketOpens(d)
  BY <1>0, <1>3, TcpClaim, TcpWrites DEF SocketOpens, StepOne
<1>4. CASE HandshakeTimesOut(d) \/ HandshakeCrashes(d) \/ StepTwoRefused(d) \/ StepFourRefused(d)
  BY <1>0, <1>1, <1>4
     DEF HandshakeTimesOut, HandshakeCrashes, StepTwoRefused, StepFourRefused, HandshakeRaises,
         TakesHandshakePacket
<1>5. CASE StepTwo(d)
  BY <1>0, <1>5, TcpClaim, TcpWrites DEF StepTwo, StepTwoUnder, TakesHandshakePacket
<1>6. CASE StepFour(d)
  BY <1>0, <1>6 DEF StepFour, StepFourAccepting, TakesHandshakePacket
<1>7. CASE OwnerCloses(d)
  BY <1>0, <1>1, <1>7 DEF OwnerCloses
<1>8. CASE FinishClose(d)
  BY <1>8 DEF FinishClose
<1>9. ASSUME NEW p, ReceiveHandshake(d, p)
      PROVE  SessionStands(c) /\ toClient'[c] = toClient[c] /\ hsPkt'[c] = hsPkt[c] /\ closed'[c] = closed[c]
  BY <1>0, <1>9 DEF ReceiveHandshake, Arrives
<1>10. CASE Receive(d)
  BY <1>0, <1>9, <1>10
     DEF Receive, ReceiveUnsolicited, ReceiveSolicited, ReaderDiesOf, ReaderDies, Arrives
<1>11. CASE ConnectionReset(d) \/ ReaderEOF(d)
  BY <1>11 DEF ConnectionReset, ReaderDies, ReaderEOF
<1>. QED BY <1>2, <1>3, <1>4, <1>5, <1>6, <1>7, <1>8, <1>10, <1>11 DEF ConnNext, Handshake

\* A handshake stays one handshake, steps of its connection.
LEMMA ConnStepOneSession ==
    ASSUME Tcp, IInv, NEW c \in Conns, ConnNext(c), OneSession(c), ~closed[c], ~closed'[c]
    PROVE  OneSession(c)'
<1>0. /\ TypeOK
      /\ state \in [Conns -> States] /\ sessionId \in [Conns -> Nat]
      /\ hsPkt \in [Conns -> Packet \cup {NoPacket}] /\ closed \in [Conns -> BOOLEAN]
      /\ panelEnd \in [Conns -> BOOLEAN]
      /\ toPanel \in [Conns -> Channel] /\ toClient \in [Conns -> Channel]
      /\ nextSeq[c] \in Seqs
  BY DEF IInv, TypeOK, ClientTypeOK
<1>1. ~Close(c) /\ ~FinishClose(c)
  BY <1>0 DEF Close, BeginClose, FinishClose
<1>2. CASE Connect(c) \/ SocketFails(c)
  <2>1. state[c] \in {"DISCONNECTED", "CONNECTING"} /\ state'[c] \in {"DISCONNECTED", "CONNECTING"}
    BY <1>0, <1>2 DEF Connect, SocketFails
  <2>2. UNCHANGED <<sessionId, hsPkt, toPanel, toClient, panelEnd, session>>
    BY <1>2 DEF Connect, SocketFails, wireVars, panelVars
  <2>. QED BY <2>1, <2>2 DEF OneSession, InHandshake
<1>3. CASE SocketOpens(c)
  <2>1. /\ state'[c] = "NEW_SESSION" /\ session' = session /\ hsPkt' = hsPkt /\ toClient' = toClient
        /\ toPanel'[c] = Append(toPanel[c], Control("NewSession", nextSeq[c], 0))
    BY <1>0, <1>3, TcpClaim, TcpWrites DEF SocketOpens, StepOne, panelVars
  <2>2. session[c] = 0 /\ hsPkt[c] = NoPacket /\ toPanel[c] = <<>> /\ toClient[c] = <<>>
    BY <1>3 DEF SocketOpens, OneSession
  <2>3. \A p \in InFlight(toClient'[c]) \cup {hsPkt'[c]} : p.type = "none"
    BY <2>1, <2>2 DEF InFlight, NoPacket
  <2>4. Len(toPanel'[c]) = 1 /\ toPanel'[c][1].type = "NewSession"
    BY <2>1, <2>2 DEF Control
  <2>5. \A p \in InFlight(toPanel'[c]) : p.type = "NewSession"
    BY <2>1, <2>2, <2>4 DEF InFlight
  <2>. QED BY <2>1, <2>2, <2>3, <2>4, <2>5 DEF OneSession
<1>4. CASE StepTwo(c)
  <2>1. /\ state[c] = "NEW_SESSION" /\ hsPkt[c].type = "AckNewSession"
        /\ state'[c] = "SECURE" /\ sessionId'[c] = hsPkt[c].sid /\ hsPkt'[c] = NoPacket
        /\ session' = session /\ toClient' = toClient
        /\ toPanel'[c] = Append(toPanel[c], Control("SecureSession", nextSeq[c], hsPkt[c].sid))
    BY <1>0, <1>4, TcpClaim, TcpWrites DEF StepTwo, StepTwoUnder, TakesHandshakePacket, panelVars
  <2>2. toPanel[c] = <<>> /\ session[c] \in {0, hsPkt[c].sid}
    BY <2>1 DEF OneSession
  <2>3. \A p \in InFlight(toPanel'[c]) : p.type = "SecureSession"
    BY <2>1, <2>2 DEF InFlight, Control
  <2>4. c \notin WrongKey => \A p \in InFlight(toClient'[c]) \cup {hsPkt'[c]} : p.type # "Terminated"
    BY <2>1 DEF OneSession, InHandshake, NoPacket
  <2>. QED BY <2>1, <2>2, <2>3, <2>4 DEF OneSession
<1>5. CASE StepFour(c)
  <2>1. state[c] = "SECURE" /\ state'[c] = "ONLINE"
        /\ UNCHANGED <<sessionId, toPanel, toClient, session>>
    BY <1>0, <1>5 DEF StepFour, StepFourAccepting, TakesHandshakePacket, wireVars, panelVars
  <2>. QED BY <2>1 DEF OneSession, InHandshake
<1>6. ASSUME NEW p, ReceiveHandshake(c, p) PROVE OneSession(c)'
  <2>1. /\ p \in InFlight(toClient[c]) /\ InFlight(toClient'[c]) \subseteq InFlight(toClient[c])
        /\ toClient[c] # <<>>
    BY <1>0, <1>6, ArrivesRemoves DEF ReceiveHandshake, Arrives, Arrivals
  <2>2. hsPkt'[c] = p /\ SessionStands(c)
    BY <1>0, <1>6 DEF ReceiveHandshake, SessionStands, panelVars
  <2>. QED BY <2>1, <2>2, SessionStandsKeeps
<1>7. CASE Receive(c)
  <2>1. ASSUME NEW p, ReceiveUnsolicited(c, p) \/ ReceiveSolicited(c, p) \/ ReaderDiesOf(c, p)
        PROVE  OneSession(c)'
    <3>1. Arrives(c, p) /\ SessionStands(c) /\ hsPkt' = hsPkt
      BY <2>1 DEF ReceiveUnsolicited, ReceiveSolicited, ReaderDiesOf, ReaderDies, SessionStands, panelVars, sessionVars
    <3>2. InFlight(toClient'[c]) \subseteq InFlight(toClient[c]) /\ toClient[c] # <<>>
      BY <1>0, <3>1, ArrivesRemoves DEF Arrives, Arrivals
    <3>. QED BY <3>1, <3>2, SessionStandsKeeps
  <2>. QED BY <1>6, <1>7, <2>1 DEF Receive
<1>8. CASE ConnectionReset(c) \/ ReaderEOF(c)
  <2>1. SessionStands(c) /\ UNCHANGED <<toClient, hsPkt>>
    BY <1>8 DEF ConnectionReset, ReaderDies, ReaderEOF, SessionStands, panelVars, sessionVars, wireVars
  <2>. QED BY <2>1, UntouchedKeeps
<1>. QED
  BY <1>1, <1>2, <1>3, <1>4, <1>5, <1>7, <1>8
     DEF ConnNext, Handshake, HandshakeTimesOut, HandshakeCrashes, StepTwoRefused, StepFourRefused,
         HandshakeRaises, OwnerCloses

\* Steps of the panel on another connection's link leave this one alone.
LEMMA PanelStepOthers ==
    ASSUME Tcp, TypeOK, NEW d \in Conns, PanelNext(d), NEW c \in Conns, c # d
    PROVE  SessionStands(c) /\ toClient'[c] = toClient[c] /\ hsPkt'[c] = hsPkt[c]
<1>0. /\ toPanel \in [Conns -> Channel] /\ toClient \in [Conns -> Channel]
      /\ panelEnd \in [Conns -> BOOLEAN] /\ session \in [Conns -> Nat]
  BY DEF TypeOK, PanelTypeOK, Slots
<1>1. UNCHANGED clientVars
  BY DEF PanelNext, PanelHandles, NewSession, RefusesSession, SecureSession, SessionEnd,
         ExecutesRequest, RejectsGarbled, NoSessionForRequest, TerminatesSession,
         PushEvent, PanelDrops, WritesGarbage
<1>2. toPanel'[c] = toPanel[c]
  BY <1>0 DEF PanelNext, PanelHandles, NewSession, RefusesSession, SecureSession, SessionEnd,
         ExecutesRequest, RejectsGarbled, NoSessionForRequest, TerminatesSession,
         PushEvent, PanelDrops, WritesGarbage, Serves
<1>3. toClient'[c] = toClient[c]
  BY <1>0 DEF PanelNext, PanelHandles, NewSession, RefusesSession, SecureSession, SessionEnd,
         ExecutesRequest, RejectsGarbled, NoSessionForRequest, TerminatesSession,
         PushEvent, PanelDrops, WritesGarbage, Reply, ToClient
<1>4. session'[c] = session[c] /\ panelEnd'[c] = panelEnd[c]
  BY <1>0 DEF PanelNext, PanelHandles, NewSession, RefusesSession, SecureSession, SessionEnd,
         ExecutesRequest, RejectsGarbled, NoSessionForRequest, TerminatesSession,
         PushEvent, PanelDrops, WritesGarbage, Breaks, TaskEnds, Slot, panelVars
<1>. QED BY <1>1, <1>2, <1>3, <1>4 DEF SessionStands, clientVars

\* Over TCP the panel reads the head of the channel.
LEMMA TcpServes ==
    ASSUME Tcp, TypeOK, NEW c \in Conns, NEW p, Serves(c, p)
    PROVE  /\ panelEnd[c] /\ toPanel[c] \in Seq(Packet) /\ toPanel[c] # <<>>
           /\ p = toPanel[c][1] /\ p \in Packet /\ p.seq \in Seqs /\ p \in InFlight(toPanel[c])
           /\ toPanel' = [toPanel EXCEPT ![c] = Tail(@)]
           /\ InFlight(toPanel'[c]) \subseteq InFlight(toPanel[c])
           /\ Len(toPanel[c]) = 1 => toPanel'[c] = <<>>
<1>1. toPanel \in [Conns -> Channel] /\ toPanel[c] \in Seq(Packet)
  BY DEF TypeOK, Channel
<1>2. panelEnd[c] /\ toPanel[c] # <<>> /\ p = Head(toPanel[c])
      /\ toPanel' = [toPanel EXCEPT ![c] = Tail(@)]
  BY <1>1 DEF Serves, Arrivals, AfterArrival
<1>3. Len(toPanel[c]) = 1 => Tail(toPanel[c]) = <<>>
  <2>1. Tail(toPanel[c]) \in Seq(Packet) /\ (Len(toPanel[c]) = 1 => Len(Tail(toPanel[c])) = 0)
    BY <1>1, <1>2
  <2>2. \A s \in Seq(Packet) : Len(s) = 0 => s = <<>>
    OBVIOUS
  <2>. QED BY <2>1, <2>2
<1>4. p \in Packet /\ p \in InFlight(toPanel[c]) /\ InFlight(toPanel'[c]) \subseteq InFlight(toPanel[c])
  BY <1>1, ServesRemoves DEF TypeOK
<1>5. p.seq \in Seqs
  BY <1>4 DEF Packet
<1>. QED BY <1>1, <1>2, <1>3, <1>4, <1>5

\* The panel wrote nothing to c, or a packet of this type.
Wrote(c, type) ==
    \A q \in InFlight(toClient'[c]) : q \in InFlight(toClient[c]) \/ q.type = type

\* A handshake stays one handshake, steps of the panel.
LEMMA PanelStepOneSession ==
    ASSUME Tcp, IInv, NEW c \in Conns, PanelNext(c), OneSession(c), ~closed[c]
    PROVE  OneSession(c)'
<1>0. /\ TypeOK
      /\ state \in [Conns -> States] /\ session \in [Conns -> Nat] /\ Slot(c) = c
      /\ toPanel \in [Conns -> Channel] /\ toClient \in [Conns -> Channel]
      /\ hsPkt[c] \in Packet \cup {NoPacket}
  BY DEF IInv, TypeOK, ClientTypeOK, PanelTypeOK, Slots, Slot
<1>1. UNCHANGED clientVars
  BY DEF PanelNext, PanelHandles, NewSession, RefusesSession, SecureSession, SessionEnd,
         ExecutesRequest, RejectsGarbled, NoSessionForRequest, TerminatesSession,
         PushEvent, PanelDrops, WritesGarbage
<1>2. ASSUME NEW p, Serves(c, p)
      PROVE  /\ state[c] \in {"NEW_SESSION", "SECURE", "ONLINE"}
             /\ state[c] = "NEW_SESSION"
                  => p.type = "NewSession" /\ session[c] = 0 /\ toPanel'[c] = <<>>
                     /\ \A q \in InFlight(toClient[c]) \cup {hsPkt[c]} : q.type # "AckNewSession"
             /\ state[c] \in {"SECURE", "ONLINE"} => p.type # "NewSession"
             /\ state[c] = "SECURE" => p.type # "Message"
             /\ \A q \in InFlight(toPanel'[c]) : q \in InFlight(toPanel[c])
  BY <1>0, <1>2, TcpServes DEF OneSession, InHandshake, States
<1>3. /\ \A q \in Packet : ToClient(c, q) => Wrote(c, q.type)
      /\ \A type \in PanelTypes, n \in Seqs, sid \in Nat :
             ToClient(c, Control(type, n, sid)) => Wrote(c, type)
      /\ \A type \in PanelTypes : toClient' = toClient => Wrote(c, type)
  <2>1. ASSUME NEW q \in Packet, ToClient(c, q) PROVE Wrote(c, q.type)
    BY <1>0, <2>1, ToClientAdds DEF Wrote
  <2>2. ASSUME NEW type \in PanelTypes, NEW n \in Seqs, NEW sid \in Nat
        PROVE  Control(type, n, sid) \in Packet /\ Control(type, n, sid).type = type
    BY ControlIsPacket DEF Control
  <2>3. \A type \in PanelTypes : toClient' = toClient => Wrote(c, type)
    BY DEF Wrote
  <2>. QED BY <2>1, <2>2, <2>3
<1>. DEFINE Types == {"CannotStart", "AckSecure", "Terminated", "Message", "Garbage"}
            Minds(type) == type = "Terminated" /\ c \notin WrongKey
\* A step in a session that adds at most one packet, of a type the handshake
\* does not mind.
<1>4. ASSUME state[c] \in {"NEW_SESSION", "SECURE", "ONLINE"},
             session'[c] \in {session[c], 0},
             \A q \in InFlight(toPanel'[c]) : q \in InFlight(toPanel[c]),
             toPanel'[c] \in {toPanel[c], <<>>} \/ state[c] # "NEW_SESSION",
             NEW type \in Types, Wrote(c, type), Minds(type) => state[c] = "ONLINE"
      PROVE  OneSession(c)'
  <2>1. UNCHANGED <<state, sessionId, hsPkt>>
    BY <1>1 DEF clientVars
  <2>2. state'[c] = "NEW_SESSION"
         => \/ toPanel'[c] = <<>>
            \/ /\ Len(toPanel'[c]) = 1 /\ toPanel'[c][1].type = "NewSession"
               /\ session'[c] = 0
               /\ \A p \in InFlight(toClient'[c]) \cup {hsPkt'[c]} : p.type # "AckNewSession"
    BY <1>4, <2>1 DEF OneSession, Wrote
  <2>3. state'[c] = "NEW_SESSION"
         => \A p \in InFlight(toClient'[c]) \cup {hsPkt'[c]} :
                p.type = "AckNewSession" => session'[c] \in {0, p.sid}
    BY <1>4, <2>1 DEF OneSession, Wrote
  <2>4. state'[c] \in {"SECURE", "ONLINE"}
         => /\ session'[c] \in {0, sessionId'[c]}
            /\ \A p \in InFlight(toPanel'[c]) : p.type # "NewSession"
    BY <1>4, <2>1 DEF OneSession
  <2>5. state'[c] \in InHandshake
         => \A p \in InFlight(toPanel'[c]) : p.type # "Message"
    BY <1>4, <2>1 DEF OneSession
  <2>6. state'[c] \in InHandshake /\ c \notin WrongKey
         => \A p \in InFlight(toClient'[c]) \cup {hsPkt'[c]} : p.type # "Terminated"
    BY <1>4, <2>1 DEF OneSession, InHandshake, Wrote
  <2>. QED BY <1>4, <2>1, <2>2, <2>3, <2>4, <2>5, <2>6 DEF OneSession
<1>5. ASSUME NEW p, NewSession(c, p) PROVE OneSession(c)'
  <2>1. Serves(c, p) /\ p.type = "NewSession" /\ session'[c] = nextSid
        /\ ToClient(c, Control("AckNewSession", p.seq, nextSid))
    BY <1>0, <1>5 DEF NewSession, Reply
  <2>2. state[c] = "NEW_SESSION" /\ toPanel'[c] = <<>>
        /\ \A q \in InFlight(toClient[c]) \cup {hsPkt[c]} : q.type # "AckNewSession"
    BY <1>2, <2>1
  <2>3. Control("AckNewSession", p.seq, nextSid) \in Packet
    <3>1. p.seq \in Seqs /\ nextSid \in Nat /\ "AckNewSession" \in ClientTypes \cup PanelTypes
      BY <1>0, <2>1, TcpServes DEF TypeOK, PanelTypeOK, PanelTypes, HandshakeTypes
    <3>. QED BY <3>1, ControlIsPacket
  <2>4. InFlight(toClient'[c]) = InFlight(toClient[c]) \cup {Control("AckNewSession", p.seq, nextSid)}
    BY <1>0, <2>1, <2>3, ToClientAdds
  <2>5. \A q \in InFlight(toClient'[c]) \cup {hsPkt'[c]} :
           /\ q.type = "AckNewSession" => q.sid = session'[c]
           /\ q.type = "Terminated" => q \in InFlight(toClient[c]) \cup {hsPkt[c]}
    BY <1>1, <2>1, <2>2, <2>4 DEF Control, clientVars
  <2>6. InFlight(toPanel'[c]) = {}
    BY <2>2 DEF InFlight
  <2>. QED BY <1>1, <2>2, <2>5, <2>6 DEF OneSession, InHandshake, clientVars
<1>6. ASSUME NEW p, RefusesSession(c, p) PROVE OneSession(c)'
  <2>1. Serves(c, p) /\ p.type = "NewSession" /\ session' = session
        /\ ToClient(c, Control("CannotStart", p.seq, 0))
    BY <1>6 DEF RefusesSession, Reply, panelVars
  <2>2. state[c] = "NEW_SESSION" /\ toPanel'[c] = <<>>
        /\ \A q \in InFlight(toPanel'[c]) : q \in InFlight(toPanel[c])
    BY <1>2, <2>1
  <2>3. Wrote(c, "CannotStart")
    BY <1>0, <1>3, <2>1, TcpServes DEF PanelTypes, HandshakeTypes
  <2>. QED BY <1>4, <2>1, <2>2, <2>3
<1>7. ASSUME NEW p, SecureSession(c, p) PROVE OneSession(c)'
  <2>1. Serves(c, p) /\ p.type = "SecureSession" /\ p \in InFlight(toPanel[c]) /\ p \in Packet
    BY <1>0, <1>7, TcpServes DEF SecureSession
  <2>2. p.sid = sessionId[c]
    BY <2>1 DEF IInv, OutboundInv
  <2>3. state[c] \in {"SECURE", "ONLINE"} /\ session[c] \in {0, sessionId[c]}
        /\ \A q \in InFlight(toPanel'[c]) : q \in InFlight(toPanel[c])
    BY <1>2, <2>1 DEF OneSession
  <2>4. session'[c] \in {session[c], 0}
    BY <1>0, <1>7 DEF SecureSession, Breaks
  <2>5. p.seq \in Seqs /\ p.sid \in Nat /\ {"AckSecure", "Terminated"} \subseteq PanelTypes
    BY <2>1 DEF Packet, PanelTypes, HandshakeTypes
  <2>6. session[c] # 0 /\ ~Decrypts(c, p) => c \in WrongKey
    BY <1>0, <2>2, <2>3 DEF Decrypts
  <2>7. Wrote(c, "AckSecure") \/ (Wrote(c, "Terminated") /\ c \in WrongKey)
    BY <1>0, <1>3, <1>7, <2>5, <2>6 DEF SecureSession, Reply
  <2>. QED BY <1>4, <2>3, <2>4, <2>7
<1>8. ASSUME NEW p, SessionEnd(c, p) \/ NoSessionForRequest(c, p) PROVE OneSession(c)'
  <2>1. Serves(c, p) /\ p.type # "NewSession" /\ session'[c] \in {session[c], 0} /\ toClient' = toClient
    BY <1>0, <1>8 DEF SessionEnd, NoSessionForRequest, Breaks
  <2>2. state[c] \in {"SECURE", "ONLINE"} /\ \A q \in InFlight(toPanel'[c]) : q \in InFlight(toPanel[c])
    BY <1>2, <2>1
  <2>3. Wrote(c, "Message")
    BY <1>3, <2>1 DEF PanelTypes
  <2>. QED BY <1>4, <2>1, <2>2, <2>3
<1>9. ASSUME NEW p, ExecutesRequest(c, p) \/ TerminatesSession(c, p) PROVE OneSession(c)'
  <2>1. Serves(c, p) /\ p.type = "Message" /\ session'[c] \in {session[c], 0} /\ p \in Packet
    BY <1>0, <1>9, TcpServes DEF ExecutesRequest, TerminatesSession
  <2>2. state[c] = "ONLINE" /\ \A q \in InFlight(toPanel'[c]) : q \in InFlight(toPanel[c])
    BY <1>2, <2>1
  <2>3. CASE ExecutesRequest(c, p)
    <3>1. p.seq \in Seqs /\ session[c] \in Nat /\ p.body \in Bodies
      BY <1>0, <2>1 DEF Packet
    <3>2. MessagePacket(p.seq, session[c], p.body) \in Packet
          /\ MessagePacket(p.seq, session[c], p.body).type = "Message"
      BY <3>1, MessageIsPacket DEF MessagePacket
    <3>3. Wrote(c, "Message")
      BY <1>0, <1>3, <2>3, <3>2 DEF ExecutesRequest, Reply
    <3>. QED BY <1>4, <2>1, <2>2, <3>3
  <2>4. CASE TerminatesSession(c, p)
    <3>1. p.seq \in Seqs /\ "Terminated" \in PanelTypes
      BY <2>1 DEF Packet, PanelTypes, HandshakeTypes
    <3>2. Wrote(c, "Terminated")
      BY <1>3, <2>4, <3>1 DEF TerminatesSession, Reply
    <3>. QED BY <1>4, <2>1, <2>2, <3>2
  <2>. QED BY <1>9, <2>3, <2>4
<1>10. ASSUME NEW sid \in 1 .. MaxSid, PushEvent(c, sid) PROVE OneSession(c)'
  <2>1. /\ session' = session /\ toPanel' = toPanel /\ panelEnd' = panelEnd
        /\ panelEnd[c] => ToClient(c, MessagePacket(0, sid, Push))
        /\ ~panelEnd[c] => toClient' = toClient
    BY <1>10 DEF PushEvent
  <2>2. CASE panelEnd[c]
    <3>1. 0 \in Seqs /\ sid \in Nat /\ Push \in Bodies
      BY LinkAssumption DEF Bodies, Seqs
    <3>2. MessagePacket(0, sid, Push) \in Packet /\ MessagePacket(0, sid, Push).type = "Message"
      BY <3>1, MessageIsPacket DEF MessagePacket
    <3>4. Wrote(c, "Message")
      BY <1>3, <2>1, <2>2, <3>2
    <3>3. state[c] \in {"NEW_SESSION", "SECURE", "ONLINE"}
      BY <1>0, <2>2 DEF OneSession, States
    <3>. QED BY <1>4, <2>1, <3>3, <3>4
  <2>3. CASE ~panelEnd[c]
    BY <1>1, <2>1, <2>3, UntouchedKeeps DEF SessionStands, clientVars
  <2>. QED BY <2>2, <2>3
<1>11. CASE PanelDrops(c) \/ WritesGarbage(c)
  <2>1. panelEnd[c] /\ toPanel' = toPanel /\ session'[c] \in {session[c], 0}
    BY <1>0, <1>11 DEF PanelDrops, WritesGarbage, Breaks, panelVars
  <2>2. Wrote(c, "Garbage")
    <3>1. [NoPacket EXCEPT !.type = "Garbage"] \in Packet
      BY LinkAssumption DEF NoPacket, Packet, PanelTypes, Bodies, Seqs
    <3>2. [NoPacket EXCEPT !.type = "Garbage"].type = "Garbage"
      BY DEF NoPacket
    <3>3. "Garbage" \in PanelTypes
      BY DEF PanelTypes
    <3>. QED BY <1>3, <1>11, <3>1, <3>2, <3>3 DEF PanelDrops, WritesGarbage, Reply
  <2>3. state[c] \in {"NEW_SESSION", "SECURE", "ONLINE"}
    BY <1>0, <2>1 DEF OneSession, States
  <2>. QED BY <1>4, <2>1, <2>2, <2>3
<1>12. \A p : ~RejectsGarbled(c, p)
  BY DEF RejectsGarbled
<1>. QED BY <1>5, <1>6, <1>7, <1>8, <1>9, <1>10, <1>11, <1>12 DEF PanelNext, PanelHandles

\* Over TCP there is no second attempt.
LEMMA TcpTriesOnce ==
    ASSUME Tcp, IInv, NEW r \in Calls
    PROVE  ~RetryAfterTimeout(r)
<1>. SUFFICES ASSUME RetryAfterTimeout(r) PROVE FALSE
  OBVIOUS
<1>1. call[r].pc = "expired" /\ call[r].tries < 1
  BY DEF RetryAfterTimeout, MaxAttempts
<1>2. call[r].tries \in Nat /\ call[r].tries > 0
  BY <1>1 DEF IInv, NumbersInv, InFlightStates, TypeOK, ClientTypeOK, CallRecord
<1>. QED BY <1>1, <1>2

\* What a request puts on the wire over TCP: the one packet of Request.
LEMMA TcpCallWires ==
    ASSUME Tcp, IInv, NEW r \in Calls, CallNext(r)
    PROVE  /\ UNCHANGED <<sessionVars, panelVars, toClient, panelEnd>>
           /\ \/ toPanel' = toPanel
              \/ /\ call[r].pc = "idle" /\ call'[r].pc # "idle" /\ state[Owner[r]] = "ONLINE"
                 /\ \E p \in Packet : p.type = "Message" /\ p.body = r
                        /\ toPanel' = [toPanel EXCEPT ![Owner[r]] = Append(@, p)]
<1>0. TypeOK /\ Owner[r] \in Conns
  BY LinkAssumption DEF IInv
<1>1. CASE Request(r)
  <2> DEFINE p == MessagePacket(nextSeq[Owner[r]], sessionId[Owner[r]], r)
  <2>1. SendEncrypted(r, 1, pending[Owner[r]]) /\ call[r].pc = "idle" /\ state[Owner[r]] = "ONLINE"
        /\ UNCHANGED <<sessionVars, panelEnd, panelVars>>
    BY <1>1 DEF Request
  <2>2. toClient' = toClient
    BY <1>0, <2>1, TcpClaim DEF SendEncrypted
  <2>3. clientEnd[Owner[r]]
    BY <1>0, <2>1 DEF IInv, LifecycleInv
  <2>4. ToPanel(Owner[r], p)
    BY <2>1, <2>3 DEF SendEncrypted
  <2>5. p \in Packet /\ p.type = "Message" /\ p.body = r
    <3>1. nextSeq[Owner[r]] \in Seqs /\ sessionId[Owner[r]] \in Nat /\ r \in Bodies
      BY <1>0 DEF TypeOK, ClientTypeOK, Bodies
    <3>2. p \in Packet
      BY <3>1, MessageIsPacket
    <3>. QED BY <3>2 DEF MessagePacket
  <2>6. toPanel' = [toPanel EXCEPT ![Owner[r]] = Append(@, p)]
    BY <1>0, <2>4, TcpWrites
  <2>7. call'[r].pc # "idle"
    <3>1. /\ call \in [Calls -> CallRecord]
          /\ \E n \in Seqs : call' = [call EXCEPT ![r] = [@ EXCEPT !.pc = "waiting",
                                                   !.fut = "pending", !.seq = n, !.tries = 1]]
      BY <1>0, <2>1, <2>3 DEF SendEncrypted, TypeOK, ClientTypeOK
    <3>. QED BY <3>1 DEF CallRecord
  <2>. HIDE DEF p
  <2>. QED BY <2>1, <2>2, <2>5, <2>6, <2>7
<1>2. CASE RequestOffline(r) \/ Returns(r) \/ TimerFires(r) \/ RequestTimesOut(r) \/ CallerCancels(r)
  BY <1>2 DEF RequestOffline, Returns, TimerFires, RequestTimesOut, CallerCancels, wireVars
<1>. QED BY <1>1, <1>2, TcpTriesOnce DEF CallNext

\* A handshake stays one handshake, steps of a request.
LEMMA CallStepOneSession ==
    ASSUME Tcp, IInv, NEW r \in Calls, CallNext(r), NEW c \in Conns, OneSession(c)
    PROVE  OneSession(c)'
<1>0. TypeOK /\ Owner[r] \in Conns /\ toPanel \in [Conns -> Channel]
  BY LinkAssumption DEF IInv, TypeOK
<1>1. UNCHANGED <<sessionVars, panelVars, toClient, panelEnd>>
  BY TcpCallWires
<1>2. CASE toPanel'[c] = toPanel[c]
  BY <1>1, <1>2, UntouchedKeeps DEF SessionStands, sessionVars, panelVars
<1>3. ASSUME c = Owner[r], state[c] = "ONLINE", NEW p \in Packet, p.type = "Message",
             toPanel' = [toPanel EXCEPT ![c] = Append(@, p)]
      PROVE  OneSession(c)'
  <2>1. InFlight(toPanel'[c]) = InFlight(toPanel[c]) \cup {p}
    BY <1>0, <1>3, PutAdds DEF Put
  <2>. QED BY <1>1, <1>3, <2>1 DEF OneSession, InHandshake, sessionVars, panelVars
<1>. QED BY <1>0, <1>2, <1>3, TcpCallWires

\* No termination during the handshake of a connection with the right key.
LEMMA OneSessionStep == IInv /\ OneSessionInv /\ [Next]_vars => OneSessionInv'
<1>. SUFFICES ASSUME IInv, OneSessionInv, [Next]_vars, Tcp, NEW c \in Conns, ~closed'[c]
              PROVE  OneSession(c)'
  BY DEF OneSessionInv
<1>0. TypeOK /\ ~closed[c] /\ OneSession(c)
  <2>1. closed[c] => closed'[c]
    BY StepForward DEF IInv, Forward
  <2>. QED BY <2>1 DEF IInv, OneSessionInv
<1>1. ASSUME NEW d \in Conns, ConnNext(d) PROVE OneSession(c)'
  BY <1>0, <1>1, ConnStepOneSession, ConnStepOthers, UntouchedKeeps
<1>2. ASSUME NEW d \in Conns, PanelNext(d) PROVE OneSession(c)'
  BY <1>0, <1>2, PanelStepOneSession, PanelStepOthers, UntouchedKeeps
<1>3. ASSUME NEW r \in Calls, CallNext(r) PROVE OneSession(c)'
  BY <1>0, <1>3, CallStepOneSession
<1>4. CASE UNCHANGED vars
  BY <1>0, <1>4, UntouchedKeeps DEF vars, clientVars, panelVars, wireVars, SessionStands
<1>. QED BY <1>1, <1>2, <1>3, <1>4 DEF Next

\* A termination that raises InvalidEncryptionKeyError is about the key.
LEMMA BadKeyStep ==
    IInv /\ OneSessionInv /\ (Tcp => BadKeyIsBadKey) /\ [Next]_vars => (Tcp => BadKeyIsBadKey)'
<1>. SUFFICES ASSUME IInv, OneSessionInv, BadKeyIsBadKey, [Next]_vars, Tcp,
                     NEW c \in Conns, outcome'[c] = "badkey"
              PROVE  c \in WrongKey
  BY DEF BadKeyIsBadKey, Tcp
<1>0. outcome \in [Conns -> Outcomes]
  BY DEF IInv, TypeOK, ClientTypeOK
<1>1. CASE outcome[c] = "badkey"
  BY <1>1 DEF BadKeyIsBadKey
<1>2. ASSUME StepFourRefused(c), hsPkt[c].type = "Terminated" PROVE c \in WrongKey
  <2>1. state[c] = "SECURE" /\ ~closed[c]
    BY <1>2 DEF StepFourRefused, IInv, LifecycleInv
  <2>. QED BY <1>2, <2>1 DEF OneSessionInv, OneSession, InHandshake
<1>3. ASSUME NEW d \in Conns, ConnNext(d)
      PROVE  \/ outcome'[c] = outcome[c] \/ outcome'[c] # "badkey"
             \/ StepFourRefused(c) /\ hsPkt[c].type = "Terminated"
  <2>1. CASE Connect(d) \/ SocketFails(d) \/ StepFour(d)
    BY <1>0, <2>1 DEF Connect, SocketFails, StepFour, StepFourAccepting
  <2>2. CASE HandshakeTimesOut(d) \/ HandshakeCrashes(d) \/ StepTwoRefused(d)
    BY <1>0, <2>2 DEF HandshakeTimesOut, HandshakeCrashes, StepTwoRefused, HandshakeRaises
  <2>3. CASE StepFourRefused(d)
    BY <1>0, <2>3 DEF StepFourRefused, HandshakeRaises
  <2>4. CASE UNCHANGED outcome
    BY <2>4
  <2>. QED
    BY <1>3, <2>1, <2>2, <2>3, <2>4
       DEF ConnNext, Handshake, Receive, SocketOpens, StepTwo, StepTwoUnder, OwnerCloses, FinishClose,
           ReceiveHandshake, ReceiveUnsolicited, ReceiveSolicited, ReaderDiesOf, ConnectionReset,
           ReaderDies, ReaderEOF, sessionVars
<1>4. ASSUME NEW d \in Conns, PanelNext(d) PROVE UNCHANGED outcome
  BY <1>4 DEF PanelNext, PanelHandles, NewSession, RefusesSession, SecureSession, SessionEnd,
         ExecutesRequest, RejectsGarbled, NoSessionForRequest, TerminatesSession,
         PushEvent, PanelDrops, WritesGarbage, clientVars
<1>5. ASSUME NEW r \in Calls, CallNext(r) PROVE UNCHANGED outcome
  BY <1>5, TcpCallWires DEF sessionVars
<1>6. CASE UNCHANGED vars
  BY <1>1, <1>6 DEF vars, clientVars
<1>. QED BY <1>1, <1>2, <1>3, <1>4, <1>5, <1>6 DEF Next

-----------------------------------------------------------------------------
(* Once on its way.                                                        *)

\* A packet that is put last carries a request once more, or not.
LEMMA AppendCarries ==
    ASSUME NEW chan \in Seq(Packet), NEW p \in Packet, NEW r
    PROVE  /\ NoneCarries(chan, r) => OneCarries(Append(chan, p), r)
           /\ NoneCarries(chan, r) /\ ~Carries(p, r) => NoneCarries(Append(chan, p), r)
           /\ OneCarries(chan, r) /\ ~Carries(p, r) => OneCarries(Append(chan, p), r)
<1>1. /\ DOMAIN Append(chan, p) = DOMAIN chan \cup {Len(chan) + 1}
      /\ \A i \in DOMAIN chan : Append(chan, p)[i] = chan[i]
      /\ Append(chan, p)[Len(chan) + 1] = p
  OBVIOUS
<1>2. NoneCarries(chan, r) => OneCarries(Append(chan, p), r)
  BY <1>1 DEF NoneCarries, OneCarries
<1>3. NoneCarries(chan, r) /\ ~Carries(p, r) => NoneCarries(Append(chan, p), r)
  BY <1>1 DEF NoneCarries
<1>4. OneCarries(chan, r) /\ ~Carries(p, r) => OneCarries(Append(chan, p), r)
  BY <1>1 DEF OneCarries
<1>. QED BY <1>2, <1>3, <1>4

\* What is left behind the head carries no more than the whole, and nothing
\* that the head carries.
LEMMA TailCarries ==
    ASSUME NEW chan \in Seq(Packet), chan # <<>>, NEW r
    PROVE  /\ NoneCarries(chan, r) => NoneCarries(Tail(chan), r)
           /\ OneCarries(chan, r) => OneCarries(Tail(chan), r)
           /\ OneCarries(chan, r) /\ Carries(chan[1], r) => NoneCarries(Tail(chan), r)
<1>1. /\ 1 \in DOMAIN chan
      /\ \A i \in DOMAIN Tail(chan) : /\ i \in Nat /\ i + 1 \in DOMAIN chan /\ i + 1 # 1
                                      /\ Tail(chan)[i] = chan[i + 1]
  OBVIOUS
<1>2. NoneCarries(chan, r) => NoneCarries(Tail(chan), r)
  BY <1>1 DEF NoneCarries
<1>3. OneCarries(chan, r) => OneCarries(Tail(chan), r)
  BY <1>1 DEF OneCarries
<1>4. OneCarries(chan, r) /\ Carries(chan[1], r) => NoneCarries(Tail(chan), r)
  BY <1>1 DEF OneCarries, NoneCarries
<1>. QED BY <1>2, <1>3, <1>4

\* A step that sends nothing, or nothing that carries r, keeps SentOnce.
LEMMA SentOnceKept ==
    ASSUME TypeOK, Tcp, NEW r \in Calls, SentOnce(r), executions'[r] = executions[r],
           call[r].pc # "idle" => call'[r].pc # "idle",
           \/ toPanel'[Owner[r]] = toPanel[Owner[r]]
           \/ \E p \in Packet : ~Carries(p, r) /\ toPanel'[Owner[r]] = Append(toPanel[Owner[r]], p)
           \/ toPanel[Owner[r]] # <<>> /\ toPanel'[Owner[r]] = Tail(toPanel[Owner[r]])
    PROVE  SentOnce(r)'
<1>1. toPanel[Owner[r]] \in Seq(Packet)
  BY LinkAssumption DEF TypeOK, Channel
<1>2. NoneCarries(toPanel[Owner[r]], r) => NoneCarries(toPanel'[Owner[r]], r)
  BY <1>1, AppendCarries, TailCarries
<1>3. OneCarries(toPanel[Owner[r]], r) => OneCarries(toPanel'[Owner[r]], r)
  BY <1>1, AppendCarries, TailCarries
<1>. QED BY <1>2, <1>3 DEF SentOnce

\* A connection of its own accord writes no request.
LEMMA ConnStepWrites ==
    ASSUME Tcp, TypeOK, NEW d \in Conns, ConnNext(d)
    PROVE  /\ UNCHANGED executions
           /\ \/ toPanel' = toPanel
              \/ \E p \in Packet : p.type # "Message"
                                   /\ toPanel' = [toPanel EXCEPT ![d] = Append(@, p)]
<1>0. nextSeq[d] \in Seqs /\ hsPkt[d] \in Packet \cup {NoPacket}
  BY DEF TypeOK, ClientTypeOK
<1>1. \A type \in ClientTypes \ {"Message"}, sid \in Nat :
        ToPanel(d, Control(type, nextSeq[d], sid))
          => \E p \in Packet : p.type # "Message" /\ toPanel' = [toPanel EXCEPT ![d] = Append(@, p)]
  <2>. SUFFICES ASSUME NEW type \in ClientTypes \ {"Message"}, NEW sid \in Nat,
                       ToPanel(d, Control(type, nextSeq[d], sid))
                PROVE  \E p \in Packet : p.type # "Message"
                                         /\ toPanel' = [toPanel EXCEPT ![d] = Append(@, p)]
    OBVIOUS
  <2>1. Control(type, nextSeq[d], sid) \in Packet
    BY <1>0, ControlIsPacket
  <2>2. Control(type, nextSeq[d], sid).type = type
    BY DEF Control
  <2>. QED BY <2>1, <2>2, TcpWrites
<1>2. {"SessionEnd", "NewSession", "SecureSession"} \subseteq ClientTypes \ {"Message"}
  BY DEF ClientTypes
<1>3. ASSUME Close(d)
      PROVE  \/ toPanel' = toPanel
             \/ ToPanel(d, Control("SessionEnd", nextSeq[d], 0))
  BY <1>3 DEF Close, BeginClose
<1>4. CASE HandshakeTimesOut(d) \/ HandshakeCrashes(d) \/ StepTwoRefused(d) \/ StepFourRefused(d)
           \/ OwnerCloses(d)
  BY <1>1, <1>2, <1>3, <1>4
     DEF HandshakeTimesOut, HandshakeCrashes, StepTwoRefused, StepFourRefused, HandshakeRaises,
         OwnerCloses, panelVars
<1>5. CASE SocketOpens(d)
  BY <1>1, <1>2, <1>5 DEF SocketOpens, StepOne, panelVars
<1>6. CASE StepTwo(d)
  <2>1. hsPkt[d].sid \in Nat
    BY <1>0, <1>6 DEF StepTwo, StepTwoUnder, TakesHandshakePacket, Packet
  <2>. QED BY <1>1, <1>2, <1>6, <2>1 DEF StepTwo, StepTwoUnder, panelVars
<1>7. CASE Connect(d) \/ SocketFails(d) \/ StepFour(d) \/ FinishClose(d) \/ Receive(d)
           \/ ConnectionReset(d) \/ ReaderEOF(d)
  BY <1>7 DEF Connect, SocketFails, StepFour, StepFourAccepting, FinishClose, Receive, ReceiveHandshake,
       ReceiveUnsolicited, ReceiveSolicited, ReaderDiesOf, ConnectionReset, ReaderDies, ReaderEOF,
       wireVars, panelVars
<1>. QED BY <1>4, <1>5, <1>6, <1>7 DEF ConnNext, Handshake

\* A request stays at most once on its way.
LEMMA SentOnceStep == IInv /\ SentOnceInv /\ [Next]_vars => SentOnceInv'
<1>. SUFFICES ASSUME IInv, SentOnceInv, [Next]_vars, Tcp, NEW r \in Calls PROVE SentOnce(r)'
  BY DEF SentOnceInv
<1>0. /\ TypeOK /\ SentOnce(r) /\ Owner[r] \in Conns
      /\ toPanel \in [Conns -> Channel] /\ executions \in [Calls -> 0 .. 2]
      /\ call[r].pc # "idle" => call'[r].pc # "idle"
  BY LinkAssumption, StepForward DEF IInv, SentOnceInv, TypeOK, PanelTypeOK, Forward
<1>1. ASSUME NEW d \in Conns, ConnNext(d) PROVE SentOnce(r)'
  <2>1. \/ toPanel'[Owner[r]] = toPanel[Owner[r]]
        \/ \E p \in Packet : p.type # "Message" /\ toPanel'[Owner[r]] = Append(toPanel[Owner[r]], p)
    BY <1>0, <1>1, ConnStepWrites
  <2>2. executions'[r] = executions[r]
    BY <1>0, <1>1, ConnStepWrites
  <2>. QED BY <1>0, <2>1, <2>2, SentOnceKept DEF Carries
<1>2. ASSUME NEW d \in Conns, NEW p, Serves(d, p), executions'[r] = executions[r] PROVE SentOnce(r)'
  <2>1. \/ toPanel'[Owner[r]] = toPanel[Owner[r]]
        \/ toPanel[Owner[r]] # <<>> /\ toPanel'[Owner[r]] = Tail(toPanel[Owner[r]])
    BY <1>0, <1>2, TcpServes, ZenonT(60)
  <2>. QED BY <1>0, <1>2, <2>1, SentOnceKept
<1>3. ASSUME NEW d \in Conns, NEW p, ExecutesRequest(d, p) PROVE SentOnce(r)'
  <2>1. /\ Serves(d, p) /\ p.type = "Message" /\ call' = call
        /\ executions' = [executions EXCEPT ![p.body] = AtMostTwo(@ + 1)]
    BY <1>3 DEF ExecutesRequest, clientVars
  <2>2. /\ toPanel[d] \in Seq(Packet) /\ toPanel[d] # <<>> /\ p = toPanel[d][1]
        /\ toPanel' = [toPanel EXCEPT ![d] = Tail(@)] /\ p \in InFlight(toPanel[d])
    BY <1>0, <2>1, TcpServes
  <2>3. p.body \in Calls /\ Owner[p.body] = d /\ call[p.body].pc # "idle"
    BY <2>1, <2>2 DEF IInv, OutboundInv
  <2>4. CASE r # p.body
    BY <1>0, <1>2, <2>1, <2>3, <2>4
  <2>5. CASE r = p.body
    <3>1. Carries(toPanel[d][1], r) /\ 1 \in DOMAIN toPanel[d]
      BY <2>1, <2>2, <2>5 DEF Carries
    <3>2. executions[r] = 0
      BY <1>0, <2>3, <2>5, <3>1 DEF SentOnce, NoneCarries
    <3>3. executions'[r] = 1
      BY <1>0, <2>1, <2>5, <3>2 DEF AtMostTwo
    <3>4. NoneCarries(toPanel'[d], r) /\ OneCarries(toPanel'[d], r)
      BY <1>0, <2>2, <2>3, <2>5, <3>1, TailCarries DEF SentOnce
    <3>. QED BY <2>1, <2>3, <2>5, <3>3, <3>4 DEF SentOnce
  <2>. QED BY <2>4, <2>5
<1>4. ASSUME NEW d \in Conns, PanelNext(d) PROVE SentOnce(r)'
  <2>1. \/ \E p : Serves(d, p) /\ UNCHANGED executions
        \/ \E p : ExecutesRequest(d, p)
        \/ UNCHANGED <<toPanel, executions>>
    BY <1>4 DEF PanelNext, PanelHandles, NewSession, RefusesSession, SecureSession, SessionEnd,
         RejectsGarbled, NoSessionForRequest, TerminatesSession,
         PushEvent, PanelDrops, WritesGarbage, panelVars
  <2>. QED BY <1>0, <1>2, <1>3, <2>1, SentOnceKept
<1>5. ASSUME NEW q \in Calls, CallNext(q) PROVE SentOnce(r)'
  <2>1. executions'[r] = executions[r]
    BY <1>5, TcpCallWires DEF panelVars
  <2>2. CASE toPanel' = toPanel
    BY <1>0, <2>1, <2>2, SentOnceKept
  <2>3. ASSUME call[q].pc = "idle", call'[q].pc # "idle", NEW p \in Packet, p.type = "Message", p.body = q,
               toPanel' = [toPanel EXCEPT ![Owner[q]] = Append(@, p)]
        PROVE  SentOnce(r)'
    <3>1. CASE q # r
      BY <1>0, <2>1, <2>3, <3>1, SentOnceKept DEF Carries
    <3>2. CASE q = r
      <4>1. toPanel[Owner[r]] \in Seq(Packet) /\ toPanel'[Owner[r]] = Append(toPanel[Owner[r]], p)
        BY <1>0, <2>3, <3>2 DEF Channel
      <4>2. executions[r] = 0
        BY <1>0, <2>3, <3>2 DEF SentOnce
      <4>3. NoneCarries(toPanel[Owner[r]], r)
        <5>. SUFFICES ASSUME NEW i \in DOMAIN toPanel[Owner[r]], Carries(toPanel[Owner[r]][i], r) PROVE FALSE
          BY DEF NoneCarries
        <5>1. toPanel[Owner[r]][i] \in InFlight(toPanel[Owner[r]])
          BY DEF InFlight
        <5>. QED BY <1>0, <2>3, <3>2, <5>1 DEF Carries, IInv, OutboundInv
      <4>4. OneCarries(toPanel'[Owner[r]], r)
        BY <2>3, <4>1, <4>3, AppendCarries
      <4>. QED BY <2>1, <2>3, <3>2, <4>2, <4>4 DEF SentOnce
    <3>. QED BY <3>1, <3>2
  <2>. QED BY <1>5, <2>2, <2>3, TcpCallWires
<1>6. CASE UNCHANGED vars
  BY <1>0, <1>6, SentOnceKept DEF vars, panelVars, wireVars
<1>. QED BY <1>1, <1>4, <1>5, <1>6 DEF Next

-----------------------------------------------------------------------------
(* The invariant and what it implies.                                      *)

\* It holds before anything is sent.
LEMMA InitTcpInv == Init => TcpInv
<1>. SUFFICES ASSUME Init, Tcp
              PROVE  /\ \A c \in Conns : OneSession(c)
                     /\ \A r \in Calls : SentOnce(r)
                     /\ BadKeyIsBadKey
  BY DEF TcpInv, OneSessionInv, SentOnceInv
<1>1. \A c \in Conns : /\ state[c] = "DISCONNECTED" /\ ~panelEnd[c] /\ session[c] = 0
                       /\ hsPkt[c] = NoPacket /\ toPanel[c] = <<>> /\ toClient[c] = <<>>
                       /\ outcome[c] = "none"
  BY DEF Init, ClientInit, PanelInit, WireInit, EmptyChan, Slots
<1>2. \A r \in Calls : executions[r] = 0 /\ Owner[r] \in Conns
  BY LinkAssumption DEF Init, PanelInit
<1>3. \A c \in Conns : OneSession(c)
  BY <1>1 DEF OneSession, InHandshake
<1>4. \A r \in Calls : SentOnce(r)
  BY <1>1, <1>2 DEF SentOnce, NoneCarries, OneCarries
<1>. QED BY <1>1, <1>3, <1>4 DEF BadKeyIsBadKey

\* It is inductive relative to IInv.
THEOREM TcpInvariance == Spec => []TcpInv
<1>1. IInv /\ TcpInv /\ [Next]_vars => TcpInv'
  BY OneSessionStep, SentOnceStep, BadKeyStep DEF TcpInv
<1>. QED BY <1>1, InitTcpInv, Invariance, PTL DEF Spec

\* Over TCP the panel executes a request once, whatever is cancelled, times
\* out or breaks on the way.
THEOREM TcpAtMostOnce == Spec => []TcpExecutesAtMostOnce
<1>1. TcpInv => TcpExecutesAtMostOnce
  BY DEF TcpInv, SentOnceInv, SentOnce, TcpExecutesAtMostOnce
<1>. QED BY <1>1, TcpInvariance, PTL

\* Over TCP connect() raises InvalidEncryptionKeyError only for a wrong key:
\* nothing else makes a panel terminate a session during its handshake.
THEOREM TcpBadKey == Spec => [](Tcp => BadKeyIsBadKey)
<1>1. TcpInv => (Tcp => BadKeyIsBadKey)
  BY DEF TcpInv
<1>. QED BY <1>1, TcpInvariance, PTL
=============================================================================
