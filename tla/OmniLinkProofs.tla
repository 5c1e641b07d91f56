--------------------------- MODULE OmniLinkProofs ---------------------------
(***************************************************************************)
(* Proofs about OmniLink for every set of connections and requests, either *)
(* transport, any number of retries and any range of sequence numbers.     *)
(*                                                                         *)
(*   1. what the operators on channels do, and TypeOK;                     *)
(*   2. what any step at all does, from three sides: what it never undoes  *)
(*      (Forward), what it puts on the wire (OutStep, InStep) and what it  *)
(*      does to each call (CallStep);                                      *)
(*   3. from those, one lemma per conjunct of the inductive invariant;     *)
(*   4. the invariant, the safety properties it implies, the action        *)
(*      property NothingAfterSessionEnd and the refinement of RequestReply.*)
(***************************************************************************)
EXTENDS OmniLinkInvariant, TLAPS

-----------------------------------------------------------------------------
(* Channels.                                                               *)

\* Writing adds one packet to what is under way.
LEMMA PutAdds ==
    ASSUME NEW chan \in Channel, NEW p \in Packet
    PROVE  Put(chan, p) \in Channel /\ InFlight(Put(chan, p)) = InFlight(chan) \cup {p}
<1>1. CASE Tcp
  <2>1. Append(chan, p) \in Seq(Packet)
    BY <1>1 DEF Channel
  <2>2. \A q : (\E i \in DOMAIN Append(chan, p) : q = Append(chan, p)[i])
               <=> (\E i \in DOMAIN chan : q = chan[i]) \/ q = p
    BY <1>1 DEF Channel
  <2>. QED BY <1>1, <2>1, <2>2 DEF Channel, Put, InFlight
<1>2. CASE ~Tcp
  BY <1>2 DEF Channel, Put, InFlight
<1>. QED BY <1>1, <1>2

\* What arrives was under way, and delivery adds nothing.
LEMMA ArrivalRemoves ==
    ASSUME NEW chan \in Channel, NEW p \in Arrivals(chan)
    PROVE  /\ p \in InFlight(chan)
           /\ AfterArrival(chan) \in Channel
           /\ InFlight(AfterArrival(chan)) \subseteq InFlight(chan)
<1>1. CASE Tcp
  <2>1. chan \in Seq(Packet) /\ chan # <<>> /\ p = Head(chan)
    BY <1>1 DEF Channel, Arrivals
  <2>2. p = chan[1] /\ 1 \in DOMAIN chan
    BY <2>1
  <2>3. Tail(chan) \in Seq(Packet) /\ \A i \in DOMAIN Tail(chan) :
            i + 1 \in DOMAIN chan /\ Tail(chan)[i] = chan[i + 1]
    BY <2>1
  <2>. QED BY <1>1, <2>1, <2>2, <2>3 DEF Channel, AfterArrival, InFlight
<1>2. CASE ~Tcp
  BY <1>2 DEF Channel, Arrivals, AfterArrival, InFlight
<1>. QED BY <1>1, <1>2

\* Forgetting a number removes its datagrams and nothing else.
LEMMA ForgetKeeps ==
    ASSUME NEW chan \in Channel, NEW s
    PROVE  /\ Forget(chan, s) \in Channel
           /\ InFlight(Forget(chan, s)) = {p \in InFlight(chan) : Tcp \/ p.seq # s}
BY DEF Channel, Forget, InFlight

\* An empty channel has nothing under way.
LEMMA EmptyIsEmpty == EmptyChan \in Channel /\ InFlight(EmptyChan) = {}
<1>1. CASE Tcp
  BY <1>1 DEF EmptyChan, Channel, InFlight
<1>2. CASE ~Tcp
  BY <1>2 DEF EmptyChan, Channel, InFlight
<1>. QED BY <1>1, <1>2

\* What is under way in a channel is a packet.
LEMMA InFlightArePackets ==
    ASSUME NEW chan \in Channel
    PROVE  InFlight(chan) \subseteq Packet
BY DEF Channel, InFlight

-----------------------------------------------------------------------------
(* What a step does to the channels.                                       *)

\* A write to the panel: one packet more, the number's old datagrams gone.
LEMMA ToPanelAdds ==
    ASSUME toPanel \in [Conns -> Channel], NEW c \in Conns, NEW p \in Packet, ToPanel(c, p)
    PROVE  /\ toPanel' \in [Conns -> Channel]
           /\ \A d \in Conns \ {c} : toPanel'[d] = toPanel[d]
           /\ InFlight(toPanel'[c]) =
                {q \in InFlight(toPanel[c]) : Tcp \/ q.seq # p.seq} \cup {p}
<1>1. /\ Forget(toPanel[c], p.seq) \in Channel
      /\ InFlight(Forget(toPanel[c], p.seq)) = {q \in InFlight(toPanel[c]) : Tcp \/ q.seq # p.seq}
  BY ForgetKeeps
<1>2. toPanel' = [toPanel EXCEPT ![c] = Put(Forget(toPanel[c], p.seq), p)]
  BY DEF ToPanel
<1>. QED BY <1>1, <1>2, PutAdds

\* A write to the client: one packet more.
LEMMA ToClientAdds ==
    ASSUME toClient \in [Conns -> Channel], NEW c \in Conns, NEW p \in Packet, ToClient(c, p)
    PROVE  /\ toClient' \in [Conns -> Channel]
           /\ \A d \in Conns \ {c} : toClient'[d] = toClient[d]
           /\ InFlight(toClient'[c]) = InFlight(toClient[c]) \cup {p}
BY PutAdds DEF ToClient

\* The panel reads a packet that was under way; no channel to it grows.
LEMMA ServesRemoves ==
    ASSUME toPanel \in [Conns -> Channel], NEW c \in Conns, NEW p, Serves(c, p)
    PROVE  /\ toPanel' \in [Conns -> Channel]
           /\ p \in InFlight(toPanel[c])
           /\ p \in Packet
           /\ \A d \in Conns : InFlight(toPanel'[d]) \subseteq InFlight(toPanel[d])
BY ArrivalRemoves, InFlightArePackets DEF Serves

\* The client reads a packet that was under way; no channel to it grows.
LEMMA ArrivesRemoves ==
    ASSUME toClient \in [Conns -> Channel], NEW c \in Conns, NEW p, Arrives(c, p)
    PROVE  /\ toClient' \in [Conns -> Channel]
           /\ p \in InFlight(toClient[c])
           /\ p \in Packet
           /\ \A d \in Conns : InFlight(toClient'[d]) \subseteq InFlight(toClient[d])
BY ArrivalRemoves, InFlightArePackets DEF Arrives

\* Once a number is claimed, nothing inbound bears it.
LEMMA ClaimsFresh ==
    ASSUME toClient \in [Conns -> Channel], NEW c \in Conns,
           nextSeq \in [Conns -> Seqs \ {0}], ClaimSeq(c)
    PROVE  /\ toClient' \in [Conns -> Channel]
           /\ nextSeq' \in [Conns -> Seqs \ {0}]
           /\ \A d \in Conns \ {c} : toClient'[d] = toClient[d]
           /\ InFlight(toClient'[c]) = {q \in InFlight(toClient[c]) : q.seq # nextSeq[c]}
<1>1. /\ Forget(toClient[c], nextSeq[c]) \in Channel
      /\ InFlight(Forget(toClient[c], nextSeq[c])) =
            {q \in InFlight(toClient[c]) : Tcp \/ q.seq # nextSeq[c]}
  BY ForgetKeeps
<1>2. SeqAfter(nextSeq[c]) \in Seqs \ {0}
  BY LinkAssumption DEF SeqAfter, Seqs
<1>. QED BY <1>1, <1>2 DEF ClaimSeq, Fresh

-----------------------------------------------------------------------------
(* Type correctness.                                                       *)

\* Handshake and termination packets are packets.
LEMMA ControlIsPacket ==
    ASSUME NEW type \in ClientTypes \cup PanelTypes, NEW s \in Seqs, NEW sid \in Nat
    PROVE  Control(type, s, sid) \in Packet
BY DEF Control, Packet, Bodies

\* Encrypted messages are packets.
LEMMA MessageIsPacket ==
    ASSUME NEW s \in Seqs, NEW sid \in Nat, NEW body \in Bodies
    PROVE  MessagePacket(s, sid, body) \in Packet
BY DEF MessagePacket, Packet, ClientTypes

\* The two updates made to a call record keep its type.
LEMMA CallRecordUpdates ==
    ASSUME NEW k \in CallRecord
    PROVE  /\ \A f \in Futures, n \in Nat, b \in Bodies :
                [k EXCEPT !.fut = f, !.sid = n, !.body = b] \in CallRecord
           /\ \A st \in CallStates, f \in Futures, s \in Seqs, n \in Nat :
                [k EXCEPT !.pc = st, !.fut = f, !.seq = s, !.tries = n] \in CallRecord
BY DEF CallRecord

\* Failing the waiters keeps the types of calls and table.
LEMMA FailPendingType ==
    ASSUME ClientTypeOK, NEW c \in Conns, FailPending(c)
    PROVE  call' \in [Calls -> CallRecord] /\ pending' \in [Conns -> [Seqs -> Calls \cup {NoCall}]]
BY ZenonT(60) DEF ClientTypeOK, FailPending, CallRecord, Futures

\* close() keeps the types of what it changes.
LEMMA CloseType ==
    ASSUME TypeOK, NEW c \in Conns, Close(c)
    PROVE  /\ closed' \in [Conns -> BOOLEAN]
           /\ state' \in [Conns -> States]
           /\ nextSeq' \in [Conns -> Seqs \ {0}]
           /\ toPanel' \in [Conns -> Channel]
           /\ toClient' \in [Conns -> Channel]
           /\ call' \in [Calls -> CallRecord]
           /\ pending' \in [Conns -> [Seqs -> Calls \cup {NoCall}]]
           /\ clientEnd' \in [Conns -> BOOLEAN]
           /\ reader' \in [Conns -> {"none", "running", "ended"}]
<1>1. closed' \in [Conns -> BOOLEAN] /\ state' \in [Conns -> States]
  BY DEF TypeOK, ClientTypeOK, Close, BeginClose, States
<1>2. /\ nextSeq' \in [Conns -> Seqs \ {0}]
      /\ toPanel' \in [Conns -> Channel]
      /\ toClient' \in [Conns -> Channel]
  <2>1. CASE ClaimSeq(c) /\ ToPanel(c, Control("SessionEnd", nextSeq[c], 0))
    <3>1. Control("SessionEnd", nextSeq[c], 0) \in Packet
      BY ControlIsPacket DEF TypeOK, ClientTypeOK, ClientTypes
    <3>. QED BY <2>1, <3>1, ClaimsFresh, ToPanelAdds DEF TypeOK, ClientTypeOK
  <2>2. CASE UNCHANGED <<nextSeq, toPanel, toClient>>
    BY <2>2 DEF TypeOK, ClientTypeOK
  <2>. QED BY <2>1, <2>2 DEF Close, BeginClose
<1>3. CASE Tcp
  BY <1>1, <1>2, <1>3 DEF TypeOK, ClientTypeOK, Close
<1>4. CASE ~Tcp
  BY <1>1, <1>2, <1>4, FailPendingType DEF TypeOK, ClientTypeOK, Close, EndClose
<1>. QED BY <1>3, <1>4

\* _send_encrypted keeps the types of what it changes.
LEMMA SendEncryptedType ==
    ASSUME TypeOK, NEW r \in Calls, NEW tries \in Nat,
           NEW table \in [Seqs -> Calls \cup {NoCall}], SendEncrypted(r, tries, table)
    PROVE  /\ nextSeq' \in [Conns -> Seqs \ {0}]
           /\ toPanel' \in [Conns -> Channel]
           /\ toClient' \in [Conns -> Channel]
           /\ call' \in [Calls -> CallRecord]
           /\ pending' \in [Conns -> [Seqs -> Calls \cup {NoCall}]]
<1> DEFINE c == Owner[r]
<1>1. c \in Conns
  BY LinkAssumption
<1>2. nextSeq[c] \in Seqs /\ MessagePacket(nextSeq[c], sessionId[c], r) \in Packet
  BY <1>1, MessageIsPacket DEF TypeOK, ClientTypeOK, Bodies
<1>3. nextSeq' \in [Conns -> Seqs \ {0}] /\ toClient' \in [Conns -> Channel]
  BY <1>1, ClaimsFresh DEF TypeOK, ClientTypeOK, SendEncrypted
<1>4. toPanel' \in [Conns -> Channel]
  BY <1>1, <1>2, ToPanelAdds DEF TypeOK, SendEncrypted
<1>5. call' \in [Calls -> CallRecord]
  <2>. DEFINE pc == IF clientEnd[c] THEN "waiting" ELSE "error"
              s == nextSeq[c]
              k == [call[r] EXCEPT !.pc = pc, !.fut = "pending", !.seq = s, !.tries = tries]
  <2>1. k \in CallRecord
    <3>1. /\ call[r] \in CallRecord /\ pc \in CallStates /\ "pending" \in Futures
          /\ s \in Seqs /\ tries \in Nat
      BY <1>2 DEF TypeOK, ClientTypeOK, CallStates, Futures
    <3>. HIDE DEF pc, s
    <3>. QED BY ONLY <3>1, CallRecordUpdates
  <2>2. call' = [call EXCEPT ![r] = k]
    BY DEF SendEncrypted
  <2>. HIDE DEF k
  <2>. QED BY <2>1, <2>2 DEF TypeOK, ClientTypeOK
<1>6. pending' \in [Conns -> [Seqs -> Calls \cup {NoCall}]]
  BY <1>1, <1>2 DEF TypeOK, ClientTypeOK, SendEncrypted
<1>. QED BY <1>3, <1>4, <1>5, <1>6

\* Type correctness, steps of a connection.
LEMMA ConnStepType ==
    ASSUME TypeOK, NEW c \in Conns, ConnNext(c)
    PROVE  TypeOK'
<1> USE DEF TypeOK, ClientTypeOK, PanelTypeOK, panelVars, sessionVars, wireVars
<1>1. CASE Connect(c)
  BY <1>1 DEF Connect, States, Outcomes
<1>2. CASE SocketOpens(c)
  <2>1. Control("NewSession", nextSeq[c], 0) \in Packet
    BY ControlIsPacket DEF ClientTypes
  <2>2. nextSeq' \in [Conns -> Seqs \ {0}] /\ toClient' \in [Conns -> Channel] /\ toPanel' \in [Conns -> Channel]
    BY <1>2, <2>1, ClaimsFresh, ToPanelAdds DEF SocketOpens, StepOne
  <2>. QED BY <1>2, <2>2 DEF SocketOpens, StepOne, States, Tcp
<1>3. CASE SocketFails(c)
  BY <1>3 DEF SocketFails, States, Outcomes
<1>4. CASE HandshakeTimesOut(c)
  BY <1>4, CloseType DEF HandshakeTimesOut, HandshakeRaises, Outcomes
<1>5. CASE HandshakeCrashes(c)
  BY <1>5, CloseType DEF HandshakeCrashes, HandshakeRaises, Outcomes
<1>6. CASE StepTwo(c)
  <2>1. hsPkt[c] \in Packet /\ hsPkt[c].sid \in Nat
    BY <1>6 DEF StepTwo, StepTwoUnder, TakesHandshakePacket, Packet
  <2>2. Control("SecureSession", nextSeq[c], hsPkt[c].sid) \in Packet
    BY <2>1, ControlIsPacket DEF ClientTypes
  <2>3. nextSeq' \in [Conns -> Seqs \ {0}] /\ toClient' \in [Conns -> Channel] /\ toPanel' \in [Conns -> Channel]
    BY <1>6, <2>2, ClaimsFresh, ToPanelAdds DEF StepTwo, StepTwoUnder
  <2>. QED BY <1>6, <2>1, <2>3 DEF StepTwo, StepTwoUnder, TakesHandshakePacket, States
<1>7. CASE StepTwoRefused(c)
  BY <1>7, CloseType DEF StepTwoRefused, TakesHandshakePacket, HandshakeRaises, Outcomes
<1>8. CASE StepFour(c)
  BY <1>8 DEF StepFour, StepFourAccepting, TakesHandshakePacket, States, Outcomes
<1>9. CASE StepFourRefused(c)
  BY <1>9, CloseType DEF StepFourRefused, TakesHandshakePacket, HandshakeRaises, Outcomes
<1>10. CASE OwnerCloses(c)
  BY <1>10, CloseType DEF OwnerCloses
<1>11. CASE FinishClose(c)
  BY <1>11, FailPendingType DEF FinishClose, EndClose
<1>12. ASSUME NEW p, ReceiveHandshake(c, p) PROVE TypeOK'
  BY <1>12, ArrivesRemoves DEF ReceiveHandshake, ReaderGoesOn
<1>13. ASSUME NEW p, ReceiveUnsolicited(c, p) PROVE TypeOK'
  BY <1>13, ArrivesRemoves DEF ReceiveUnsolicited, ReaderGoesOn, Packet
<1>14. ASSUME NEW p, ReceiveSolicited(c, p) PROVE TypeOK'
  <2>1. p \in Packet /\ toClient' \in [Conns -> Channel]
    BY <1>14, ArrivesRemoves DEF ReceiveSolicited
  <2>2. call' \in [Calls -> CallRecord]
    <3>. DEFINE r == pending[c][p.seq]
                fut == IF p.type = "Terminated" THEN "error" ELSE "reply"
                k == [call[r] EXCEPT !.fut = fut, !.sid = p.sid, !.body = p.body]
    <3>1. CASE r = NoCall
      BY <1>14, <3>1 DEF ReceiveSolicited, DispatchSolicited, DispatchBySeq
    <3>2. CASE r # NoCall
      <4>1. r \in Calls
        BY <2>1, <3>2 DEF Packet
      <4>2. k \in CallRecord
        <5>1. call[r] \in CallRecord /\ fut \in Futures /\ p.sid \in Nat /\ p.body \in Bodies
          BY <2>1, <4>1 DEF Packet, Futures
        <5>. HIDE DEF r, fut
        <5>. QED BY ONLY <5>1, CallRecordUpdates
      <4>3. call' = [call EXCEPT ![r] = IF call[r].fut = "pending" THEN k ELSE call[r]]
        BY <1>14, <3>2 DEF ReceiveSolicited, DispatchSolicited, DispatchBySeq, Settle
      <4>. HIDE DEF k, r
      <4>. QED BY <4>1, <4>2, <4>3
    <3>. QED BY <3>1, <3>2
  <2>. QED BY <1>14, <2>1, <2>2 DEF ReceiveSolicited, DispatchSolicited, DispatchBySeq, ReaderGoesOn, Packet
<1>15. ASSUME NEW p, ReaderDiesOf(c, p) PROVE TypeOK'
  BY <1>15, ArrivesRemoves, FailPendingType DEF ReaderDiesOf, ReaderDies
<1>16. CASE ConnectionReset(c)
  BY <1>16, FailPendingType DEF ConnectionReset, ReaderDies
<1>17. CASE ReaderEOF(c)
  BY <1>17 DEF ReaderEOF
<1>. QED BY <1>1, <1>2, <1>3, <1>4, <1>5, <1>6, <1>7, <1>8, <1>9, <1>10, <1>11, <1>12,
           <1>13, <1>14, <1>15, <1>16, <1>17 DEF ConnNext, Handshake, Receive

\* Every connection has its session slot.
LEMMA SlotIsSlot == ASSUME NEW c \in Conns PROVE Slot(c) \in Slots
BY DEF Slot, Slots

\* Type correctness, steps of the panel.
LEMMA PanelStepType ==
    ASSUME TypeOK, NEW c \in Conns, PanelNext(c)
    PROVE  TypeOK'
<1> USE DEF TypeOK, ClientTypeOK, PanelTypeOK, panelVars, clientVars
<1>0. Slot(c) \in Slots /\ session[Slot(c)] \in Nat
  BY SlotIsSlot
<1>1. ASSUME NEW p, NewSession(c, p) PROVE TypeOK'
  <2>1. p \in Packet /\ toPanel' \in [Conns -> Channel]
    BY <1>1, ServesRemoves DEF NewSession
  <2>2. Control("AckNewSession", p.seq, nextSid) \in Packet
    BY <2>1, ControlIsPacket DEF Packet, HandshakeTypes, PanelTypes
  <2>3. toClient' \in [Conns -> Channel]
    BY <1>1, <2>2, ToClientAdds DEF NewSession, Reply
  <2>. QED BY <1>0, <1>1, <2>1, <2>3 DEF NewSession
<1>2. ASSUME NEW p, RefusesSession(c, p) PROVE TypeOK'
  <2>1. p \in Packet /\ toPanel' \in [Conns -> Channel]
    BY <1>2, ServesRemoves DEF RefusesSession
  <2>2. Control("CannotStart", p.seq, 0) \in Packet
    BY <2>1, ControlIsPacket DEF Packet, HandshakeTypes, PanelTypes
  <2>3. toClient' \in [Conns -> Channel]
    BY <1>2, <2>2, ToClientAdds DEF RefusesSession, Reply
  <2>. QED BY <1>2, <2>1, <2>3 DEF RefusesSession
<1>3. ASSUME NEW p, SecureSession(c, p) PROVE TypeOK'
  <2>1. p \in Packet /\ p.sid \in Nat /\ toPanel' \in [Conns -> Channel]
    BY <1>3, ServesRemoves DEF SecureSession, Packet
  <2>2. Control("AckSecure", p.seq, p.sid) \in Packet /\ Control("Terminated", p.seq, 0) \in Packet
    BY <2>1, ControlIsPacket DEF Packet, HandshakeTypes, PanelTypes
  <2>3. toClient' \in [Conns -> Channel]
    BY <1>3, <2>2, ToClientAdds DEF SecureSession, Reply
  <2>4. session' \in [Slots -> Nat] /\ panelEnd' \in [Conns -> BOOLEAN]
    <3>1. Breaks(c) \/ UNCHANGED <<session, panelEnd>>
      BY <1>3 DEF SecureSession
    <3>2. CASE Breaks(c)
      BY <1>0, <3>2 DEF Breaks, TaskEnds
    <3>3. CASE UNCHANGED <<session, panelEnd>>
      BY <3>3
    <3>. QED BY <3>1, <3>2, <3>3
  <2>5. accepted' \in SUBSET (Conns \X Nat)
    BY <1>3, <2>1 DEF SecureSession
  <2>. QED BY <1>3, <2>1, <2>3, <2>4, <2>5 DEF SecureSession
<1>4. ASSUME NEW p, SessionEnd(c, p) PROVE TypeOK'
  BY <1>0, <1>4, ServesRemoves DEF SessionEnd, TaskEnds
<1>5. ASSUME NEW p, ExecutesRequest(c, p) PROVE TypeOK'
  <2>1. p \in Packet /\ toPanel' \in [Conns -> Channel]
    BY <1>5, ServesRemoves DEF ExecutesRequest
  <2>2. MessagePacket(p.seq, session[Slot(c)], p.body) \in Packet
    BY <1>0, <2>1, MessageIsPacket DEF Packet
  <2>3. toClient' \in [Conns -> Channel]
    BY <1>5, <2>2, ToClientAdds DEF ExecutesRequest, Reply
  <2>4. executions' \in [Calls -> 0 .. 2]
    <3>1. \A n \in 0 .. 2 : AtMostTwo(n + 1) \in 0 .. 2
      BY DEF AtMostTwo
    <3>2. executions' = [executions EXCEPT ![p.body] = AtMostTwo(@ + 1)]
      BY <1>5 DEF ExecutesRequest
    <3>. QED BY ONLY TypeOK, <3>1, <3>2 DEF TypeOK, PanelTypeOK
  <2>. QED BY <1>0, <1>5, <2>1, <2>3, <2>4 DEF ExecutesRequest
<1>6. ASSUME NEW p, RejectsGarbled(c, p) PROVE TypeOK'
  <2>1. p \in Packet /\ toPanel' \in [Conns -> Channel]
    BY <1>6, ServesRemoves DEF RejectsGarbled
  <2>2. MessagePacket(p.seq, session[Slot(c)], Nak) \in Packet
    BY <1>0, <2>1, MessageIsPacket DEF Packet, Bodies
  <2>3. toClient' \in [Conns -> Channel]
    BY <1>6, <2>2, ToClientAdds DEF RejectsGarbled, Reply
  <2>. QED BY <1>6, <2>1, <2>3 DEF RejectsGarbled
<1>7. ASSUME NEW p, NoSessionForRequest(c, p) PROVE TypeOK'
  BY <1>0, <1>7, ServesRemoves DEF NoSessionForRequest, Breaks, TaskEnds
<1>8. ASSUME NEW p, TerminatesSession(c, p) PROVE TypeOK'
  <2>1. p \in Packet /\ toPanel' \in [Conns -> Channel]
    BY <1>8, ServesRemoves DEF TerminatesSession
  <2>2. Control("Terminated", p.seq, 0) \in Packet
    BY <2>1, ControlIsPacket DEF Packet, HandshakeTypes, PanelTypes
  <2>3. toClient' \in [Conns -> Channel]
    BY <1>8, <2>2, ToClientAdds DEF TerminatesSession, Reply
  <2>. QED BY <1>0, <1>8, <2>1, <2>3 DEF TerminatesSession
<1>9. ASSUME NEW sid \in 1 .. MaxSid, PushEvent(c, sid) PROVE TypeOK'
  <2>1. MessagePacket(0, sid, Push) \in Packet
    BY LinkAssumption, MessageIsPacket DEF Seqs, Bodies
  <2>2. toClient' \in [Conns -> Channel]
    BY <1>9, <2>1, ToClientAdds DEF PushEvent
  <2>. QED BY <1>9, <2>2 DEF PushEvent
<1>10. CASE PanelDrops(c)
  BY <1>0, <1>10 DEF PanelDrops, Breaks, TaskEnds
<1>11. CASE WritesGarbage(c)
  <2>1. [NoPacket EXCEPT !.type = "Garbage"] \in Packet
    BY LinkAssumption DEF NoPacket, Packet, PanelTypes, Seqs, Bodies
  <2>2. toClient' \in [Conns -> Channel]
    BY <1>11, <2>1, ToClientAdds DEF WritesGarbage, Reply
  <2>. QED BY <1>11, <2>2 DEF WritesGarbage
<1>. QED BY <1>1, <1>2, <1>3, <1>4, <1>5, <1>6, <1>7, <1>8, <1>9, <1>10, <1>11
         DEF PanelNext, PanelHandles

\* Type correctness, steps of a request.
LEMMA CallStepType ==
    ASSUME TypeOK, NEW r \in Calls, CallNext(r)
    PROVE  TypeOK'
<1> USE DEF TypeOK, ClientTypeOK, PanelTypeOK, panelVars, sessionVars, wireVars
<1>1. Owner[r] \in Conns /\ call[r] \in CallRecord
  BY LinkAssumption
<1>2. CASE Request(r)
  <2>1. SendEncrypted(r, 1, pending[Owner[r]]) /\ 1 \in Nat
    BY <1>2 DEF Request
  <2>2. pending[Owner[r]] \in [Seqs -> Calls \cup {NoCall}]
    BY <1>1
  <2>. QED BY <1>2, <2>1, <2>2, SendEncryptedType DEF Request
<1>3. CASE RequestOffline(r)
  BY <1>1, <1>3 DEF RequestOffline, CallRecord, CallStates
<1>4. CASE Returns(r)
  BY <1>1, <1>4 DEF Returns, CallRecord, CallStates
<1>5. CASE TimerFires(r)
  BY <1>1, <1>5 DEF TimerFires, CallRecord, CallStates, Futures
<1>6. CASE RetryAfterTimeout(r)
  <2>1. SendEncrypted(r, call[r].tries + 1, Popped(r)) /\ call[r].tries + 1 \in Nat
    BY <1>1, <1>6 DEF RetryAfterTimeout, CallRecord
  <2>2. Popped(r) \in [Seqs -> Calls \cup {NoCall}]
    BY <1>1 DEF Popped
  <2>. QED BY <1>6, <2>1, <2>2, SendEncryptedType DEF RetryAfterTimeout
<1>7. CASE RequestTimesOut(r)
  BY <1>1, <1>7 DEF RequestTimesOut, Popped, CallRecord, CallStates
<1>8. CASE CallerCancels(r)
  BY <1>1, <1>8 DEF CallerCancels, CallRecord, CallStates, Futures
<1>. QED BY <1>2, <1>3, <1>4, <1>5, <1>6, <1>7, <1>8 DEF CallNext

\* Type correctness, the initial states.
LEMMA InitType == Init => TypeOK
BY LinkAssumption, EmptyIsEmpty
   DEF Init, ClientInit, PanelInit, WireInit, TypeOK, ClientTypeOK, PanelTypeOK,
       States, Seqs, Outcomes, CallRecord, CallStates, Futures, Bodies

\* Type correctness, every step.
LEMMA StepType == TypeOK /\ [Next]_vars => TypeOK'
<1>. SUFFICES ASSUME TypeOK, [Next]_vars PROVE TypeOK'
  OBVIOUS
<1>1. CASE Next
  BY <1>1, ConnStepType, PanelStepType, CallStepType DEF Next
<1>2. CASE UNCHANGED vars
  BY <1>2 DEF vars, clientVars, panelVars, wireVars, TypeOK, ClientTypeOK, PanelTypeOK
<1>. QED BY <1>1, <1>2

\* Every variable keeps its type, in every behaviour of a session.
THEOREM TypeCorrect == Spec => []TypeOK
BY InitType, StepType, PTL DEF Spec

-----------------------------------------------------------------------------
(* What no step undoes.                                                    *)

Forward ==
    /\ \A c \in Conns :
         /\ NoSessionYet(c)' => NoSessionYet(c)
         /\ ~NoSessionYet(c) => sessionId'[c] = sessionId[c]
         /\ state'[c] = "SECURE" => NoSessionYet(c) \/ state[c] = "SECURE"
         /\ closed[c] => closed'[c]
    /\ accepted \subseteq accepted'
    /\ \A r \in Calls :
         /\ executions[r] > 0 => executions'[r] > 0
         /\ call[r].pc # "idle" => call'[r].pc # "idle"

\* Failing the waiters changes futures only.
LEMMA FailPendingKeeps ==
    ASSUME TypeOK, NEW c, FailPending(c)
    PROVE  \A r \in Calls :
             /\ call'[r].pc = call[r].pc /\ call'[r].seq = call[r].seq
             /\ call'[r].tries = call[r].tries
             /\ call'[r].sid = call[r].sid /\ call'[r].body = call[r].body
             /\ call'[r].fut = IF Orphaned(c, r) THEN "error" ELSE call[r].fut
BY DEF FailPending, TypeOK, ClientTypeOK, CallRecord

\* _dispatch changes one future, with the packet it keeps, and no more.
LEMMA DispatchKeeps ==
    ASSUME TypeOK, NEW c \in Conns, NEW p \in Packet, DispatchSolicited(c, p)
    PROVE  \A r \in Calls :
             /\ call'[r].pc = call[r].pc /\ call'[r].seq = call[r].seq
             /\ call'[r].tries = call[r].tries
             /\ \/ call'[r] = call[r]
                \/ /\ r = pending[c][p.seq] /\ call[r].fut = "pending"
                   /\ call'[r].fut = IF p.type = "Terminated" THEN "error" ELSE "reply"
                   /\ call'[r].sid = p.sid /\ call'[r].body = p.body
<1> DEFINE q == pending[c][p.seq]
           fut == IF p.type = "Terminated" THEN "error" ELSE "reply"
<1>0. call \in [Calls -> CallRecord] /\ q \in Calls \cup {NoCall}
  BY DEF TypeOK, ClientTypeOK, Packet
<1>1. CASE q = NoCall \/ call[q].fut # "pending"
  BY <1>0, <1>1 DEF DispatchSolicited, DispatchBySeq, Settle
<1>2. CASE q \in Calls /\ call[q].fut = "pending"
  <2>1. call' = [call EXCEPT ![q] = [@ EXCEPT !.fut = fut, !.sid = p.sid, !.body = p.body]]
    BY <1>2, CallsAreNoWords DEF DispatchSolicited, DispatchBySeq, Settle
  <2>2. \A r \in Calls \ {q} : call'[r] = call[r]
    BY <1>0, <2>1
  <2>3. /\ call'[q].pc = call[q].pc /\ call'[q].seq = call[q].seq /\ call'[q].tries = call[q].tries
        /\ call'[q].fut = fut /\ call'[q].sid = p.sid /\ call'[q].body = p.body
    BY <1>0, <1>2, <2>1 DEF CallRecord
  <2>. QED BY <1>2, <2>2, <2>3
<1>. QED BY <1>0, <1>1, <1>2

\* close() undoes nothing.
LEMMA CloseForward ==
    ASSUME TypeOK, NEW c \in Conns, Close(c), UNCHANGED <<sessionId, panelVars>>
    PROVE  Forward
<1>1. \A r \in Calls : call'[r].pc = call[r].pc
  <2>1. CASE Tcp
    BY <2>1 DEF Close
  <2>2. CASE ~Tcp
    BY <2>2, FailPendingKeeps DEF Close, EndClose
  <2>. QED BY <2>1, <2>2
<1>. QED BY <1>1 DEF Forward, NoSessionYet, Close, BeginClose, panelVars, TypeOK, ClientTypeOK

\* _send_encrypted undoes nothing.
LEMMA SendEncryptedForward ==
    ASSUME TypeOK, NEW r \in Calls, NEW tries, NEW table, SendEncrypted(r, tries, table),
           UNCHANGED <<sessionVars, panelVars>>
    PROVE  Forward
<1>1. \A q \in Calls : call[q].pc # "idle" => call'[q].pc # "idle"
  <2>1. /\ call \in [Calls -> CallRecord]
        /\ \E n \in Seqs :
             call' = [call EXCEPT ![r] = [@ EXCEPT !.pc = IF clientEnd[Owner[r]] THEN "waiting" ELSE "error",
                                                   !.fut = "pending", !.seq = n, !.tries = tries]]
    BY LinkAssumption DEF SendEncrypted, TypeOK, ClientTypeOK
  <2>2. \A q \in Calls \ {r} : call'[q] = call[q]
    BY <2>1
  <2>3. call'[r].pc \in {"waiting", "error"}
    BY <2>1 DEF CallRecord
  <2>. QED BY <2>2, <2>3
<1>. QED BY <1>1 DEF Forward, NoSessionYet, sessionVars, panelVars

\* No step of a connection undoes anything.
LEMMA ConnStepForward ==
    ASSUME TypeOK, NEW c \in Conns, ConnNext(c)
    PROVE  Forward
<1> USE DEF Forward, NoSessionYet, panelVars, sessionVars
<1>1. CASE Connect(c) \/ SocketFails(c)
  BY <1>1 DEF Connect, SocketFails, TypeOK, ClientTypeOK
<1>2. CASE SocketOpens(c)
  BY <1>2 DEF SocketOpens, StepOne, TypeOK, ClientTypeOK
<1>3. CASE StepTwo(c)
  BY <1>3 DEF StepTwo, StepTwoUnder, TypeOK, ClientTypeOK
<1>4. CASE StepFour(c)
  BY <1>4 DEF StepFour, StepFourAccepting, TypeOK, ClientTypeOK
<1>5. CASE HandshakeTimesOut(c) \/ HandshakeCrashes(c) \/ StepTwoRefused(c) \/ StepFourRefused(c)
  BY <1>5, CloseForward
     DEF HandshakeTimesOut, HandshakeCrashes, StepTwoRefused, StepFourRefused, HandshakeRaises
<1>6. CASE OwnerCloses(c)
  BY <1>6, CloseForward DEF OwnerCloses
<1>7. CASE FinishClose(c)
  <2>1. \A r \in Calls : call'[r].pc = call[r].pc
    BY <1>7, FailPendingKeeps DEF FinishClose, EndClose
  <2>. QED BY <1>7, <2>1 DEF FinishClose
<1>8. ASSUME NEW p, ReceiveHandshake(c, p) \/ ReceiveUnsolicited(c, p) PROVE Forward
  BY <1>8 DEF ReceiveHandshake, ReceiveUnsolicited
<1>9. ASSUME NEW p, ReceiveSolicited(c, p) PROVE Forward
  <2>1. \A r \in Calls : call'[r].pc = call[r].pc
    <3>1. p \in Packet
      BY <1>9, ArrivesRemoves DEF ReceiveSolicited, TypeOK
    <3>. QED BY <1>9, <3>1, DispatchKeeps DEF ReceiveSolicited
  <2>. QED BY <1>9, <2>1 DEF ReceiveSolicited
<1>10. ASSUME ReaderDies(c) PROVE Forward
  <2>1. \A r \in Calls : call'[r].pc = call[r].pc
    BY <1>10, FailPendingKeeps DEF ReaderDies
  <2>. QED BY <1>10, <2>1 DEF ReaderDies
<1>11. CASE ReaderEOF(c)
  BY <1>11 DEF ReaderEOF
<1>. QED BY <1>1, <1>2, <1>3, <1>4, <1>5, <1>6, <1>7, <1>8, <1>9, <1>10, <1>11
         DEF ConnNext, Handshake, Receive, ReaderDiesOf, ConnectionReset, ReaderDies

\* No step of the panel undoes anything.
LEMMA PanelStepForward ==
    ASSUME TypeOK, NEW c \in Conns, PanelNext(c)
    PROVE  Forward
<1>1. /\ UNCHANGED clientVars
      /\ accepted \subseteq accepted'
  BY DEF PanelNext, PanelHandles, NewSession, RefusesSession, SecureSession, SessionEnd,
         ExecutesRequest, RejectsGarbled, NoSessionForRequest, TerminatesSession,
         PushEvent, PanelDrops, WritesGarbage, panelVars
<1>2. \A r \in Calls : executions[r] > 0 => executions'[r] > 0
  <2>1. ASSUME NEW p, ExecutesRequest(c, p) PROVE <1>2!:
    BY <2>1 DEF ExecutesRequest, AtMostTwo, TypeOK, PanelTypeOK
  <2>2. CASE UNCHANGED executions
    BY <2>2
  <2>. QED
    BY <2>1, <2>2 DEF PanelNext, PanelHandles, NewSession, RefusesSession, SecureSession, SessionEnd,
         RejectsGarbled, NoSessionForRequest, TerminatesSession,
         PushEvent, PanelDrops, WritesGarbage, panelVars
<1>. QED BY <1>1, <1>2 DEF Forward, NoSessionYet, clientVars

\* No step of a request undoes anything.
LEMMA CallStepForward ==
    ASSUME TypeOK, NEW r \in Calls, CallNext(r)
    PROVE  Forward
<1>1. CASE Request(r) \/ RetryAfterTimeout(r)
  BY <1>1, SendEncryptedForward DEF Request, RetryAfterTimeout
<1>2. CASE RequestOffline(r) \/ Returns(r) \/ TimerFires(r) \/ RequestTimesOut(r) \/ CallerCancels(r)
  <2>1. \A q \in Calls : call[q].pc # "idle" => call'[q].pc # "idle"
    <3>0. call \in [Calls -> CallRecord]
      BY DEF TypeOK, ClientTypeOK
    <3>1. \A q \in Calls \ {r} : call'[q] = call[q]
      BY <1>2, <3>0 DEF RequestOffline, Returns, TimerFires, RequestTimesOut, CallerCancels
    <3>2. CASE RequestOffline(r) \/ Returns(r)
      BY <3>0, <3>1, <3>2 DEF RequestOffline, Returns, CallRecord
    <3>3. CASE TimerFires(r) \/ CallerCancels(r)
      BY <3>0, <3>1, <3>3 DEF TimerFires, CallerCancels, CallRecord
    <3>4. CASE RequestTimesOut(r)
      BY <3>0, <3>1, <3>4 DEF RequestTimesOut, CallRecord
    <3>. QED BY <1>2, <3>2, <3>3, <3>4
  <2>2. UNCHANGED <<sessionVars, panelVars>>
    BY <1>2 DEF RequestOffline, Returns, TimerFires, RequestTimesOut, CallerCancels
  <2>. QED BY <2>1, <2>2 DEF Forward, NoSessionYet, sessionVars, panelVars
<1>. QED BY <1>1, <1>2 DEF CallNext

\* No step undoes anything.
LEMMA StepForward == TypeOK /\ [Next]_vars => Forward
<1>. SUFFICES ASSUME TypeOK, [Next]_vars PROVE Forward
  OBVIOUS
<1>1. CASE Next
  BY <1>1, ConnStepForward, PanelStepForward, CallStepForward DEF Next
<1>2. CASE UNCHANGED vars
  BY <1>2 DEF vars, clientVars, panelVars, Forward, NoSessionYet
<1>. QED BY <1>1, <1>2

-----------------------------------------------------------------------------
(* What a step puts on the wire.                                           *)

\* The request r is sent, for the first time or again.
Starts(r) ==
    /\ \/ call[r].pc = "idle" /\ state[Owner[r]] = "ONLINE"
       \/ call[r].pc = "expired" /\ call[r].tries < MaxAttempts
    /\ call'[r].pc = "waiting"
    /\ call'[r].seq = nextSeq[Owner[r]]

Sent(c, q) ==
    /\ q.seq = nextSeq[c] /\ Fresh(c, nextSeq[c])
    /\ \/ q.type \in {"NewSession", "SessionEnd"} /\ ~closed[c]
       \/ /\ q.type = "SecureSession" /\ ~closed[c]
          /\ q.sid = sessionId'[c] /\ ~NoSessionYet(c)'
       \/ /\ q.type = "Message" /\ clientEnd[c]
          /\ q.body \in Calls /\ Owner[q.body] = c /\ q.sid = sessionId[c]
          /\ Starts(q.body)

OutStep == \A c \in Conns : \A q \in InFlight(toPanel'[c]) : q \in InFlight(toPanel[c]) \/ Sent(c, q)

Answered(c, q) ==
    \/ q.seq = 0 /\ q.type = "Garbage"
    \/ q.seq = 0 /\ q.type = "Message" /\ q.body = Push
    \/ \E p \in InFlight(toPanel[c]) :
         /\ q.seq = p.seq
         /\ \/ p.type = "NewSession" /\ q.type \in {"AckNewSession", "CannotStart"}
            \/ p.type = "SecureSession" /\ q.type = "Terminated"
            \/ /\ p.type = "SecureSession" /\ q.type = "AckSecure"
               /\ q.sid = p.sid /\ c \notin WrongKey /\ <<c, p.sid>> \in accepted'
            \/ p.type = "Message" /\ q.type = "Terminated"
            \/ /\ p.type = "Message" /\ q.type = "Message" /\ q.body = p.body
               /\ p.body \in Calls => executions'[p.body] > 0
            \/ /\ p.type = "Message" /\ q.type = "Message" /\ q.body = Nak
               /\ c \in WrongKey \/ q.sid # p.sid

InStep == \A c \in Conns : \A q \in InFlight(toClient'[c]) : q \in InFlight(toClient[c]) \/ Answered(c, q)

\* On the wire, close() adds one ClientSessionTerminated at most.
LEMMA CloseWire ==
    ASSUME TypeOK, NEW c \in Conns, Close(c)
    PROVE  OutStep /\ InStep
<1>1. CASE ClaimSeq(c) /\ ToPanel(c, Control("SessionEnd", nextSeq[c], 0))
  <2> DEFINE q == Control("SessionEnd", nextSeq[c], 0)
  <2>1. q \in Packet
    BY ControlIsPacket DEF TypeOK, ClientTypeOK, ClientTypes
  <2>2. /\ \A d \in Conns \ {c} : toPanel'[d] = toPanel[d] /\ toClient'[d] = toClient[d]
        /\ InFlight(toPanel'[c]) \subseteq InFlight(toPanel[c]) \cup {q}
        /\ InFlight(toClient'[c]) \subseteq InFlight(toClient[c])
    BY <1>1, <2>1, ClaimsFresh, ToPanelAdds DEF TypeOK, ClientTypeOK
  <2>3. Sent(c, q)
    BY <1>1 DEF Sent, Control, ClaimSeq, Close, BeginClose
  <2>. QED BY <2>2, <2>3 DEF OutStep, InStep
<1>2. CASE UNCHANGED <<toPanel, toClient>>
  BY <1>2 DEF OutStep, InStep
<1>. QED BY <1>1, <1>2 DEF Close, BeginClose

\* On the wire, _send_encrypted adds the request, alone under its number.
LEMMA SendEncryptedWire ==
    ASSUME TypeOK, NEW r \in Calls, NEW tries, NEW table, SendEncrypted(r, tries, table),
           \/ call[r].pc = "idle" /\ state[Owner[r]] = "ONLINE"
           \/ call[r].pc = "expired" /\ call[r].tries < MaxAttempts
    PROVE  /\ OutStep /\ InStep
           /\ \A p \in InFlight(toClient'[Owner[r]]) : p.seq # nextSeq[Owner[r]]
           /\ clientEnd[Owner[r]] =>
                \A p \in InFlight(toPanel'[Owner[r]]) :
                    p.seq = nextSeq[Owner[r]] => p.type = "Message" /\ p.body = r
<1> DEFINE c == Owner[r]
           q == MessagePacket(nextSeq[c], sessionId[c], r)
<1>1. /\ c \in Conns /\ nextSeq[c] \in Seqs /\ q \in Packet /\ r \in Bodies
      /\ call \in [Calls -> CallRecord]
  BY LinkAssumption, MessageIsPacket DEF TypeOK, ClientTypeOK, Bodies
<1>2. ClaimSeq(c) /\ Fresh(c, nextSeq[c])
  BY DEF SendEncrypted, ClaimSeq
<1>3. /\ \A d \in Conns \ {c} : toClient'[d] = toClient[d]
      /\ InFlight(toClient'[c]) = {p \in InFlight(toClient[c]) : p.seq # nextSeq[c]}
  BY <1>1, <1>2, ClaimsFresh DEF TypeOK, ClientTypeOK
<1>4. CASE clientEnd[c]
  <2>1. ToPanel(c, q)
    BY <1>4 DEF SendEncrypted
  <2>2. /\ \A d \in Conns \ {c} : toPanel'[d] = toPanel[d]
        /\ InFlight(toPanel'[c]) \subseteq {p \in InFlight(toPanel[c]) : Tcp \/ p.seq # q.seq} \cup {q}
    BY <1>1, <2>1, ToPanelAdds DEF TypeOK
  <2>3. q.seq = nextSeq[c] /\ q.type = "Message" /\ q.body = r /\ q.sid = sessionId[c]
    BY DEF MessagePacket
  <2>4. call'[r].pc = "waiting" /\ call'[r].seq = nextSeq[c]
    BY <1>1, <1>4 DEF SendEncrypted, CallRecord
  <2>5. Sent(c, q)
    BY <1>2, <1>4, <2>3, <2>4 DEF Sent, Starts
  <2>6. \A p \in InFlight(toPanel'[c]) \ {q} : p \in InFlight(toPanel[c]) /\ p.seq # nextSeq[c]
    <3>1. Tcp => \A p \in InFlight(toPanel[c]) : p.seq # nextSeq[c]
      BY <1>2 DEF Fresh
    <3>. HIDE DEF q, c
    <3>. QED BY <2>2, <2>3, <3>1
  <2>. QED BY <1>3, <2>2, <2>3, <2>5, <2>6 DEF OutStep, InStep
<1>5. CASE ~clientEnd[c]
  BY <1>3, <1>5 DEF SendEncrypted, OutStep, InStep
<1>. QED BY <1>4, <1>5

\* What steps of a connection put on the wire.
LEMMA ConnStepWire ==
    ASSUME TypeOK, LifecycleInv, NEW c \in Conns, ConnNext(c)
    PROVE  OutStep /\ InStep
<1>1. CASE HandshakeTimesOut(c) \/ HandshakeCrashes(c) \/ StepTwoRefused(c) \/ StepFourRefused(c)
  BY <1>1, CloseWire
     DEF HandshakeTimesOut, HandshakeCrashes, StepTwoRefused, StepFourRefused, HandshakeRaises
<1>2. CASE OwnerCloses(c)
  BY <1>2, CloseWire DEF OwnerCloses
<1>3. CASE SocketOpens(c)
  <2> DEFINE q == Control("NewSession", nextSeq[c], 0)
  <2>1. q \in Packet
    BY ControlIsPacket DEF TypeOK, ClientTypeOK, ClientTypes
  <2>2. /\ \A d \in Conns \ {c} : toPanel'[d] = toPanel[d] /\ toClient'[d] = toClient[d]
        /\ InFlight(toPanel'[c]) \subseteq InFlight(toPanel[c]) \cup {q}
        /\ InFlight(toClient'[c]) \subseteq InFlight(toClient[c])
    <3>1. ClaimSeq(c) /\ ToPanel(c, q)
      BY <1>3 DEF SocketOpens, StepOne
    <3>. QED BY <2>1, <3>1, ClaimsFresh, ToPanelAdds DEF TypeOK, ClientTypeOK
  <2>3. Sent(c, q)
    BY <1>3 DEF Sent, Control, SocketOpens, StepOne, ClaimSeq, LifecycleInv
  <2>. QED BY <2>2, <2>3 DEF OutStep, InStep
<1>4. CASE StepTwo(c)
  <2> DEFINE q == Control("SecureSession", nextSeq[c], hsPkt[c].sid)
  <2>1. hsPkt[c] \in Packet /\ hsPkt[c].sid \in Nat
    BY <1>4 DEF StepTwo, StepTwoUnder, TakesHandshakePacket, Packet, TypeOK, ClientTypeOK
  <2>2. q \in Packet
    BY <2>1, ControlIsPacket DEF TypeOK, ClientTypeOK, ClientTypes
  <2>3. /\ \A d \in Conns \ {c} : toPanel'[d] = toPanel[d] /\ toClient'[d] = toClient[d]
        /\ InFlight(toPanel'[c]) \subseteq InFlight(toPanel[c]) \cup {q}
        /\ InFlight(toClient'[c]) \subseteq InFlight(toClient[c])
    <3>1. ClaimSeq(c) /\ ToPanel(c, q)
      BY <1>4 DEF StepTwo, StepTwoUnder
    <3>. HIDE DEF q
    <3>. QED BY <2>2, <3>1, ClaimsFresh, ToPanelAdds DEF TypeOK, ClientTypeOK
  <2>4. Sent(c, q)
    BY <1>4 DEF Sent, Control, StepTwo, StepTwoUnder, ClaimSeq, LifecycleInv, NoSessionYet,
                TypeOK, ClientTypeOK
  <2>. QED BY <2>3, <2>4 DEF OutStep, InStep
<1>5. CASE Connect(c) \/ SocketFails(c) \/ StepFour(c) \/ FinishClose(c) \/ ConnectionReset(c) \/ ReaderEOF(c)
  BY <1>5 DEF Connect, SocketFails, StepFour, StepFourAccepting, FinishClose, ConnectionReset,
              ReaderDies, ReaderEOF, wireVars, OutStep, InStep
<1>6. ASSUME NEW p, Arrives(c, p), UNCHANGED toPanel PROVE OutStep /\ InStep
  BY <1>6, ArrivesRemoves DEF TypeOK, OutStep, InStep
<1>. QED BY <1>1, <1>2, <1>3, <1>4, <1>5, <1>6
         DEF ConnNext, Handshake, Receive, ReceiveHandshake, ReceiveUnsolicited,
             ReceiveSolicited, ReaderDiesOf, ReaderDies

\* What steps of the panel put on the wire.
LEMMA PanelStepWire ==
    ASSUME TypeOK, NEW c \in Conns, PanelNext(c)
    PROVE  OutStep /\ InStep
<1>1. OutStep
  <2>1. ASSUME NEW p, Serves(c, p) PROVE OutStep
    BY <2>1, ServesRemoves DEF TypeOK, OutStep
  <2>2. CASE UNCHANGED toPanel
    BY <2>2 DEF OutStep
  <2>. QED
    BY <2>1, <2>2 DEF PanelNext, PanelHandles, NewSession, RefusesSession, SecureSession, SessionEnd,
           ExecutesRequest, RejectsGarbled, NoSessionForRequest, TerminatesSession,
           PushEvent, PanelDrops, WritesGarbage
<1>2. ASSUME NEW q \in Packet, ToClient(c, q), Answered(c, q) PROVE InStep
  <2>1. /\ \A d \in Conns \ {c} : toClient'[d] = toClient[d]
        /\ InFlight(toClient'[c]) \subseteq InFlight(toClient[c]) \cup {q}
    BY <1>2, ToClientAdds DEF TypeOK
  <2>. QED BY <1>2, <2>1 DEF InStep
<1>3. ASSUME UNCHANGED toClient PROVE InStep
  BY <1>3 DEF InStep
<1>4. ASSUME NEW p, Serves(c, p) PROVE p \in Packet /\ p \in InFlight(toPanel[c])
  BY <1>4, ServesRemoves DEF TypeOK
<1>5. ASSUME NEW p, NewSession(c, p) PROVE InStep
  <2> DEFINE q == Control("AckNewSession", p.seq, nextSid)
  <2>1. p \in Packet /\ p \in InFlight(toPanel[c])
    BY <1>4, <1>5 DEF NewSession
  <2>2. q \in Packet
    BY <2>1, ControlIsPacket DEF Packet, HandshakeTypes, PanelTypes, TypeOK, PanelTypeOK
  <2>3. Answered(c, q)
    BY <1>5, <2>1 DEF NewSession, Answered, Control
  <2>. QED BY <1>2, <1>5, <2>2, <2>3 DEF NewSession, Reply
<1>6. ASSUME NEW p, RefusesSession(c, p) PROVE InStep
  <2> DEFINE q == Control("CannotStart", p.seq, 0)
  <2>1. p \in Packet /\ p \in InFlight(toPanel[c])
    BY <1>4, <1>6 DEF RefusesSession
  <2>2. q \in Packet
    BY <2>1, ControlIsPacket DEF Packet, HandshakeTypes, PanelTypes
  <2>3. Answered(c, q)
    BY <1>6, <2>1 DEF RefusesSession, Answered, Control
  <2>. QED BY <1>2, <1>6, <2>2, <2>3 DEF RefusesSession, Reply
<1>7. ASSUME NEW p, SecureSession(c, p) PROVE InStep
  <2> DEFINE ack == Control("AckSecure", p.seq, p.sid)
             term == Control("Terminated", p.seq, 0)
  <2>1. p \in Packet /\ p \in InFlight(toPanel[c]) /\ p.type = "SecureSession"
    BY <1>4, <1>7 DEF SecureSession
  <2>2. ack \in Packet /\ term \in Packet
    BY <2>1, ControlIsPacket DEF Packet, HandshakeTypes, PanelTypes
  <2>3. CASE session[Slot(c)] # 0 /\ Decrypts(c, p)
    <3>1. Answered(c, ack) /\ ToClient(c, ack)
      BY <1>7, <2>1, <2>3 DEF SecureSession, Decrypts, Answered, Control, Reply
    <3>. QED BY <1>2, <2>2, <3>1
  <2>4. CASE ~(session[Slot(c)] # 0 /\ Decrypts(c, p))
    <3>1. UNCHANGED toClient \/ ToClient(c, term)
      BY <1>7, <2>4 DEF SecureSession, Reply
    <3>2. Answered(c, term)
      BY <2>1 DEF Answered, Control
    <3>. QED BY <1>2, <1>3, <2>2, <3>1, <3>2
  <2>. QED BY <2>3, <2>4
<1>8. ASSUME NEW p, ExecutesRequest(c, p) PROVE InStep
  <2> DEFINE q == MessagePacket(p.seq, session[Slot(c)], p.body)
  <2>1. p \in Packet /\ p \in InFlight(toPanel[c])
    BY <1>4, <1>8 DEF ExecutesRequest
  <2>2. q \in Packet
    BY <2>1, MessageIsPacket, SlotIsSlot DEF Packet, TypeOK, PanelTypeOK
  <2>3. p.body \in Calls => executions'[p.body] > 0
    BY <1>8 DEF ExecutesRequest, AtMostTwo, TypeOK, PanelTypeOK
  <2>4. Answered(c, q)
    BY <1>8, <2>1, <2>3 DEF ExecutesRequest, Answered, MessagePacket
  <2>. QED BY <1>2, <1>8, <2>2, <2>4 DEF ExecutesRequest, Reply
<1>9. ASSUME NEW p, RejectsGarbled(c, p) PROVE InStep
  <2> DEFINE q == MessagePacket(p.seq, session[Slot(c)], Nak)
  <2>1. p \in Packet /\ p \in InFlight(toPanel[c])
    BY <1>4, <1>9 DEF RejectsGarbled
  <2>2. q \in Packet
    BY <2>1, MessageIsPacket, SlotIsSlot DEF Packet, Bodies, TypeOK, PanelTypeOK
  <2>3. Answered(c, q)
    BY <1>9, <2>1 DEF RejectsGarbled, Decrypts, Answered, MessagePacket
  <2>. QED BY <1>2, <1>9, <2>2, <2>3 DEF RejectsGarbled, Reply
<1>10. ASSUME NEW p, TerminatesSession(c, p) PROVE InStep
  <2> DEFINE q == Control("Terminated", p.seq, 0)
  <2>1. p \in Packet /\ p \in InFlight(toPanel[c])
    BY <1>4, <1>10 DEF TerminatesSession
  <2>2. q \in Packet
    BY <2>1, ControlIsPacket DEF Packet, HandshakeTypes, PanelTypes
  <2>3. Answered(c, q)
    BY <1>10, <2>1 DEF TerminatesSession, Answered, Control
  <2>. QED BY <1>2, <1>10, <2>2, <2>3 DEF TerminatesSession, Reply
<1>11. ASSUME NEW sid \in 1 .. MaxSid, PushEvent(c, sid) PROVE InStep
  <2> DEFINE q == MessagePacket(0, sid, Push)
  <2>1. q \in Packet
    BY LinkAssumption, MessageIsPacket DEF Seqs, Bodies
  <2>2. Answered(c, q)
    BY DEF Answered, MessagePacket
  <2>. QED BY <1>2, <1>3, <1>11, <2>1, <2>2 DEF PushEvent
<1>12. ASSUME WritesGarbage(c) PROVE InStep
  <2> DEFINE q == [NoPacket EXCEPT !.type = "Garbage"]
  <2>1. q = [type |-> "Garbage", seq |-> 0, sid |-> 0, body |-> NoBody]
    BY DEF NoPacket
  <2>2. q \in Packet
    BY <2>1, LinkAssumption DEF Packet, PanelTypes, Seqs, Bodies
  <2>3. Answered(c, q)
    BY <2>1 DEF Answered
  <2>4. ToClient(c, q)
    BY <1>12 DEF WritesGarbage, Reply
  <2>. HIDE DEF q
  <2>. QED BY <1>2, <2>2, <2>3, <2>4
<1>13. ASSUME PanelDrops(c) \/ \E p : SessionEnd(c, p) \/ NoSessionForRequest(c, p)
       PROVE  InStep
  BY <1>3, <1>13 DEF PanelDrops, SessionEnd, NoSessionForRequest
<1>. QED BY <1>1, <1>5, <1>6, <1>7, <1>8, <1>9, <1>10, <1>11, <1>12, <1>13
         DEF PanelNext, PanelHandles

\* What any step puts on the wire.
LEMMA StepWire == TypeOK /\ LifecycleInv /\ [Next]_vars => OutStep /\ InStep
<1>. SUFFICES ASSUME TypeOK, LifecycleInv, [Next]_vars PROVE OutStep /\ InStep
  OBVIOUS
<1>1. ASSUME NEW r \in Calls, CallNext(r) PROVE OutStep /\ InStep
  <2>1. CASE Request(r) \/ RetryAfterTimeout(r)
    BY <2>1, SendEncryptedWire DEF Request, RetryAfterTimeout
  <2>2. CASE RequestOffline(r) \/ Returns(r) \/ TimerFires(r) \/ RequestTimesOut(r) \/ CallerCancels(r)
    BY <2>2 DEF RequestOffline, Returns, TimerFires, RequestTimesOut, CallerCancels, wireVars, OutStep, InStep
  <2>. QED BY <1>1, <2>1, <2>2 DEF CallNext
<1>2. CASE UNCHANGED vars
  BY <1>2 DEF vars, wireVars, OutStep, InStep
<1>. QED BY <1>1, <1>2, ConnStepWire, PanelStepWire DEF Next

-----------------------------------------------------------------------------
(* What a step does to a call.                                             *)

SameAttempt(r) ==
    call'[r].pc = call[r].pc /\ call'[r].seq = call[r].seq /\ call'[r].tries = call[r].tries

\* A request goes out alone, under a number that nothing else bears.
GoesOut(r) ==
    LET c == Owner[r] IN
    /\ Starts(r)
    /\ call'[r].fut = "pending" /\ call'[r].tries > 0
    /\ nextSeq[c] # 0 /\ clientEnd[c] /\ Fresh(c, nextSeq[c])
    /\ \A q \in Calls \ {r} : call'[q] = call[q]
    /\ \A p \in InFlight(toPanel'[c]) : p.seq = nextSeq[c] => p.type = "Message" /\ p.body = r
    /\ \A p \in InFlight(toClient'[c]) : p.seq # nextSeq[c]

Over(r) == call'[r].pc \notin {"idle", "waiting", "expired", "answered"}

GetsAnswer(r) ==
    /\ call[r].pc = "waiting" /\ call'[r].pc = "answered"
    /\ call[r].fut = "reply" /\ call'[r].fut = "reply"
    /\ call[r].sid = sessionId[Owner[r]]
    /\ call'[r].body = call[r].body

Expires(r) ==
    /\ call[r].pc = "waiting" /\ call'[r].pc = "expired"
    /\ call'[r].seq = call[r].seq /\ call'[r].tries = call[r].tries

Fails(r) == SameAttempt(r) /\ call[r].fut = "pending" /\ call'[r].fut = "error"

Settled(r) ==
    /\ SameAttempt(r) /\ call[r].fut = "pending"
    /\ \E c \in Conns : \E p \in InFlight(toClient[c]) :
         /\ p.seq \in Seqs \ {0} /\ pending[c][p.seq] = r
         /\ call'[r].fut = IF p.type = "Terminated" THEN "error" ELSE "reply"
         /\ call'[r].sid = p.sid /\ call'[r].body = p.body

CallStep ==
    \A r \in Calls :
        \/ call'[r] = call[r]
        \/ GoesOut(r) \/ Over(r) \/ GetsAnswer(r) \/ Expires(r) \/ Fails(r) \/ Settled(r)

\* Failing the waiters moves calls in one of the named ways.
LEMMA FailPendingCalls ==
    ASSUME TypeOK, NEW c, FailPending(c)
    PROVE  CallStep
<1>. SUFFICES ASSUME NEW r \in Calls, call'[r] # call[r] PROVE Fails(r)
  BY DEF CallStep
<1>1. Orphaned(c, r)
  BY DEF FailPending
<1>. QED BY <1>1, FailPendingKeeps DEF Orphaned, Fails, SameAttempt

\* _send_encrypted moves its call in one of the named ways.
LEMMA SendEncryptedCalls ==
    ASSUME TypeOK, NEW r \in Calls, NEW tries \in Nat \ {0}, NEW table, SendEncrypted(r, tries, table),
           \/ call[r].pc = "idle" /\ state[Owner[r]] = "ONLINE"
           \/ call[r].pc = "expired" /\ call[r].tries < MaxAttempts
    PROVE  CallStep
<1> DEFINE c == Owner[r]
           pc == IF clientEnd[c] THEN "waiting" ELSE "error"
           n == nextSeq[c]
<1>1. /\ c \in Conns /\ n \in Seqs \ {0} /\ call \in [Calls -> CallRecord]
      /\ call' = [call EXCEPT ![r] = [@ EXCEPT !.pc = pc, !.fut = "pending", !.seq = n, !.tries = tries]]
      /\ Fresh(c, n)
  BY LinkAssumption DEF TypeOK, ClientTypeOK, SendEncrypted, ClaimSeq
<1> HIDE DEF pc, n
<1>2. \A q \in Calls \ {r} : call'[q] = call[q]
  BY <1>1
<1>3. call'[r].pc = pc /\ call'[r].fut = "pending" /\ call'[r].seq = n /\ call'[r].tries = tries
  BY <1>1 DEF CallRecord
<1>4. CASE clientEnd[c]
  <2>1. Starts(r)
    BY <1>3, <1>4 DEF Starts, pc, n
  <2>2. GoesOut(r)
    BY <1>1, <1>2, <1>3, <1>4, <2>1, SendEncryptedWire DEF GoesOut, n
  <2>. QED BY <1>2, <2>2 DEF CallStep
<1>5. CASE ~clientEnd[c]
  BY <1>2, <1>3, <1>5 DEF pc, Over, CallStep
<1>. QED BY <1>4, <1>5

\* close() moves calls in one of the named ways.
LEMMA CloseCalls ==
    ASSUME TypeOK, NEW c \in Conns, Close(c)
    PROVE  CallStep
<1>1. CASE Tcp
  BY <1>1 DEF Close, CallStep
<1>2. CASE ~Tcp
  BY <1>2, FailPendingCalls DEF Close, EndClose
<1>. QED BY <1>1, <1>2

\* Every step moves every call in one of the named ways.
LEMMA StepCalls == TypeOK /\ [Next]_vars => CallStep
<1>. SUFFICES ASSUME TypeOK, [Next]_vars PROVE CallStep
  OBVIOUS
<1>1. ASSUME UNCHANGED call PROVE CallStep
  BY <1>1 DEF CallStep
<1>2. ASSUME NEW c \in Conns, ConnNext(c) PROVE CallStep
  <2>1. CASE HandshakeTimesOut(c) \/ HandshakeCrashes(c) \/ StepTwoRefused(c) \/ StepFourRefused(c)
    BY <2>1, CloseCalls
       DEF HandshakeTimesOut, HandshakeCrashes, StepTwoRefused, StepFourRefused, HandshakeRaises
  <2>2. CASE OwnerCloses(c)
    BY <2>2, CloseCalls DEF OwnerCloses
  <2>3. CASE FinishClose(c)
    BY <2>3, FailPendingCalls DEF FinishClose, EndClose
  <2>4. CASE ReaderDies(c)
    BY <2>4, FailPendingCalls DEF ReaderDies
  <2>5. ASSUME NEW p, ReceiveSolicited(c, p) PROVE CallStep
    <3>1. p \in Packet /\ p \in InFlight(toClient[c]) /\ p.seq \in Seqs \ {0}
      BY <2>5, ArrivesRemoves DEF ReceiveSolicited, TypeOK, Packet
    <3>. SUFFICES ASSUME NEW r \in Calls, call'[r] # call[r] PROVE Settled(r)
      BY DEF CallStep
    <3>2. /\ SameAttempt(r)
          /\ r = pending[c][p.seq] /\ call[r].fut = "pending"
          /\ call'[r].fut = IF p.type = "Terminated" THEN "error" ELSE "reply"
          /\ call'[r].sid = p.sid /\ call'[r].body = p.body
      BY <2>5, <3>1, DispatchKeeps DEF ReceiveSolicited, SameAttempt
    <3>. QED BY <3>1, <3>2 DEF Settled
  <2>6. CASE UNCHANGED call
    BY <1>1, <2>6
  <2>. QED
    BY <1>2, <2>1, <2>2, <2>3, <2>4, <2>5, <2>6
       DEF ConnNext, Handshake, Receive, Connect, SocketOpens, StepOne, SocketFails, StepTwo, StepTwoUnder,
           StepFour, StepFourAccepting, ReceiveHandshake, ReceiveUnsolicited, ReaderDiesOf,
           ConnectionReset, ReaderEOF
<1>3. ASSUME NEW c \in Conns, PanelNext(c) PROVE CallStep
  <2>1. UNCHANGED clientVars
    BY <1>3 DEF PanelNext, PanelHandles, NewSession, RefusesSession, SecureSession, SessionEnd,
           ExecutesRequest, RejectsGarbled, NoSessionForRequest, TerminatesSession,
           PushEvent, PanelDrops, WritesGarbage
  <2>. QED BY <1>1, <2>1 DEF clientVars
<1>4. ASSUME NEW r \in Calls, CallNext(r) PROVE CallStep
  <2>0. call \in [Calls -> CallRecord] /\ call[r] \in CallRecord
    BY DEF TypeOK, ClientTypeOK
  <2>1. CASE Request(r)
    BY <2>1, SendEncryptedCalls DEF Request
  <2>2. CASE RetryAfterTimeout(r)
    <3>1. call[r].tries + 1 \in Nat \ {0}
      BY <2>0 DEF CallRecord
    <3>. QED BY <2>2, <3>1, SendEncryptedCalls DEF RetryAfterTimeout
  <2>3. ASSUME \A q \in Calls \ {r} : call'[q] = call[q], Over(r) \/ GetsAnswer(r) \/ Expires(r)
        PROVE  CallStep
    BY <2>3 DEF CallStep
  <2>4. CASE RequestOffline(r) \/ RequestTimesOut(r) \/ CallerCancels(r)
    <3>1. \A q \in Calls \ {r} : call'[q] = call[q]
      BY <2>0, <2>4 DEF RequestOffline, RequestTimesOut, CallerCancels
    <3>2. call'[r].pc \in {"error", "timeout", "cancelled"}
      BY <2>0, <2>4 DEF RequestOffline, RequestTimesOut, CallerCancels, CallRecord
    <3>. QED BY <2>3, <3>1, <3>2 DEF Over
  <2>5. CASE Returns(r)
    <3> DEFINE pc == IF call[r].fut = "reply" /\ call[r].sid = sessionId[Owner[r]]
                     THEN "answered" ELSE "error"
    <3>1. call[r].pc = "waiting" /\ call' = [call EXCEPT ![r] = [@ EXCEPT !.pc = pc]]
      BY <2>5 DEF Returns
    <3> HIDE DEF pc
    <3>2. \A q \in Calls \ {r} : call'[q] = call[q]
      BY <2>0, <3>1
    <3>3. call'[r].pc = pc /\ call'[r].fut = call[r].fut /\ call'[r].body = call[r].body
      BY <2>0, <3>1 DEF CallRecord
    <3>4. Over(r) \/ GetsAnswer(r)
      BY <3>1, <3>3 DEF pc, Over, GetsAnswer
    <3>. QED BY <2>3, <3>2, <3>4
  <2>6. CASE TimerFires(r)
    <3>1. \A q \in Calls \ {r} : call'[q] = call[q]
      BY <2>0, <2>6 DEF TimerFires
    <3>2. Expires(r)
      BY <2>0, <2>6 DEF TimerFires, Expires, CallRecord
    <3>. QED BY <2>3, <3>1, <3>2
  <2>. QED BY <1>4, <2>1, <2>2, <2>4, <2>5, <2>6 DEF CallNext
<1>5. CASE UNCHANGED vars
  BY <1>1, <1>5 DEF vars, clientVars
<1>. QED BY <1>2, <1>3, <1>4, <1>5 DEF Next

-----------------------------------------------------------------------------
(* Each part of the inductive invariant is kept.                           *)

\* _state, _closed, socket and outcome stay in step.
LEMMA LifecycleStep == TypeOK /\ LifecycleInv /\ [Next]_vars => LifecycleInv'
<1>. SUFFICES ASSUME TypeOK, LifecycleInv, [Next]_vars PROVE LifecycleInv'
  OBVIOUS
<1> USE DEF LifecycleInv, InHandshake
<1>0. /\ state \in [Conns -> States] /\ closed \in [Conns -> BOOLEAN]
      /\ clientEnd \in [Conns -> BOOLEAN] /\ outcome \in [Conns -> Outcomes]
  BY DEF TypeOK, ClientTypeOK
<1>1. ASSUME UNCHANGED <<state, closed, clientEnd, outcome>> PROVE LifecycleInv'
  BY <1>1
<1>2. ASSUME NEW c \in Conns, Close(c),
             outcome' = outcome \/ \E why \in Outcomes : outcome' = [outcome EXCEPT ![c] = why]
      PROVE  LifecycleInv'
  <2>1. closed' = [closed EXCEPT ![c] = TRUE] /\ state' = [state EXCEPT ![c] = "DISCONNECTED"]
    BY <1>2 DEF Close, BeginClose
  <2>2. CASE Tcp
    <3>1. UNCHANGED clientEnd
      BY <1>2, <2>2 DEF Close
    <3>. QED BY <1>0, <1>2, <2>1, <2>2, <3>1
  <2>3. CASE ~Tcp
    <3>1. clientEnd' = [clientEnd EXCEPT ![c] = FALSE]
      BY <1>2, <2>3 DEF Close, EndClose
    <3>. QED BY <1>0, <1>2, <2>1, <2>3, <3>1
  <2>. QED BY <2>2, <2>3
<1>3. ASSUME NEW c \in Conns, ConnNext(c) PROVE LifecycleInv'
  <2>1. CASE HandshakeTimesOut(c) \/ HandshakeCrashes(c) \/ StepTwoRefused(c) \/ StepFourRefused(c)
    BY <1>2, <2>1
       DEF HandshakeTimesOut, HandshakeCrashes, StepTwoRefused, StepFourRefused, HandshakeRaises, Outcomes
  <2>2. CASE OwnerCloses(c)
    BY <1>2, <2>2 DEF OwnerCloses
  <2>3. CASE Connect(c) \/ SocketFails(c)
    BY <1>0, <2>3 DEF Connect, SocketFails, wireVars
  <2>4. CASE SocketOpens(c)
    BY <1>0, <2>4 DEF SocketOpens, StepOne
  <2>5. CASE StepTwo(c)
    BY <1>0, <2>5 DEF StepTwo, StepTwoUnder
  <2>6. CASE StepFour(c)
    BY <1>0, <2>6 DEF StepFour, StepFourAccepting, wireVars
  <2>7. CASE FinishClose(c)
    BY <1>0, <2>7 DEF FinishClose, EndClose
  <2>8. CASE UNCHANGED <<state, closed, clientEnd, outcome>>
    BY <1>1, <2>8
  <2>. QED
    BY <1>3, <2>1, <2>2, <2>3, <2>4, <2>5, <2>6, <2>7, <2>8
       DEF ConnNext, Handshake, Receive, ReceiveHandshake, ReceiveUnsolicited, ReceiveSolicited,
           ReaderDiesOf, ConnectionReset, ReaderDies, ReaderEOF, sessionVars, wireVars
<1>4. ASSUME NEW c \in Conns, PanelNext(c) PROVE LifecycleInv'
  <2>1. UNCHANGED <<clientVars, clientEnd>>
    BY <1>4 DEF PanelNext, PanelHandles, NewSession, RefusesSession, SecureSession, SessionEnd,
           ExecutesRequest, RejectsGarbled, NoSessionForRequest, TerminatesSession,
           PushEvent, PanelDrops, WritesGarbage
  <2>. QED BY <1>1, <2>1 DEF clientVars
<1>5. ASSUME NEW r \in Calls, CallNext(r) PROVE LifecycleInv'
  BY <1>1, <1>5 DEF CallNext, Request, RequestOffline, Returns, TimerFires, RetryAfterTimeout,
                    RequestTimesOut, CallerCancels, sessionVars, wireVars
<1>6. CASE UNCHANGED vars
  BY <1>1, <1>6 DEF vars, clientVars, wireVars
<1>. QED BY <1>3, <1>4, <1>5, <1>6 DEF Next

\* What is sent to the panel stays under the one SessionID.
LEMMA OutboundStep ==
    ASSUME TypeOK, NumbersInv, OnlineMeansAccepted, OutboundInv, OutStep, Forward
    PROVE  OutboundInv'
<1>. SUFFICES ASSUME NEW c \in Conns, NEW p \in InFlight(toPanel'[c])
              PROVE  /\ p.type \in {"SecureSession", "Message"}
                          => ~NoSessionYet(c)' /\ p.sid = sessionId'[c]
                     /\ p.type = "Message"
                          => /\ c \notin WrongKey
                             /\ p.seq # 0
                             /\ p.body \in Calls /\ Owner[p.body] = c
                             /\ call'[p.body].pc # "idle"
  BY DEF OutboundInv
<1>0. nextSeq[c] # 0
  BY DEF TypeOK, ClientTypeOK
<1>1. CASE p \in InFlight(toPanel[c])
  BY <1>1 DEF OutboundInv, Forward
<1>2. CASE Sent(c, p) /\ p.type = "SecureSession"
  BY <1>2 DEF Sent
<1>3. CASE Sent(c, p) /\ p.type = "Message"
  <2>1. Starts(p.body) /\ p.body \in Calls /\ Owner[p.body] = c /\ p.sid = sessionId[c] /\ p.seq # 0
    BY <1>0, <1>3 DEF Sent
  <2>2. ~NoSessionYet(c) /\ c \notin WrongKey
    BY <2>1 DEF Starts, NumbersInv, OnlineMeansAccepted, NoSessionYet, InFlightStates
  <2>. QED BY <2>1, <2>2 DEF Starts, Forward
<1>. QED BY <1>1, <1>2, <1>3 DEF OutStep, Sent

\* What is sent to the client stays push, unreadable Nak or answer.
LEMMA InboundStep ==
    ASSUME OutboundInv, InboundInv, InStep, Forward
    PROVE  InboundInv'
<1>. SUFFICES ASSUME NEW c \in Conns, NEW q \in InFlight(toClient'[c]), q.type = "Message"
              PROVE  \/ q.seq = 0 /\ q.body = Push
                     \/ q.seq # 0 /\ q.body = Nak /\ q.sid # sessionId'[c] /\ ~NoSessionYet(c)'
                     \/ q.seq # 0 /\ q.body \in Calls /\ executions'[q.body] > 0
  BY DEF InboundInv
<1>1. CASE q \in InFlight(toClient[c])
  BY <1>1 DEF InboundInv, Forward
<1>2. CASE Answered(c, q)
  BY <1>2 DEF Answered, OutboundInv, Forward
<1>. QED BY <1>1, <1>2 DEF InStep

\* Requests in flight keep their numbers to themselves.
LEMMA NumbersStep ==
    ASSUME TypeOK, OutboundInv, OnlineMeansAccepted, NumbersInv, OutStep, InStep, CallStep, Forward
    PROVE  NumbersInv'
<1> USE DEF InFlightStates
<1>. SUFFICES ASSUME NEW r \in Calls, call'[r].pc \in InFlightStates, NEW c, c = Owner[r]
              PROVE  /\ ~NoSessionYet(c)' /\ state'[c] # "SECURE" /\ c \notin WrongKey
                     /\ call'[r].seq # 0
                     /\ call'[r].tries > 0
                     /\ \A q \in Calls \ {r} :
                          call'[q].pc \in InFlightStates /\ Owner[q] = c => call'[q].seq # call'[r].seq
                     /\ \A p \in InFlight(toPanel'[c]) :
                          p.seq = call'[r].seq => p.type = "Message" /\ p.body = r
                     /\ \A p \in InFlight(toClient'[c]) :
                          p.seq = call'[r].seq => \/ p.type = "Message" /\ p.body \in {r, Nak}
                                                 \/ p.type = "Terminated"
  BY DEF NumbersInv
<1>0. c \in Conns
  BY LinkAssumption
<1>1. CASE GoesOut(r)
  <2>1. /\ ~NoSessionYet(c) /\ c \notin WrongKey
        /\ state[c] # "SECURE"
    BY <1>0, <1>1 DEF GoesOut, Starts, NumbersInv, OnlineMeansAccepted, NoSessionYet
  <2>2. \A q \in Calls \ {r} : call'[q].pc \in InFlightStates /\ Owner[q] = c => call'[q].seq # call'[r].seq
    BY <1>1 DEF GoesOut, Starts, Fresh
  <2>. QED BY <1>0, <1>1, <2>1, <2>2 DEF GoesOut, Starts, Forward
<1>2. CASE ~GoesOut(r)
  <2>1. /\ call[r].pc \in InFlightStates
        /\ call'[r].seq = call[r].seq /\ call'[r].tries = call[r].tries
    BY <1>2 DEF CallStep, Over, GetsAnswer, Expires, Fails, Settled, SameAttempt
  <2>2. ASSUME NEW q \in Calls \ {r}, call'[q].pc \in InFlightStates, Owner[q] = c
        PROVE  call'[q].seq # call'[r].seq
    <3>1. CASE GoesOut(q)
      BY <2>1, <2>2, <3>1 DEF GoesOut, Starts, Fresh
    <3>2. CASE ~GoesOut(q)
      <4>1. call[q].pc \in InFlightStates /\ call'[q].seq = call[q].seq
        BY <2>2, <3>2 DEF CallStep, Over, GetsAnswer, Expires, Fails, Settled, SameAttempt
      <4>. QED BY <2>1, <2>2, <4>1 DEF NumbersInv
    <3>. QED BY <3>1, <3>2
  <2>3. ASSUME NEW p \in InFlight(toPanel'[c]), p.seq = call'[r].seq
        PROVE  p.type = "Message" /\ p.body = r
    <3>1. CASE p \in InFlight(toPanel[c])
      BY <2>1, <2>3, <3>1 DEF NumbersInv
    <3>2. CASE Sent(c, p)
      BY <2>1, <2>3, <3>2 DEF Sent, Fresh
    <3>. QED BY <1>0, <2>3, <3>1, <3>2 DEF OutStep
  <2>4. ASSUME NEW p \in InFlight(toClient'[c]), p.seq = call'[r].seq
        PROVE  \/ p.type = "Message" /\ p.body \in {r, Nak}
               \/ p.type = "Terminated"
    <3>1. CASE p \in InFlight(toClient[c])
      BY <2>1, <2>4, <3>1 DEF NumbersInv
    <3>2. CASE Answered(c, p)
      <4>1. p.seq # 0
        BY <2>1, <2>4 DEF NumbersInv
      <4>2. \A x \in InFlight(toPanel[c]) : x.seq = p.seq => x.type = "Message" /\ x.body = r
        BY <2>1, <2>4 DEF NumbersInv
      <4>. QED BY <3>2, <4>1, <4>2 DEF Answered
    <3>. QED BY <1>0, <2>4, <3>1, <3>2 DEF InStep
  <2>. QED BY <1>0, <2>1, <2>2, <2>3, <2>4 DEF NumbersInv, Forward
<1>. QED BY <1>1, <1>2

\* The packet kept for the handshake came in, or is none.
LEMMA StepHandshakePacket ==
    ASSUME TypeOK, [Next]_vars, NEW c \in Conns
    PROVE  hsPkt'[c] \in InFlight(toClient[c]) \cup {hsPkt[c], NoPacket}
<1>0. hsPkt \in [Conns -> Packet \cup {NoPacket}]
  BY DEF TypeOK, ClientTypeOK
<1>1. ASSUME NEW d \in Conns, NEW p, ReceiveHandshake(d, p)
      PROVE  hsPkt'[c] \in InFlight(toClient[c]) \cup {hsPkt[c], NoPacket}
  BY <1>0, <1>1, ArrivesRemoves DEF ReceiveHandshake, TypeOK
<1>2. ASSUME NEW d \in Conns, hsPkt' = [hsPkt EXCEPT ![d] = NoPacket]
      PROVE  hsPkt'[c] \in InFlight(toClient[c]) \cup {hsPkt[c], NoPacket}
  BY <1>0, <1>2
<1>3. CASE UNCHANGED hsPkt
  BY <1>3
<1>4. ASSUME NEW d \in Conns, ConnNext(d)
      PROVE  \/ UNCHANGED hsPkt \/ hsPkt' = [hsPkt EXCEPT ![d] = NoPacket]
             \/ \E p : ReceiveHandshake(d, p)
  BY <1>4 DEF ConnNext, Handshake, Receive, Connect, SocketOpens, StepOne, SocketFails, HandshakeTimesOut,
       HandshakeCrashes, StepTwo, StepTwoUnder, StepTwoRefused, StepFour, StepFourAccepting,
       StepFourRefused, TakesHandshakePacket, OwnerCloses, FinishClose, ReceiveUnsolicited,
       ReceiveSolicited, ReaderDiesOf, ConnectionReset, ReaderDies, ReaderEOF, sessionVars
<1>5. ASSUME NEW d \in Conns, PanelNext(d) PROVE UNCHANGED hsPkt
  BY <1>5 DEF PanelNext, PanelHandles, NewSession, RefusesSession, SecureSession, SessionEnd,
         ExecutesRequest, RejectsGarbled, NoSessionForRequest, TerminatesSession,
         PushEvent, PanelDrops, WritesGarbage, clientVars
<1>6. ASSUME NEW r \in Calls, CallNext(r) PROVE UNCHANGED hsPkt
  BY <1>6 DEF CallNext, Request, RequestOffline, Returns, TimerFires, RetryAfterTimeout,
              RequestTimesOut, CallerCancels, sessionVars
<1>. QED BY <1>1, <1>2, <1>3, <1>4, <1>5, <1>6 DEF Next, vars, clientVars

\* Acknowledgements stay for the session the client holds.
LEMMA AckStep ==
    ASSUME TypeOK, OutboundInv, AckInv, InStep, Forward, [Next]_vars
    PROVE  AckInv'
<1>. SUFFICES ASSUME NEW c \in Conns, NEW q \in InFlight(toClient'[c]) \cup {hsPkt'[c]},
                     q.type = "AckSecure"
              PROVE  ~NoSessionYet(c)' /\ c \notin WrongKey /\ q.sid = sessionId'[c]
                     /\ <<c, q.sid>> \in accepted'
  BY DEF AckInv
<1>1. CASE q \in InFlight(toClient[c]) \cup {hsPkt[c]}
  BY <1>1 DEF AckInv, Forward
<1>2. CASE Answered(c, q)
  <2>1. PICK p \in InFlight(toPanel[c]) :
          p.type = "SecureSession" /\ q.sid = p.sid /\ c \notin WrongKey /\ <<c, p.sid>> \in accepted'
    BY <1>2 DEF Answered
  <2>2. ~NoSessionYet(c) /\ p.sid = sessionId[c]
    BY <2>1 DEF OutboundInv
  <2>. QED BY <2>1, <2>2 DEF Forward
<1>3. q # NoPacket
  BY DEF NoPacket
<1>. QED BY <1>1, <1>2, <1>3, StepHandshakePacket DEF InStep

\* A connection goes ONLINE only on such an acknowledgement.
LEMMA OnlineStep ==
    ASSUME TypeOK, AckInv, OnlineMeansAccepted, Forward, [Next]_vars
    PROVE  OnlineMeansAccepted'
<1>. SUFFICES ASSUME NEW c \in Conns, state'[c] = "ONLINE"
              PROVE  c \notin WrongKey /\ <<c, sessionId'[c]>> \in accepted'
  BY DEF OnlineMeansAccepted
<1>1. CASE state[c] = "ONLINE"
  BY <1>1 DEF OnlineMeansAccepted, Forward, NoSessionYet
<1>2. CASE StepFour(c)
  BY <1>2 DEF StepFour, StepFourAccepting, TakesHandshakePacket, AckInv, panelVars
<1>3. state[c] = "ONLINE" \/ StepFour(c)
  <2>0. state \in [Conns -> States]
    BY DEF TypeOK, ClientTypeOK
  <2>1. ASSUME NEW d \in Conns, ConnNext(d)
        PROVE  \/ UNCHANGED state \/ StepFour(d)
               \/ \E st \in States \ {"ONLINE"} : state' = [state EXCEPT ![d] = st]
    BY <2>1 DEF ConnNext, Handshake, Receive, Connect, SocketOpens, StepOne, SocketFails, HandshakeTimesOut,
       HandshakeCrashes, StepTwo, StepTwoUnder, StepTwoRefused, StepFourRefused, HandshakeRaises,
       Close, BeginClose, OwnerCloses, FinishClose, ReceiveHandshake, ReceiveUnsolicited,
       ReceiveSolicited, ReaderDiesOf, ConnectionReset, ReaderDies, ReaderEOF, sessionVars, States
  <2>2. ASSUME NEW d \in Conns, StepFour(d), d # c PROVE state'[c] = state[c]
    BY <2>0, <2>2 DEF StepFour, StepFourAccepting
  <2>3. ASSUME NEW d \in Conns, PanelNext(d) PROVE UNCHANGED state
    BY <2>3 DEF PanelNext, PanelHandles, NewSession, RefusesSession, SecureSession, SessionEnd,
         ExecutesRequest, RejectsGarbled, NoSessionForRequest, TerminatesSession,
         PushEvent, PanelDrops, WritesGarbage, clientVars
  <2>4. ASSUME NEW r \in Calls, CallNext(r) PROVE UNCHANGED state
    BY <2>4 DEF CallNext, Request, RequestOffline, Returns, TimerFires, RetryAfterTimeout,
              RequestTimesOut, CallerCancels, sessionVars
  <2>. QED BY <2>0, <2>1, <2>2, <2>3, <2>4 DEF Next, vars, clientVars
<1>. QED BY <1>1, <1>2, <1>3

\* A kept packet that decrypts stays the answer to its request.
LEMMA ReplyStep ==
    ASSUME TypeOK, LifecycleInv, InboundInv, NumbersInv, PendingInv, ReplyInv, CallStep, Forward
    PROVE  ReplyInv'
<1>. SUFFICES ASSUME NEW r \in Calls
              PROVE  /\ call'[r].pc = "waiting" /\ call'[r].fut = "reply" /\ call'[r].sid = sessionId'[Owner[r]]
                          => call'[r].body = r /\ executions'[r] > 0
                     /\ call'[r].pc = "answered" => call'[r].fut = "reply"
  BY DEF ReplyInv
<1>0. Owner[r] \in Conns
  BY LinkAssumption
<1>1. CASE call'[r] = call[r]
  BY <1>0, <1>1 DEF ReplyInv, NumbersInv, InFlightStates, Forward
<1>2. CASE GoesOut(r)
  BY <1>2 DEF GoesOut, Starts
<1>3. CASE Over(r) \/ GetsAnswer(r) \/ Expires(r)
  BY <1>3 DEF Over, GetsAnswer, Expires
<1>4. CASE Fails(r)
  BY <1>4 DEF Fails, SameAttempt, ReplyInv
<1>5. CASE Settled(r)
  <2>1. SameAttempt(r) /\ call[r].pc # "answered"
    BY <1>5 DEF Settled, ReplyInv
  <2>2. SUFFICES ASSUME call[r].pc = "waiting", call'[r].fut = "reply", call'[r].sid = sessionId'[Owner[r]]
                 PROVE  call'[r].body = r /\ executions'[r] > 0
    BY <2>1 DEF SameAttempt
  <2>a. PICK c \in Conns : \E p \in InFlight(toClient[c]) :
          /\ p.seq \in Seqs \ {0} /\ pending[c][p.seq] = r
          /\ call'[r].fut = IF p.type = "Terminated" THEN "error" ELSE "reply"
          /\ call'[r].sid = p.sid /\ call'[r].body = p.body
    BY <1>5 DEF Settled
  <2>3. PICK p \in InFlight(toClient[c]) :
          /\ p.seq \in Seqs \ {0} /\ pending[c][p.seq] = r
          /\ call'[r].fut = IF p.type = "Terminated" THEN "error" ELSE "reply"
          /\ call'[r].sid = p.sid /\ call'[r].body = p.body
    BY <2>a
  <2>4. r # NoCall /\ r # Push /\ r # Nak
    BY CallsAreNoWords
  <2>5. Owner[r] = c /\ call[r].seq = p.seq
    BY <2>3, <2>4 DEF PendingInv
  <2>6. p.type = "Message" /\ p.body \in {r, Nak}
    BY <2>2, <2>3, <2>5 DEF NumbersInv, InFlightStates
  <2>7. sessionId'[c] = sessionId[c]
    BY <2>2, <2>5 DEF NumbersInv, InFlightStates, Forward
  <2>8. p.body = r /\ executions[r] > 0
    <3>1. p.body # Push
      BY <2>4, <2>6 DEF Nak, Push
    <3>2. p.sid = sessionId[c]
      BY <2>2, <2>3, <2>5, <2>7
    <3>3. \/ p.body = Nak /\ p.sid # sessionId[c]
          \/ p.body \in Calls /\ executions[p.body] > 0
      BY <2>6, <3>1 DEF InboundInv
    <3>. QED BY <2>4, <2>6, <3>2, <3>3, CallsAreNoWords
  <2>. QED BY <2>3, <2>8 DEF Forward
<1>. QED BY <1>1, <1>2, <1>3, <1>4, <1>5 DEF CallStep

\* What a request returns is its answer.
LEMMA AnswersStep ==
    ASSUME ReplyInv, AnswersMatchRequests, CallStep, Forward
    PROVE  AnswersMatchRequests'
<1>. SUFFICES ASSUME NEW r \in Calls, call'[r].pc = "answered"
              PROVE  call'[r].body = r /\ executions'[r] > 0
  BY DEF AnswersMatchRequests
<1>1. CASE call'[r] = call[r]
  BY <1>1 DEF AnswersMatchRequests, Forward
<1>2. CASE GetsAnswer(r)
  BY <1>2 DEF GetsAnswer, ReplyInv, Forward
<1>3. CASE Fails(r) \/ Settled(r)
  BY <1>3 DEF Fails, Settled, SameAttempt, ReplyInv
<1>. QED BY <1>1, <1>2, <1>3 DEF CallStep, GoesOut, Starts, Over, Expires

\* Only pushes are put on the queue.
LEMMA QueueStep ==
    ASSUME TypeOK, InboundInv, OnlyPushesAreQueued, [Next]_vars
    PROVE  OnlyPushesAreQueued'
<1>0. queue \in [Conns -> SUBSET Bodies]
  BY DEF TypeOK, ClientTypeOK
<1>1. ASSUME NEW c \in Conns, NEW p, ReceiveUnsolicited(c, p) PROVE OnlyPushesAreQueued'
  <2>1. p \in InFlight(toClient[c]) /\ p.seq = 0
    BY <1>1, ArrivesRemoves DEF ReceiveUnsolicited, TypeOK
  <2>2. p.type = "Message" => p.body = Push
    BY <2>1 DEF InboundInv
  <2>. QED BY <1>0, <1>1, <2>2 DEF ReceiveUnsolicited, OnlyPushesAreQueued
<1>2. CASE UNCHANGED queue
  BY <1>2 DEF OnlyPushesAreQueued
<1>3. ASSUME NEW c \in Conns, ConnNext(c) PROVE UNCHANGED queue \/ \E p : ReceiveUnsolicited(c, p)
  BY <1>3 DEF ConnNext, Handshake, Receive, Connect, SocketOpens, StepOne, SocketFails, HandshakeTimesOut,
       HandshakeCrashes, StepTwo, StepTwoUnder, StepTwoRefused, StepFour, StepFourAccepting,
       StepFourRefused, HandshakeRaises, OwnerCloses, FinishClose, ReceiveHandshake,
       ReceiveSolicited, ReaderDiesOf, ConnectionReset, ReaderDies, ReaderEOF
<1>4. ASSUME NEW c \in Conns, PanelNext(c) PROVE UNCHANGED queue
  BY <1>4 DEF PanelNext, PanelHandles, NewSession, RefusesSession, SecureSession, SessionEnd,
         ExecutesRequest, RejectsGarbled, NoSessionForRequest, TerminatesSession,
         PushEvent, PanelDrops, WritesGarbage, clientVars
<1>5. ASSUME NEW r \in Calls, CallNext(r) PROVE UNCHANGED queue
  BY <1>5 DEF CallNext, Request, RequestOffline, Returns, TimerFires, RetryAfterTimeout,
              RequestTimesOut, CallerCancels
<1>. QED BY <1>1, <1>2, <1>3, <1>4, <1>5 DEF Next, vars, clientVars

-----------------------------------------------------------------------------
(* The table of pending requests.                                          *)

Registry == PendingInv /\ WaitersAreRegistered

\* Futures settled without a change of table, or with all of it cleared.
LEMMA FailPendingRegistry ==
    ASSUME TypeOK, Registry, NEW c \in Conns, FailPending(c)
    PROVE  Registry'
<1> USE DEF Registry
<1>0. /\ pending' = [pending EXCEPT ![c] = [s \in Seqs |-> NoCall]]
      /\ pending \in [Conns -> [Seqs -> Calls \cup {NoCall}]]
      /\ \A r \in Calls : call[r].seq \in Seqs
  BY DEF FailPending, TypeOK, ClientTypeOK, CallRecord
<1>1. PendingInv'
  <2>. SUFFICES ASSUME NEW d \in Conns, NEW s \in Seqs, pending'[d][s] # NoCall
                PROVE  /\ Owner[pending'[d][s]] = d
                       /\ call'[pending'[d][s]].seq = s
                       /\ call'[pending'[d][s]].pc # "idle"
    BY DEF PendingInv
  <2>1. pending'[d][s] = pending[d][s] /\ pending[d][s] \in Calls
    BY <1>0
  <2>. QED BY <2>1, FailPendingKeeps DEF PendingInv
<1>2. WaitersAreRegistered'
  <2>. SUFFICES ASSUME NEW r \in Calls, call'[r].pc = "waiting", call'[r].fut = "pending"
                PROVE  pending'[Owner[r]][call'[r].seq] = r
    BY DEF WaitersAreRegistered
  <2>1. /\ call[r].pc = "waiting" /\ call[r].fut = "pending" /\ call'[r].seq = call[r].seq
        /\ ~Orphaned(c, r)
    BY FailPendingKeeps
  <2>2. pending[Owner[r]][call[r].seq] = r
    BY <2>1 DEF WaitersAreRegistered
  <2>3. Owner[r] # c
    BY <1>0, <2>1, <2>2 DEF Orphaned
  <2>. QED BY <1>0, <2>1, <2>2, <2>3, LinkAssumption
<1>. QED BY <1>1, <1>2

\* _dispatch pops the entry of the future it settles.
LEMMA DispatchRegistry ==
    ASSUME TypeOK, Registry, NEW c \in Conns, NEW p \in Packet, DispatchSolicited(c, p)
    PROVE  Registry'
<1> USE DEF Registry
<1>0. /\ pending' = [pending EXCEPT ![c] = [@ EXCEPT ![p.seq] = NoCall]]
      /\ pending \in [Conns -> [Seqs -> Calls \cup {NoCall}]]
      /\ p.seq \in Seqs
      /\ \A r \in Calls : call[r].seq \in Seqs
  BY DEF DispatchSolicited, DispatchBySeq, TypeOK, ClientTypeOK, CallRecord, Packet
<1>1. PendingInv'
  <2>. SUFFICES ASSUME NEW d \in Conns, NEW s \in Seqs, pending'[d][s] # NoCall
                PROVE  /\ Owner[pending'[d][s]] = d
                       /\ call'[pending'[d][s]].seq = s
                       /\ call'[pending'[d][s]].pc # "idle"
    BY DEF PendingInv
  <2>1. pending'[d][s] = pending[d][s] /\ pending[d][s] \in Calls
    BY <1>0
  <2>. QED BY <2>1, DispatchKeeps DEF PendingInv
<1>2. WaitersAreRegistered'
  <2>. SUFFICES ASSUME NEW r \in Calls, call'[r].pc = "waiting", call'[r].fut = "pending"
                PROVE  pending'[Owner[r]][call'[r].seq] = r
    BY DEF WaitersAreRegistered
  <2>1. call[r].pc = "waiting" /\ call'[r].seq = call[r].seq
    BY DispatchKeeps
  <2>2. call[r].fut = "pending" /\ r # pending[c][p.seq]
    <3>1. CASE r = pending[c][p.seq] /\ call[r].fut = "pending"
      <4>1. call' = [call EXCEPT ![r] = [@ EXCEPT !.fut = IF p.type = "Terminated" THEN "error" ELSE "reply",
                                                  !.sid = p.sid, !.body = p.body]]
        BY <3>1, CallsAreNoWords DEF DispatchSolicited, DispatchBySeq, Settle
      <4>2. call'[r].fut # "pending"
        BY <4>1 DEF TypeOK, ClientTypeOK, CallRecord
      <4>. QED BY <4>2
    <3>2. CASE ~(r = pending[c][p.seq] /\ call[r].fut = "pending")
      BY <3>2, DispatchKeeps
    <3>. QED BY <3>1, <3>2
  <2>3. pending[Owner[r]][call[r].seq] = r
    BY <2>1, <2>2 DEF WaitersAreRegistered
  <2>4. ~(Owner[r] = c /\ call[r].seq = p.seq)
    BY <2>2, <2>3
  <2>. QED BY <1>0, <2>1, <2>3, <2>4, LinkAssumption
<1>. QED BY <1>1, <1>2

\* A request is registered under a fresh number, its previous attempt popped.
LEMMA SendEncryptedRegistry ==
    ASSUME TypeOK, NumbersInv, Registry, NEW r \in Calls, NEW tries, NEW table,
           SendEncrypted(r, tries, table),
           \/ call[r].pc = "idle" /\ table = pending[Owner[r]]
           \/ call[r].pc = "expired" /\ table = Popped(r)
    PROVE  Registry'
<1> DEFINE c == Owner[r]
           pc == IF clientEnd[c] THEN "waiting" ELSE "error"
           n == nextSeq[c]
<1>1. /\ c \in Conns /\ n \in Seqs /\ Fresh(c, n)
      /\ call \in [Calls -> CallRecord] /\ pending \in [Conns -> [Seqs -> Calls \cup {NoCall}]]
      /\ \A q \in Calls : call[q].seq \in Seqs
      /\ call' = [call EXCEPT ![r] = [@ EXCEPT !.pc = pc, !.fut = "pending", !.seq = n, !.tries = tries]]
      /\ pending' = [pending EXCEPT ![c] = [table EXCEPT ![n] = r]]
  BY LinkAssumption DEF TypeOK, ClientTypeOK, SendEncrypted, ClaimSeq, CallRecord
<1>2. pc # "idle"
  OBVIOUS
<1>3. /\ table \in [Seqs -> Calls \cup {NoCall}]
      /\ \A s \in Seqs : /\ table[s] # NoCall => table[s] = pending[c][s]
                         /\ call[r].pc = "expired" => table[call[r].seq] = NoCall
                         /\ table[s] # pending[c][s] => call[r].pc = "expired" /\ s = call[r].seq
  <2>1. CASE table = pending[c] /\ call[r].pc = "idle"
    BY <1>1, <2>1
  <2>2. CASE table = [pending[c] EXCEPT ![call[r].seq] = NoCall] /\ call[r].pc = "expired"
    BY <1>1, <2>2
  <2>. QED BY <2>1, <2>2 DEF Popped
<1> HIDE DEF pc, n
<1>4. \A q \in Calls \ {r} : call'[q] = call[q]
  BY <1>1
<1>5. call'[r].pc = pc /\ call'[r].seq = n
  BY <1>1 DEF CallRecord
<1>6. /\ pending'[c][n] = r
      /\ \A s \in Seqs \ {n} : pending'[c][s] = table[s]
      /\ \A d \in Conns \ {c} : pending'[d] = pending[d]
  BY <1>1, <1>3
<1>7. PendingInv'
  <2>. SUFFICES ASSUME NEW d \in Conns, NEW s \in Seqs, pending'[d][s] # NoCall
                PROVE  /\ Owner[pending'[d][s]] = d
                       /\ call'[pending'[d][s]].seq = s
                       /\ call'[pending'[d][s]].pc # "idle"
    BY DEF PendingInv
  <2>1. CASE d = c /\ s = n
    BY <1>2, <1>5, <1>6, <2>1
  <2>2. CASE ~(d = c /\ s = n)
    <3>1. pending'[d][s] = pending[d][s] /\ pending[d][s] \in Calls
      BY <1>1, <1>3, <1>6, <2>2
    <3>2. Owner[pending[d][s]] = d /\ call[pending[d][s]].seq = s /\ call[pending[d][s]].pc # "idle"
      BY <3>1 DEF PendingInv, Registry
    <3>3. pending[d][s] # r
      <4>1. SUFFICES ASSUME pending[d][s] = r PROVE FALSE
        OBVIOUS
      <4>2. d = c /\ s = call[r].seq /\ call[r].pc = "expired" /\ s # n
        BY <2>2, <3>2, <4>1
      <4>. QED BY <1>3, <1>6, <3>1, <4>2
    <3>. QED BY <1>4, <3>1, <3>2, <3>3
  <2>. QED BY <2>1, <2>2
<1>8. WaitersAreRegistered'
  <2>. SUFFICES ASSUME NEW q \in Calls, call'[q].pc = "waiting", call'[q].fut = "pending"
                PROVE  pending'[Owner[q]][call'[q].seq] = q
    BY DEF WaitersAreRegistered
  <2>1. CASE q = r
    BY <1>5, <1>6, <2>1
  <2>2. CASE q # r
    <3>1. call'[q] = call[q] /\ pending[Owner[q]][call[q].seq] = q /\ Owner[q] \in Conns
      BY <1>4, <2>2, LinkAssumption DEF WaitersAreRegistered, Registry
    <3>2. CASE Owner[q] = c
      <4>1. call[q].seq # n /\ call[q].seq \in Seqs
        BY <1>1, <3>1, <3>2 DEF Fresh, InFlightStates
      <4>2. ~(call[r].pc = "expired" /\ call[q].seq = call[r].seq)
        BY <2>2, <3>1, <3>2 DEF NumbersInv, InFlightStates
      <4>. QED BY <1>3, <1>6, <3>1, <3>2, <4>1, <4>2
    <3>. QED BY <1>6, <3>1, <3>2
  <2>. QED BY <2>1, <2>2
<1>. QED BY <1>7, <1>8 DEF Registry

\* One call moves on, out of "waiting" or out of "pending", and at most its
\* own entry goes.
LEMMA CallEndsRegistry ==
    ASSUME TypeOK, NumbersInv, Registry, NEW r \in Calls,
           \A q \in Calls \ {r} : call'[q] = call[q],
           call'[r].seq = call[r].seq, call'[r].pc # "idle", call'[r].pc # "waiting",
           \/ UNCHANGED pending
           \/ call[r].pc \in InFlightStates /\ pending' = [pending EXCEPT ![Owner[r]] = Popped(r)]
    PROVE  Registry'
<1> DEFINE c == Owner[r]
<1>1. /\ c \in Conns
      /\ pending \in [Conns -> [Seqs -> Calls \cup {NoCall}]]
      /\ \A q \in Calls : call[q].seq \in Seqs
  BY LinkAssumption DEF TypeOK, ClientTypeOK, CallRecord
<1>2. \A d \in Conns, s \in Seqs :
        /\ pending'[d][s] \in {pending[d][s], NoCall}
        /\ pending'[d][s] # pending[d][s]
             => d = c /\ s = call[r].seq /\ call[r].pc \in InFlightStates
  <2>1. CASE pending' = [pending EXCEPT ![c] = [pending[c] EXCEPT ![call[r].seq] = NoCall]]
             /\ call[r].pc \in InFlightStates
    BY <1>1, <2>1
  <2>. QED BY <2>1 DEF Popped
<1>3. PendingInv'
  <2>. SUFFICES ASSUME NEW d \in Conns, NEW s \in Seqs, pending'[d][s] # NoCall
                PROVE  /\ Owner[pending'[d][s]] = d
                       /\ call'[pending'[d][s]].seq = s
                       /\ call'[pending'[d][s]].pc # "idle"
    BY DEF PendingInv
  <2>1. pending'[d][s] = pending[d][s] /\ pending[d][s] \in Calls
    BY <1>1, <1>2
  <2>. QED BY <2>1 DEF PendingInv, Registry
<1>4. WaitersAreRegistered'
  <2>. SUFFICES ASSUME NEW q \in Calls, call'[q].pc = "waiting", call'[q].fut = "pending"
                PROVE  pending'[Owner[q]][call'[q].seq] = q
    BY DEF WaitersAreRegistered
  <2>1. q # r /\ call'[q] = call[q] /\ pending[Owner[q]][call[q].seq] = q /\ Owner[q] \in Conns
    BY LinkAssumption DEF WaitersAreRegistered, Registry
  <2>2. ~(Owner[q] = c /\ call[q].seq = call[r].seq /\ call[r].pc \in InFlightStates)
    BY <2>1 DEF NumbersInv, InFlightStates
  <2>. QED BY <1>1, <1>2, <2>1, <2>2
<1>. QED BY <1>3, <1>4 DEF Registry

\* close() clears the table only once the waiters are failed.
LEMMA CloseRegistry ==
    ASSUME TypeOK, Registry, NEW c \in Conns, Close(c)
    PROVE  Registry'
<1>1. CASE Tcp
  BY <1>1 DEF Close, Registry, PendingInv, WaitersAreRegistered
<1>2. CASE ~Tcp
  BY <1>2, FailPendingRegistry DEF Close, EndClose
<1>. QED BY <1>1, <1>2

\* Every step keeps table and waiters in agreement.
LEMMA RegistryStep == TypeOK /\ NumbersInv /\ Registry /\ [Next]_vars => Registry'
<1>. SUFFICES ASSUME TypeOK, NumbersInv, Registry, [Next]_vars PROVE Registry'
  OBVIOUS
<1>1. ASSUME UNCHANGED <<call, pending>> PROVE Registry'
  BY <1>1 DEF Registry, PendingInv, WaitersAreRegistered
<1>2. ASSUME NEW c \in Conns, ConnNext(c) PROVE Registry'
  <2>1. CASE HandshakeTimesOut(c) \/ HandshakeCrashes(c) \/ StepTwoRefused(c) \/ StepFourRefused(c)
    BY <2>1, CloseRegistry
       DEF HandshakeTimesOut, HandshakeCrashes, StepTwoRefused, StepFourRefused, HandshakeRaises
  <2>2. CASE OwnerCloses(c)
    BY <2>2, CloseRegistry DEF OwnerCloses
  <2>3. CASE FinishClose(c)
    BY <2>3, FailPendingRegistry DEF FinishClose, EndClose
  <2>4. CASE ReaderDies(c)
    BY <2>4, FailPendingRegistry DEF ReaderDies
  <2>5. ASSUME NEW p, ReceiveSolicited(c, p) PROVE Registry'
    <3>1. p \in Packet
      BY <2>5, ArrivesRemoves DEF ReceiveSolicited, TypeOK
    <3>. QED BY <2>5, <3>1, DispatchRegistry DEF ReceiveSolicited
  <2>6. CASE UNCHANGED <<call, pending>>
    BY <1>1, <2>6
  <2>. QED
    BY <1>2, <2>1, <2>2, <2>3, <2>4, <2>5, <2>6
       DEF ConnNext, Handshake, Receive, Connect, SocketOpens, StepOne, SocketFails, StepTwo, StepTwoUnder,
           StepFour, StepFourAccepting, ReceiveHandshake, ReceiveUnsolicited, ReaderDiesOf,
           ConnectionReset, ReaderEOF
<1>3. ASSUME NEW c \in Conns, PanelNext(c) PROVE Registry'
  <2>1. UNCHANGED clientVars
    BY <1>3 DEF PanelNext, PanelHandles, NewSession, RefusesSession, SecureSession, SessionEnd,
           ExecutesRequest, RejectsGarbled, NoSessionForRequest, TerminatesSession,
           PushEvent, PanelDrops, WritesGarbage
  <2>. QED BY <1>1, <2>1 DEF clientVars
<1>4. ASSUME NEW r \in Calls, CallNext(r) PROVE Registry'
  <2>0. call \in [Calls -> CallRecord] /\ call[r] \in CallRecord
    BY DEF TypeOK, ClientTypeOK
  <2>1. CASE Request(r) \/ RetryAfterTimeout(r)
    BY <2>1, SendEncryptedRegistry DEF Request, RetryAfterTimeout
  <2>2. CASE RequestOffline(r) \/ Returns(r) \/ TimerFires(r) \/ RequestTimesOut(r) \/ CallerCancels(r)
    <3>1. \A q \in Calls \ {r} : call'[q] = call[q]
      BY <2>0, <2>2 DEF RequestOffline, Returns, TimerFires, RequestTimesOut, CallerCancels
    <3>2. CASE RequestOffline(r)
      BY <2>0, <3>1, <3>2, CallEndsRegistry DEF RequestOffline, CallRecord
    <3>3. CASE Returns(r)
      BY <2>0, <3>1, <3>3, CallEndsRegistry DEF Returns, CallRecord
    <3>4. CASE TimerFires(r)
      BY <2>0, <3>1, <3>4, CallEndsRegistry DEF TimerFires, CallRecord
    <3>5. CASE RequestTimesOut(r)
      BY <2>0, <3>1, <3>5, CallEndsRegistry DEF RequestTimesOut, CallRecord, InFlightStates
    <3>6. CASE CallerCancels(r)
      BY <2>0, <3>1, <3>6, CallEndsRegistry DEF CallerCancels, CallRecord
    <3>. QED BY <2>2, <3>2, <3>3, <3>4, <3>5, <3>6
  <2>. QED BY <1>4, <2>1, <2>2 DEF CallNext
<1>5. CASE UNCHANGED vars
  BY <1>1, <1>5 DEF vars, clientVars
<1>. QED BY <1>2, <1>3, <1>4, <1>5 DEF Next

-----------------------------------------------------------------------------
(* Nobody waits on a closed connection.                                    *)

\* A waiter after FailPending was a waiter before, of another connection.
LEMMA FailPendingLeavesNoWaiter ==
    ASSUME TypeOK, WaitersAreRegistered, NEW c \in Conns, FailPending(c),
           NEW r \in Calls, call'[r].pc = "waiting", call'[r].fut = "pending"
    PROVE  Owner[r] # c /\ call[r].pc = "waiting" /\ call[r].fut = "pending"
<1>1. call[r].pc = "waiting" /\ call[r].fut = "pending" /\ ~Orphaned(c, r)
  BY FailPendingKeeps
<1>2. pending[Owner[r]][call[r].seq] = r /\ call[r].seq \in Seqs
  BY <1>1 DEF WaitersAreRegistered, TypeOK, ClientTypeOK, CallRecord
<1>. QED BY <1>1, <1>2 DEF Orphaned

\* No step leaves a waiter on a connection that is closed.
LEMMA WaiterStep ==
    ASSUME TypeOK, LifecycleInv, WaitersAreRegistered, CloseLeavesNoWaiter, CallStep, [Next]_vars
    PROVE  CloseLeavesNoWaiter'
<1>. SUFFICES ASSUME NEW r \in Calls, NEW c, c = Owner[r], closed'[c], ~clientEnd'[c],
                     call'[r].pc = "waiting", call'[r].fut = "pending"
              PROVE  FALSE
  BY DEF CloseLeavesNoWaiter
<1>0. /\ c \in Conns
      /\ closed \in [Conns -> BOOLEAN] /\ clientEnd \in [Conns -> BOOLEAN]
      /\ state \in [Conns -> States]
  BY LinkAssumption DEF TypeOK, ClientTypeOK
\* Either nothing was closed, and the call cannot have gone out just now ...
<1>1. ASSUME closed'[c] => closed[c], clientEnd'[c] = clientEnd[c] PROVE FALSE
  <2>1. closed[c] /\ ~clientEnd[c]
    BY <1>0, <1>1
  <2>2. ~(call[r].pc = "waiting" /\ call[r].fut = "pending")
    BY <2>1 DEF CloseLeavesNoWaiter
  <2>. QED BY <2>1, <2>2 DEF CallStep, GoesOut, Over, GetsAnswer, Expires, Fails, Settled, SameAttempt
\* ... or every waiter was failed.
<1>2. ASSUME FailPending(c) PROVE FALSE
  BY <1>0, <1>2, FailPendingLeavesNoWaiter
<1>3. ASSUME NEW d \in Conns, Close(d), state[d] \in InHandshake \cup {"ONLINE"} PROVE FALSE
  <2>1. CASE Tcp /\ d = c
    <3>1. clientEnd[c] /\ UNCHANGED clientEnd
      BY <1>3, <2>1 DEF Close, LifecycleInv
    <3>. QED BY <3>1
  <2>2. CASE ~Tcp /\ d = c
    BY <1>2, <1>3, <2>2 DEF Close, EndClose
  <2>3. CASE d # c
    <3>1. closed'[c] = closed[c]
      BY <1>0, <1>3, <2>3 DEF Close, BeginClose
    <3>2. clientEnd'[c] = clientEnd[c]
      BY <1>0, <1>3, <2>3 DEF Close, EndClose
    <3>. QED BY <1>1, <3>1, <3>2
  <2>. QED BY <2>1, <2>2, <2>3
<1>4. ASSUME NEW d \in Conns, ConnNext(d) PROVE FALSE
  <2>1. CASE HandshakeTimesOut(d) \/ HandshakeCrashes(d) \/ StepTwoRefused(d) \/ StepFourRefused(d)
    BY <1>3, <2>1 DEF HandshakeTimesOut, HandshakeCrashes, StepTwoRefused, StepFourRefused,
                      HandshakeRaises, InHandshake
  <2>2. CASE OwnerCloses(d)
    BY <1>3, <2>2 DEF OwnerCloses, Close, BeginClose, LifecycleInv
  <2>3. CASE FinishClose(d)
    <3>1. CASE d = c
      BY <1>2, <2>3, <3>1 DEF FinishClose, EndClose
    <3>2. CASE d # c
      BY <1>0, <1>1, <2>3, <3>2 DEF FinishClose, EndClose
    <3>. QED BY <3>1, <3>2
  <2>4. CASE SocketOpens(d)
    BY <1>0, <1>1, <2>4 DEF SocketOpens, StepOne, LifecycleInv
  <2>5. CASE UNCHANGED <<closed, clientEnd>>
    BY <1>1, <2>5
  <2>. QED
    BY <1>4, <2>1, <2>2, <2>3, <2>4, <2>5
       DEF ConnNext, Handshake, Receive, Connect, SocketFails, StepTwo, StepTwoUnder, StepFour,
           StepFourAccepting, ReceiveHandshake, ReceiveUnsolicited, ReceiveSolicited, ReaderDiesOf,
           ReaderDies, ConnectionReset, ReaderEOF, sessionVars, wireVars
<1>5. ASSUME NEW d \in Conns, PanelNext(d) PROVE FALSE
  <2>1. UNCHANGED <<clientVars, clientEnd>>
    BY <1>5 DEF PanelNext, PanelHandles, NewSession, RefusesSession, SecureSession, SessionEnd,
           ExecutesRequest, RejectsGarbled, NoSessionForRequest, TerminatesSession,
           PushEvent, PanelDrops, WritesGarbage
  <2>. QED BY <1>1, <2>1 DEF clientVars
<1>6. ASSUME NEW q \in Calls, CallNext(q) PROVE FALSE
  BY <1>1, <1>6 DEF CallNext, Request, RequestOffline, Returns, TimerFires, RetryAfterTimeout,
                    RequestTimesOut, CallerCancels, sessionVars, wireVars
<1>. QED BY <1>1, <1>4, <1>5, <1>6 DEF Next, vars, clientVars, wireVars

-----------------------------------------------------------------------------
(* The inductive invariant, and what it says.                              *)

\* The inductive invariant holds initially.
LEMMA InitIInv == Init => IInv
<1>. SUFFICES ASSUME Init PROVE IInv
  OBVIOUS
<1> USE DEF Init, ClientInit, PanelInit, WireInit
<1>1. \A c \in Conns : InFlight(toPanel[c]) = {} /\ InFlight(toClient[c]) = {}
  BY EmptyIsEmpty
<1>2. TypeOK
  BY InitType
<1>3. LifecycleInv /\ OnlineMeansAccepted
  BY DEF LifecycleInv, OnlineMeansAccepted, InHandshake
<1>4. OutboundInv /\ AckInv /\ InboundInv
  BY <1>1 DEF OutboundInv, AckInv, InboundInv, NoPacket
<1>5. NumbersInv /\ ReplyInv /\ WaitersAreRegistered /\ AnswersMatchRequests /\ CloseLeavesNoWaiter
  BY DEF NumbersInv, ReplyInv, WaitersAreRegistered, AnswersMatchRequests, CloseLeavesNoWaiter, InFlightStates
<1>6. PendingInv /\ OnlyPushesAreQueued
  BY DEF PendingInv, OnlyPushesAreQueued
<1>. QED BY <1>2, <1>3, <1>4, <1>5, <1>6 DEF IInv

\* Every step keeps the inductive invariant.
LEMMA StepIInv == IInv /\ [Next]_vars => IInv'
<1>. SUFFICES ASSUME IInv, [Next]_vars PROVE IInv'
  OBVIOUS
<1> USE DEF IInv
<1>1. TypeOK' /\ LifecycleInv'
  BY StepType, LifecycleStep
<1>2. Forward /\ CallStep /\ OutStep /\ InStep
  BY StepForward, StepCalls, StepWire
<1>3. OutboundInv' /\ InboundInv'
  BY <1>2, OutboundStep, InboundStep
<1>4. AckInv' /\ OnlineMeansAccepted'
  BY <1>2, AckStep, OnlineStep
<1>5. NumbersInv'
  BY <1>2, NumbersStep
<1>6. PendingInv' /\ WaitersAreRegistered'
  BY RegistryStep DEF Registry
<1>7. ReplyInv' /\ AnswersMatchRequests'
  BY <1>2, ReplyStep, AnswersStep
<1>8. OnlyPushesAreQueued' /\ CloseLeavesNoWaiter'
  BY <1>2, QueueStep, WaiterStep
<1>. QED BY <1>1, <1>3, <1>4, <1>5, <1>6, <1>7, <1>8

\* The inductive invariant holds throughout.
THEOREM Invariance == Spec => []IInv
BY InitIInv, StepIInv, PTL DEF Spec

\* request() returns the panel's answer to that very request: any number of
\* concurrent requests and connections, any transport, any loss, duplication
\* or reordering within the packet lifetime.
THEOREM AnswersAreRight == Spec => []AnswersMatchRequests
<1>1. IInv => AnswersMatchRequests
  BY DEF IInv
<1>. QED BY <1>1, Invariance, PTL

\* A waiting request can always be found in _pending under its number.
THEOREM WaitersRegistered == Spec => []WaitersAreRegistered
<1>1. IInv => WaitersAreRegistered
  BY DEF IInv
<1>. QED BY <1>1, Invariance, PTL

\* Not looking at the payload of step 4 of the handshake is sound.
THEOREM OnlineIsAccepted == Spec => []OnlineMeansAccepted
<1>1. IInv => OnlineMeansAccepted
  BY DEF IInv
<1>. QED BY <1>1, Invariance, PTL

\* The queue of unsolicited events holds events only.
THEOREM QueueHoldsPushes == Spec => []OnlyPushesAreQueued
<1>1. IInv => OnlyPushesAreQueued
  BY DEF IInv
<1>. QED BY <1>1, Invariance, PTL

\* close() leaves no request waiting for a packet.
THEOREM NoWaiterAfterClose == Spec => []CloseLeavesNoWaiter
<1>1. IInv => CloseLeavesNoWaiter
  BY DEF IInv
<1>. QED BY <1>1, Invariance, PTL

\* After ClientSessionTerminated nothing more is written: a retry under way
\* finds the UDP socket gone, and over TCP there are no retries.
THEOREM SessionEndIsLast == Spec => NothingAfterSessionEnd
<1>1. IInv /\ [Next]_vars
        => \A c \in Conns : closed[c] => InFlight(toPanel'[c]) \subseteq InFlight(toPanel[c])
  <2>. SUFFICES ASSUME IInv, [Next]_vars, NEW c \in Conns, closed[c],
                       NEW q \in InFlight(toPanel'[c]), q \notin InFlight(toPanel[c])
                PROVE  FALSE
    OBVIOUS
  <2>1. Sent(c, q)
    BY StepWire DEF IInv, OutStep
  <2>2. /\ clientEnd[c] /\ q.body \in Calls /\ Owner[q.body] = c /\ Starts(q.body)
        /\ state[c] = "DISCONNECTED" /\ Tcp
    BY <2>1 DEF Sent, IInv, LifecycleInv
  <2>3. call[q.body].pc = "expired" /\ call[q.body].tries < 1
    BY <2>2 DEF Starts, MaxAttempts
  <2>4. call[q.body].tries \in Nat \ {0}
    BY <2>2, <2>3 DEF IInv, NumbersInv, InFlightStates, TypeOK, ClientTypeOK, CallRecord
  <2>. QED BY <2>3, <2>4
<1>. QED BY <1>1, Invariance, PTL DEF Spec, NothingAfterSessionEnd

-----------------------------------------------------------------------------
(* OmniLink implements RequestReply.                                       *)

Status == [r \in Calls |-> StatusOf(call[r].pc)]
Executed == {r \in Calls : executions[r] > 0}

\* Steps of the connection or the panel change no status.
LEMMA ConnStepStatus ==
    ASSUME TypeOK, NEW c \in Conns, ConnNext(c)
    PROVE  UNCHANGED panelVars /\ \A r \in Calls : call'[r].pc = call[r].pc
<1>1. CASE UNCHANGED <<call, panelVars>>
  BY <1>1
<1>2. ASSUME FailPending(c) \/ Close(c) PROVE \A r \in Calls : call'[r].pc = call[r].pc
  <2>1. CASE Tcp /\ Close(c)
    BY <2>1 DEF Close
  <2>2. CASE FailPending(c)
    BY <2>2, FailPendingKeeps
  <2>. QED BY <1>2, <2>1, <2>2 DEF Close, EndClose
<1>3. ASSUME NEW p, ReceiveSolicited(c, p) PROVE \A r \in Calls : call'[r].pc = call[r].pc
  <2>1. p \in Packet
    BY <1>3, ArrivesRemoves DEF ReceiveSolicited, TypeOK
  <2>. QED BY <1>3, <2>1, DispatchKeeps DEF ReceiveSolicited
<1>4. UNCHANGED panelVars
  BY DEF ConnNext, Handshake, Receive, Connect, SocketOpens, StepOne, SocketFails, HandshakeTimesOut,
       HandshakeCrashes, StepTwo, StepTwoUnder, StepTwoRefused, StepFour, StepFourAccepting,
       StepFourRefused, HandshakeRaises, OwnerCloses, FinishClose, ReceiveHandshake,
       ReceiveUnsolicited, ReceiveSolicited, ReaderDiesOf, ConnectionReset, ReaderDies, ReaderEOF
<1>. QED
  BY <1>1, <1>2, <1>3, <1>4
     DEF ConnNext, Handshake, Receive, Connect, SocketOpens, StepOne, SocketFails, HandshakeTimesOut,
         HandshakeCrashes, StepTwo, StepTwoUnder, StepTwoRefused, StepFour, StepFourAccepting,
         StepFourRefused, HandshakeRaises, OwnerCloses, FinishClose, EndClose, ReceiveHandshake,
         ReceiveUnsolicited, ReaderDiesOf, ConnectionReset, ReaderDies, ReaderEOF

\* A step of a request changes the status of that request alone.
LEMMA CallStepStatus ==
    ASSUME TypeOK, NEW r \in Calls, CallNext(r)
    PROVE  /\ UNCHANGED panelVars
           /\ \A q \in Calls \ {r} : call'[q] = call[q]
           /\ \/ call'[r].pc = call[r].pc
              \/ call[r].pc = "idle" /\ call'[r].pc \in {"waiting", "error"}
              \/ call[r].pc \in InFlightStates
                   /\ call'[r].pc \in {"waiting", "expired", "error", "timeout", "cancelled"}
              \/ call[r].pc = "waiting" /\ call'[r].pc = "answered" /\ call'[r].fut = "reply"
                   /\ call[r].fut = "reply" /\ call[r].sid = sessionId[Owner[r]]
<1>0. call \in [Calls -> CallRecord] /\ call[r] \in CallRecord
  BY DEF TypeOK, ClientTypeOK
<1>1. CASE Request(r) \/ RetryAfterTimeout(r)
  <2> DEFINE pc == IF clientEnd[Owner[r]] THEN "waiting" ELSE "error"
  <2>1. \E n, tries : call' = [call EXCEPT ![r] = [@ EXCEPT !.pc = pc, !.fut = "pending", !.seq = n, !.tries = tries]]
    BY <1>1 DEF Request, RetryAfterTimeout, SendEncrypted
  <2>2. pc \in {"waiting", "error"}
    OBVIOUS
  <2> HIDE DEF pc
  <2>3. call'[r].pc = pc /\ \A q \in Calls \ {r} : call'[q] = call[q]
    BY <1>0, <2>1 DEF CallRecord
  <2>. QED BY <1>1, <2>2, <2>3 DEF Request, RetryAfterTimeout, InFlightStates
<1>2. CASE RequestOffline(r) \/ RequestTimesOut(r)
  BY <1>0, <1>2 DEF RequestOffline, RequestTimesOut, InFlightStates, CallRecord
<1>3. CASE TimerFires(r) \/ CallerCancels(r)
  BY <1>0, <1>3 DEF TimerFires, CallerCancels, InFlightStates, CallRecord
<1>4. CASE Returns(r)
  <2> DEFINE pc == IF call[r].fut = "reply" /\ call[r].sid = sessionId[Owner[r]]
                   THEN "answered" ELSE "error"
  <2>1. call[r].pc = "waiting" /\ call' = [call EXCEPT ![r] = [@ EXCEPT !.pc = pc]] /\ UNCHANGED panelVars
    BY <1>4 DEF Returns
  <2>2. \/ pc = "error"
        \/ pc = "answered" /\ call[r].fut = "reply" /\ call[r].sid = sessionId[Owner[r]]
    OBVIOUS
  <2> HIDE DEF pc
  <2>3. call'[r].pc = pc /\ call'[r].fut = call[r].fut /\ \A q \in Calls \ {r} : call'[q] = call[q]
    BY <1>0, <2>1 DEF CallRecord
  <2>. QED BY <2>1, <2>2, <2>3 DEF InFlightStates
<1>. QED BY <1>1, <1>2, <1>3, <1>4 DEF CallNext

\* Every step is a step of RequestReply, or a stutter of it.
LEMMA StepImplements == IInv /\ [Next]_vars => [RR!RRNext]_<<Status, Executed>>
<1>. SUFFICES ASSUME IInv, [Next]_vars PROVE [RR!RRNext]_<<Status, Executed>>
  OBVIOUS
<1> USE DEF Status, Executed
<1>0. TypeOK /\ OutboundInv /\ ReplyInv /\ call \in [Calls -> CallRecord]
      /\ executions \in [Calls -> 0 .. 2]
  BY DEF IInv, TypeOK, ClientTypeOK, PanelTypeOK
<1>1. ASSUME \A r \in Calls : call'[r].pc = call[r].pc, UNCHANGED executions
      PROVE  UNCHANGED <<Status, Executed>>
  BY <1>1
<1>2. ASSUME NEW c \in Conns, ConnNext(c) PROVE UNCHANGED <<Status, Executed>>
  BY <1>0, <1>1, <1>2, ConnStepStatus DEF panelVars
<1>3. ASSUME NEW c \in Conns, PanelNext(c)
      PROVE  UNCHANGED <<Status, Executed>> \/ \E r \in Calls : RR!Execute(r)
  <2>1. UNCHANGED call
    BY <1>3 DEF PanelNext, PanelHandles, NewSession, RefusesSession, SecureSession, SessionEnd,
           ExecutesRequest, RejectsGarbled, NoSessionForRequest, TerminatesSession,
           PushEvent, PanelDrops, WritesGarbage, clientVars
  <2>2. ASSUME NEW p, ExecutesRequest(c, p) PROVE \E r \in Calls : RR!Execute(r)
    <3>1. /\ p.body \in Calls /\ call[p.body].pc # "idle"
          /\ executions' = [executions EXCEPT ![p.body] = AtMostTwo(@ + 1)]
      BY <1>0, <2>2, ServesRemoves DEF ExecutesRequest, OutboundInv, TypeOK
    <3>2. AtMostTwo(executions[p.body] + 1) > 0
      BY <1>0, <3>1 DEF AtMostTwo
    <3>3. Executed' = Executed \cup {p.body}
      BY <1>0, <3>1, <3>2
    <3>4. StatusOf(call[p.body].pc) # "idle"
      BY <1>0, <3>1 DEF StatusOf, InFlightStates
    <3>. QED BY <2>1, <3>1, <3>3, <3>4 DEF RR!Execute
  <2>3. CASE UNCHANGED executions
    BY <1>1, <2>1, <2>3
  <2>. QED
    BY <1>3, <2>2, <2>3
       DEF PanelNext, PanelHandles, NewSession, RefusesSession, SecureSession, SessionEnd,
           RejectsGarbled, NoSessionForRequest, TerminatesSession,
           PushEvent, PanelDrops, WritesGarbage, panelVars
<1>4. ASSUME NEW r \in Calls, CallNext(r) PROVE UNCHANGED <<Status, Executed>> \/ RR!RRNext
  <2>1. /\ UNCHANGED Executed
        /\ Status' = [Status EXCEPT ![r] = StatusOf(call'[r].pc)]
    BY <1>0, <1>4, CallStepStatus DEF panelVars
  <2>2. CASE call'[r].pc = call[r].pc
    BY <2>1, <2>2
  <2>3. CASE call[r].pc = "idle" /\ call'[r].pc \in {"waiting", "error"}
    BY <2>1, <2>3 DEF StatusOf, InFlightStates, RR!RRNext, RR!Invoke, RR!Refuse
  <2>4. CASE call[r].pc \in InFlightStates
               /\ call'[r].pc \in {"waiting", "expired", "error", "timeout", "cancelled"}
    <3>1. StatusOf(call[r].pc) = "waiting" /\ StatusOf(call'[r].pc) \in {"waiting", "failed"}
      BY <2>4 DEF StatusOf, InFlightStates
    <3>. QED BY <2>1, <3>1 DEF RR!RRNext, RR!Fail
  <2>5. CASE call[r].pc = "waiting" /\ call'[r].pc = "answered"
               /\ call[r].fut = "reply" /\ call[r].sid = sessionId[Owner[r]]
    <3>1. r \in Executed
      BY <1>0, <2>5 DEF ReplyInv
    <3>2. StatusOf(call[r].pc) = "waiting" /\ StatusOf(call'[r].pc) = "answered"
      BY <2>5 DEF StatusOf, InFlightStates
    <3>. QED BY <2>1, <3>1, <3>2 DEF RR!RRNext, RR!Answer
  <2>. QED BY <1>0, <1>4, <2>2, <2>3, <2>4, <2>5, CallStepStatus
<1>5. CASE UNCHANGED vars
  BY <1>1, <1>5 DEF vars, clientVars, panelVars
<1>. QED BY <1>2, <1>3, <1>4, <1>5 DEF Next, RR!RRNext

\* Whatever the transport does, request() promises what RequestReply says.
THEOREM Implements == Spec => ImplementsRequestReply
<1>1. Init => RR!RRInit
  <2>. SUFFICES ASSUME Init PROVE RR!RRInit
    OBVIOUS
  <2>1. \A r \in Calls : call[r].pc = "idle" /\ executions[r] = 0
    BY DEF Init, ClientInit, PanelInit
  <2>2. \A r \in Calls : StatusOf(call[r].pc) = "idle"
    BY <2>1 DEF StatusOf, InFlightStates
  <2>3. Status = [r \in Calls |-> "idle"] /\ Executed = {}
    BY <2>1, <2>2 DEF Status, Executed
  <2>. QED BY <2>3 DEF RR!RRInit, Status, Executed
<1>2. Spec => [][RR!RRNext]_<<Status, Executed>>
  BY Invariance, StepImplements, PTL DEF Spec
<1>. QED BY <1>1, <1>2, PTL DEF Spec, ImplementsRequestReply, RR!RRSpec, RR!rrVars, Status, Executed
=============================================================================
