--------------------------- MODULE OmniConnection ---------------------------
(***************************************************************************)
(* The client end of an Omni-Link II session: OmniConnection of            *)
(* connection.py.  Its coroutines (connect, any number of request() calls, *)
(* close, the TCP reader task or the UDP datagram callback) run on one     *)
(* asyncio loop, so a step here is what happens between two awaits.        *)
(***************************************************************************)
EXTENDS LinkState

-----------------------------------------------------------------------------
(* Sequence numbers.                                                       *)

SeqAfterThroughZero(s) == IF s + 1 > MaxSeq THEN 0 ELSE s + 1

SeqAfter(s) == IF s + 1 > MaxSeq THEN 1 ELSE s + 1

(* The counter comes round to s only when no request still awaits s and,   *)
(* over TCP, no packet numbered s is still under way; over UDP the         *)
(* datagrams of the previous round are forgotten.  The 65535 claims of a   *)
(* round take hours, a request times out in seconds; with a small MaxSeq   *)
(* it has to be said.                                                      *)
Fresh(c, s) ==
    /\ \A r \in Calls : Owner[r] = c /\ call[r].pc \in InFlightStates => call[r].seq # s
    /\ Tcp => \A p \in InFlight(toPanel[c]) \cup InFlight(toClient[c]) : p.seq # s

ClaimSeq(c) ==
    /\ Fresh(c, nextSeq[c])
    /\ nextSeq' = [nextSeq EXCEPT ![c] = SeqAfter(@)]
    /\ toClient' = [toClient EXCEPT ![c] = Forget(@, nextSeq[c])]

-----------------------------------------------------------------------------
(* close().  The await of drain() lets other coroutines run over TCP; over *)
(* UDP nothing in close() suspends.                                        *)

\* "Cancel anyone still waiting for a reply", and forget them.
Orphaned(c, r) ==
    \E s \in Seqs : pending[c][s] = r /\ call[r].seq = s /\ call[r].fut = "pending"

FailPendingForgetsOnly(c) ==
    /\ pending' = [pending EXCEPT ![c] = [s \in Seqs |-> NoCall]]
    /\ UNCHANGED call

FailPending(c) ==
    /\ call' = [r \in Calls |->
                  IF Orphaned(c, r) THEN [call[r] EXCEPT !.fut = "error"] ELSE call[r]]
    /\ pending' = [pending EXCEPT ![c] = [s \in Seqs |-> NoCall]]

\* The part of close() before its first await, for a connection not closed yet.
BeginClose(c) ==
    /\ ~closed[c]
    /\ closed' = [closed EXCEPT ![c] = TRUE]
    /\ state' = [state EXCEPT ![c] = "DISCONNECTED"]
    /\ IF state[c] \in InHandshake \cup {"ONLINE"}
       THEN /\ ClaimSeq(c)
            /\ ToPanel(c, Control("SessionEnd", nextSeq[c], 0))
       ELSE UNCHANGED <<nextSeq, toPanel, toClient>>

\* The part after it: fail the waiters, close the socket, cancel the reader.
EndCloseKeepsSocket(c) ==
    /\ FailPending(c)
    /\ UNCHANGED <<clientEnd, reader>>

EndClose(c) ==
    /\ FailPending(c)
    /\ clientEnd' = [clientEnd EXCEPT ![c] = FALSE]
    /\ reader' = [reader EXCEPT ![c] = IF @ = "running" THEN "ended" ELSE @]

Close(c) ==
    /\ BeginClose(c)
    /\ IF Tcp THEN UNCHANGED <<pending, call, clientEnd, reader>> ELSE EndClose(c)

\* async with: the owner closes a connection only once connect() has returned.
OwnerCloses(c) ==
    /\ outcome[c] = "online"
    /\ Close(c)
    /\ UNCHANGED <<sessionId, hsPkt, hsErr, queue, outcome, panelEnd, panelVars>>

FinishClose(c) ==
    /\ Tcp /\ closed[c] /\ clientEnd[c]
    /\ EndClose(c)
    /\ UNCHANGED <<state, closed, nextSeq, sessionId, hsPkt, hsErr, outcome,
                   queue, toPanel, toClient, panelEnd, panelVars>>

-----------------------------------------------------------------------------
(* connect() and _do_handshake().                                          *)

(* The code refuses only a state other than DISCONNECTED.  ~closed[c] is   *)
(* the async-with discipline: an object is connected once and closed once. *)
Connect(c) ==
    /\ state[c] = "DISCONNECTED" /\ ~closed[c]
    /\ state' = [state EXCEPT ![c] = "CONNECTING"]
    /\ outcome' = [outcome EXCEPT ![c] = "none"]
    /\ UNCHANGED <<closed, reader, nextSeq, sessionId, pending, hsPkt, hsErr,
                   queue, call, wireVars, panelVars>>

StepOne(c) ==
    /\ state' = [state EXCEPT ![c] = "NEW_SESSION"]
    /\ ClaimSeq(c)
    /\ ToPanel(c, Control("NewSession", nextSeq[c], 0))

\* The socket opens: the reader task starts and step 1 is written.
SocketOpens(c) ==
    /\ state[c] = "CONNECTING"
    /\ clientEnd' = [clientEnd EXCEPT ![c] = TRUE]
    /\ panelEnd' = [panelEnd EXCEPT ![c] = Tcp]
    /\ reader' = [reader EXCEPT ![c] = IF Tcp THEN "running" ELSE @]
    /\ StepOne(c)
    /\ UNCHANGED <<closed, sessionId, pending, hsPkt, hsErr, outcome, queue, call, panelVars>>

SocketFails(c) ==
    /\ state[c] = "CONNECTING"
    /\ state' = [state EXCEPT ![c] = "DISCONNECTED"]
    /\ outcome' = [outcome EXCEPT ![c] = "io"]
    /\ UNCHANGED <<closed, reader, nextSeq, sessionId, pending, hsPkt, hsErr,
                   queue, call, wireVars, panelVars>>

\* _do_handshake raises: connect() closes the connection and raises in turn.
HandshakeRaises(c, why) ==
    /\ Close(c)
    /\ outcome' = [outcome EXCEPT ![c] = why]
    /\ UNCHANGED <<sessionId, queue, panelEnd, panelVars>>

\* _await_handshake_packet: what it raises, or the packet it takes.
HandshakeTimesOutWhileListening(c) ==
    /\ state[c] \in InHandshake /\ reader[c] = "running"
    /\ HandshakeRaises(c, "timeout")
    /\ UNCHANGED <<hsPkt, hsErr>>

HandshakeTimesOut(c) ==
    /\ state[c] \in InHandshake
    /\ HandshakeRaises(c, "timeout")
    /\ UNCHANGED <<hsPkt, hsErr>>

HandshakeCrashes(c) ==
    /\ state[c] \in InHandshake /\ hsErr[c]
    /\ hsErr' = [hsErr EXCEPT ![c] = FALSE]
    /\ HandshakeRaises(c, "crash")
    /\ UNCHANGED hsPkt

TakesHandshakePacket(c) ==
    /\ ~hsErr[c] /\ hsPkt[c] # NoPacket
    /\ hsPkt' = [hsPkt EXCEPT ![c] = NoPacket]
    /\ UNCHANGED hsErr

StepTwoUnder(c, sid) ==
    /\ state[c] = "NEW_SESSION"
    /\ TakesHandshakePacket(c)
    /\ hsPkt[c].type = "AckNewSession"
    /\ sessionId' = [sessionId EXCEPT ![c] = hsPkt[c].sid]
    /\ state' = [state EXCEPT ![c] = "SECURE"]
    /\ ClaimSeq(c)
    /\ ToPanel(c, Control("SecureSession", nextSeq[c], sid))
    /\ UNCHANGED <<closed, reader, pending, outcome, queue, call, clientEnd, panelEnd, panelVars>>

StepTwoStaleKey(c) == StepTwoUnder(c, sessionId[c])

\* Step 2 arrives: adopt the SessionID, derive the key, write step 3 under it.
StepTwo(c) == StepTwoUnder(c, hsPkt[c].sid)

StepTwoRefused(c) ==
    /\ state[c] = "NEW_SESSION"
    /\ TakesHandshakePacket(c)
    /\ hsPkt[c].type # "AckNewSession"
    /\ HandshakeRaises(c, IF hsPkt[c].type = "CannotStart" THEN "busy" ELSE "unexpected")

StepFourAccepting(c, types) ==
    /\ state[c] = "SECURE"
    /\ TakesHandshakePacket(c)
    /\ hsPkt[c].type \in types
    /\ state' = [state EXCEPT ![c] = "ONLINE"]
    /\ outcome' = [outcome EXCEPT ![c] = "online"]
    /\ UNCHANGED <<closed, reader, nextSeq, sessionId, pending, queue, call, wireVars, panelVars>>

\* Step 4 arrives: the payload is not looked at, only the packet type.
StepFour(c) == StepFourAccepting(c, {"AckSecure"})

StepFourRefused(c) ==
    /\ state[c] = "SECURE"
    /\ TakesHandshakePacket(c)
    /\ hsPkt[c].type # "AckSecure"
    /\ HandshakeRaises(c, IF hsPkt[c].type = "Terminated" THEN "badkey" ELSE "unexpected")

-----------------------------------------------------------------------------
(* request().                                                              *)

\* _send_encrypted, over the table the request leaves: claim a number,
\* register the future under it, write the packet.  When the transport is
\* gone the write raises, with the future already registered.
SendEncrypted(r, tries, table) ==
    LET c == Owner[r] IN
    /\ ClaimSeq(c)
    /\ pending' = [pending EXCEPT ![c] = [table EXCEPT ![nextSeq[c]] = r]]
    /\ call' = [call EXCEPT ![r] =
                  [@ EXCEPT !.pc = IF clientEnd[c] THEN "waiting" ELSE "error",
                            !.fut = "pending", !.seq = nextSeq[c], !.tries = tries]]
    /\ IF clientEnd[c]
       THEN ToPanel(c, MessagePacket(nextSeq[c], sessionId[c], r))
       ELSE UNCHANGED toPanel

Request(r) ==
    /\ call[r].pc = "idle"
    /\ state[Owner[r]] = "ONLINE"
    /\ SendEncrypted(r, 1, pending[Owner[r]])
    /\ UNCHANGED <<sessionVars, reader, queue, clientEnd, panelEnd, panelVars>>

RequestOffline(r) ==
    /\ call[r].pc = "idle"
    /\ state[Owner[r]] # "ONLINE"
    /\ call' = [call EXCEPT ![r].pc = "error"]
    /\ UNCHANGED <<sessionVars, reader, nextSeq, pending, queue, wireVars, panelVars>>

MaxAttemptsEverywhere == 1 + Retries

MaxAttempts == IF Tcp THEN 1 ELSE 1 + Retries

\* The timer of wait_for fires: a future still pending is cancelled.
TimerFires(r) ==
    /\ call[r].pc = "waiting"
    /\ call' = [call EXCEPT ![r].pc = "expired",
                            ![r].fut = IF @ = "pending" THEN "cancelled" ELSE @]
    /\ UNCHANGED <<sessionVars, reader, nextSeq, pending, queue, wireVars, panelVars>>

\* The coroutine sees TimeoutError: forget the attempt; try again or give up.
\* _state is not looked at again.
Popped(r) == [pending[Owner[r]] EXCEPT ![call[r].seq] = NoCall]

RetryAfterTimeout(r) ==
    /\ call[r].pc = "expired"
    /\ call[r].tries < MaxAttempts
    /\ SendEncrypted(r, call[r].tries + 1, Popped(r))
    /\ UNCHANGED <<sessionVars, reader, queue, clientEnd, panelEnd, panelVars>>

RequestTimesOutLate(r) ==
    /\ call[r].pc = "expired"
    /\ call[r].tries > MaxAttempts
    /\ call' = [call EXCEPT ![r].pc = "timeout"]
    /\ UNCHANGED <<sessionVars, reader, nextSeq, pending, queue, wireVars, panelVars>>

RequestTimesOut(r) ==
    /\ call[r].pc = "expired"
    /\ call[r].tries >= MaxAttempts
    /\ pending' = [pending EXCEPT ![Owner[r]] = Popped(r)]
    /\ call' = [call EXCEPT ![r].pc = "timeout"]
    /\ UNCHANGED <<sessionVars, reader, nextSeq, queue, wireVars, panelVars>>

\* The future is done: return its packet's message if that decrypts to one
\* (_decode_inner, under the current session key), raise otherwise.
Returns(r) ==
    /\ call[r].pc = "waiting"
    /\ call[r].fut \in {"reply", "error"}
    /\ call' = [call EXCEPT ![r].pc =
                  IF call[r].fut = "reply" /\ call[r].sid = sessionId[Owner[r]]
                  THEN "answered" ELSE "error"]
    /\ UNCHANGED <<sessionVars, reader, nextSeq, pending, queue, wireVars, panelVars>>

\* The task awaiting request() is cancelled.  CancelledError is no
\* TimeoutError: the entry in _pending stays.
CallerCancels(r) ==
    /\ call[r].pc \in InFlightStates
    /\ call' = [call EXCEPT ![r].pc = "cancelled",
                            ![r].fut = IF @ = "pending" THEN "cancelled" ELSE @]
    /\ UNCHANGED <<sessionVars, reader, nextSeq, pending, queue, wireVars, panelVars>>

-----------------------------------------------------------------------------
(* Inbound packets: _dispatch, under the TCP reader task or the UDP        *)
(* datagram callback.                                                      *)

Listening(c) == clientEnd[c] /\ (Tcp => reader[c] = "running")

Arrives(c, p) ==
    /\ Listening(c)
    /\ p \in Arrivals(toClient[c])
    /\ toClient' = [toClient EXCEPT ![c] = AfterArrival(@)]

\* The TCP reader looks at _closed before it reads another frame.
ReaderGoesOn(c) ==
    reader' = [reader EXCEPT ![c] = IF closed[c] /\ Tcp THEN "ended" ELSE @]

ForHandshake(c, p) == state[c] \in InHandshake /\ p.type \in HandshakeTypes

\* The handshake's waiter is woken; a packet it has not taken yet is lost.
ReceiveHandshake(c, p) ==
    /\ Arrives(c, p)
    /\ ForHandshake(c, p)
    /\ hsPkt' = [hsPkt EXCEPT ![c] = p]
    /\ ReaderGoesOn(c)
    /\ UNCHANGED <<state, closed, nextSeq, sessionId, pending, hsErr, outcome,
                   queue, call, toPanel, clientEnd, panelEnd, panelVars>>

\* seq = 0: pushed by the panel.  What does not decrypt is dropped.
ReceiveUnsolicited(c, p) ==
    /\ Arrives(c, p)
    /\ ~ForHandshake(c, p) /\ p.seq = 0 /\ p.type # "Garbage"
    /\ queue' = [queue EXCEPT ![c] =
                   IF p.type = "Message" /\ p.sid = sessionId[c] THEN @ \cup {p.body} ELSE @]
    /\ ReaderGoesOn(c)
    /\ UNCHANGED <<sessionVars, nextSeq, pending, call, toPanel, clientEnd, panelEnd, panelVars>>

\* The future registered under the packet's number, if it is not done yet.
Settle(r, fut, p) ==
    call' = [call EXCEPT ![r] = IF @.fut = "pending"
                                THEN [@ EXCEPT !.fut = fut, !.sid = p.sid, !.body = p.body]
                                ELSE @]

DispatchBySeq(c, p) ==
    LET r == pending[c][p.seq] IN
    /\ pending' = [pending EXCEPT ![c][p.seq] = NoCall]
    /\ IF r = NoCall
       THEN UNCHANGED call
       ELSE Settle(r, IF p.type = "Terminated" THEN "error" ELSE "reply", p)

DispatchToAnyWaiter(c, p) ==
    /\ UNCHANGED pending
    /\ \E r \in Calls :
         /\ Owner[r] = c /\ call[r].fut = "pending"
         /\ Settle(r, IF p.type = "Terminated" THEN "error" ELSE "reply", p)

DispatchSolicited(c, p) == DispatchBySeq(c, p)

\* set_exception, unlike set_result, is not guarded by done(): on a future
\* that was cancelled but not yet popped it raises InvalidStateError.
RaisesInvalidState(c, p) ==
    /\ p.type = "Terminated"
    /\ pending[c][p.seq] # NoCall
    /\ call[pending[c][p.seq]].fut # "pending"

ReceiveSolicited(c, p) ==
    /\ Arrives(c, p)
    /\ ~ForHandshake(c, p) /\ p.seq # 0 /\ p.type # "Garbage"
    /\ Tcp => ~RaisesInvalidState(c, p)
    /\ DispatchSolicited(c, p)
    /\ ReaderGoesOn(c)
    /\ UNCHANGED <<sessionVars, nextSeq, queue, toPanel, clientEnd, panelEnd, panelVars>>

\* The reader task dies of an exception: a malformed frame, a reset of the
\* TCP connection, or the InvalidStateError above.  Handshake and requests
\* are failed; _state is not touched.
ReaderDies(c) ==
    /\ reader' = [reader EXCEPT ![c] = "ended"]
    /\ hsErr' = [hsErr EXCEPT ![c] = @ \/ state[c] \in InHandshake]
    /\ FailPending(c)
    /\ UNCHANGED <<state, closed, nextSeq, sessionId, hsPkt, outcome, queue,
                   toPanel, clientEnd, panelEnd, panelVars>>

ReaderDiesOf(c, p) ==
    /\ Tcp
    /\ Arrives(c, p)
    /\ \/ p.type = "Garbage"
       \/ ~ForHandshake(c, p) /\ p.seq # 0 /\ RaisesInvalidState(c, p)
    /\ ReaderDies(c)

ConnectionReset(c) ==
    /\ Tcp /\ Listening(c)
    /\ ~panelEnd[c]
    /\ ReaderDies(c)
    /\ UNCHANGED toClient

\* End of file: the loop just ends.  Nobody is told.
ReaderEOF(c) ==
    /\ Tcp /\ Listening(c)
    /\ ~panelEnd[c] /\ toClient[c] = EmptyChan
    /\ reader' = [reader EXCEPT ![c] = "ended"]
    /\ UNCHANGED <<sessionVars, nextSeq, pending, queue, call, wireVars, panelVars>>

-----------------------------------------------------------------------------
Receive(c) ==
    \E p \in Arrivals(toClient[c]) :
        \/ ReceiveHandshake(c, p)
        \/ ReceiveUnsolicited(c, p)
        \/ ReceiveSolicited(c, p)
        \/ ReaderDiesOf(c, p)

Handshake(c) ==
    \/ HandshakeTimesOut(c) \/ HandshakeCrashes(c)
    \/ StepTwo(c) \/ StepTwoRefused(c)
    \/ StepFour(c) \/ StepFourRefused(c)

ConnNext(c) ==
    \/ Connect(c) \/ SocketOpens(c) \/ SocketFails(c) \/ Handshake(c)
    \/ OwnerCloses(c) \/ FinishClose(c)
    \/ Receive(c) \/ ConnectionReset(c) \/ ReaderEOF(c)

CallNext(r) ==
    \/ Request(r) \/ RequestOffline(r) \/ Returns(r)
    \/ TimerFires(r) \/ RetryAfterTimeout(r) \/ RequestTimesOut(r)
    \/ CallerCancels(r)
=============================================================================
