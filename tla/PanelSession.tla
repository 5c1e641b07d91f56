---------------------------- MODULE PanelSession ----------------------------
(***************************************************************************)
(* The controller's end of an Omni-Link II session, as MockPanel           *)
(* (mock_panel.py) plays it: one task per TCP connection, each with a      *)
(* session of its own, or one datagram handler with a single session that  *)
(* the latest NewSession takes over.                                       *)
(***************************************************************************)
EXTENDS LinkState

-----------------------------------------------------------------------------
Serves(c, p) ==
    /\ Tcp => panelEnd[c]
    /\ p \in Arrivals(toPanel[c])
    /\ toPanel' = [toPanel EXCEPT ![c] = AfterArrival(@)]

Reply(c, p) == ToClient(c, p)

\* The finally clause of _handle_client: the task closes its writer.
TaskEndsWriterOpen(c) == UNCHANGED panelEnd
TaskEnds(c) == panelEnd' = [panelEnd EXCEPT ![c] = FALSE]

\* Leaving the loop of _handle_client.  Over UDP the datagram is ignored.
Breaks(c) ==
    /\ TaskEnds(c)
    /\ session' = [session EXCEPT ![Slot(c)] = IF Tcp THEN 0 ELSE @]

NewSession(c, p) ==
    /\ Serves(c, p)
    /\ p.type = "NewSession"
    /\ nextSid <= MaxSid
    /\ session' = [session EXCEPT ![Slot(c)] = nextSid]
    /\ nextSid' = nextSid + 1
    /\ Reply(c, Control("AckNewSession", p.seq, nextSid))
    /\ UNCHANGED <<accepted, executions, pushes, clientEnd, panelEnd, clientVars>>

\* A real controller whose session slot is taken.
RefusesSession(c, p) ==
    /\ "busy" \in Faults
    /\ Serves(c, p)
    /\ p.type = "NewSession"
    /\ Reply(c, Control("CannotStart", p.seq, 0))
    /\ UNCHANGED <<panelVars, clientEnd, panelEnd, clientVars>>

DecryptsAnyKey(c, p) == p.sid = session[Slot(c)]

\* Does the payload decrypt under the panel's session key?
Decrypts(c, p) == c \notin WrongKey /\ p.sid = session[Slot(c)]

SecureSession(c, p) ==
    /\ Serves(c, p)
    /\ p.type = "SecureSession"
    /\ IF session[Slot(c)] # 0 /\ Decrypts(c, p)
       THEN /\ Reply(c, Control("AckSecure", p.seq, p.sid))
            /\ accepted' = accepted \cup {<<c, p.sid>>}
            /\ UNCHANGED <<session, panelEnd>>
       ELSE /\ IF session[Slot(c)] = 0
               THEN UNCHANGED toClient
               ELSE Reply(c, Control("Terminated", p.seq, 0))
            /\ Breaks(c)
            /\ UNCHANGED accepted
    /\ UNCHANGED <<nextSid, executions, pushes, clientEnd, clientVars>>

\* Anybody's ClientSessionTerminated clears the one UDP session.
SessionEnd(c, p) ==
    /\ Serves(c, p)
    /\ p.type = "SessionEnd"
    /\ session' = [session EXCEPT ![Slot(c)] = 0]
    /\ TaskEnds(c)
    /\ UNCHANGED <<toClient, nextSid, accepted, executions, pushes, clientEnd, clientVars>>

AtMostTwo(n) == IF n < 2 THEN n ELSE 2

\* _dispatch_v2 executes the request, the reply is written under the number
\* of the request, and a push task may be left behind.
ExecutesRequest(c, p) ==
    /\ Serves(c, p)
    /\ p.type = "Message"
    /\ session[Slot(c)] # 0 /\ Decrypts(c, p)
    /\ executions' = [executions EXCEPT ![p.body] = AtMostTwo(@ + 1)]
    /\ pushes' = IF p.body \in PushCalls
                 THEN pushes \cup {<<c, session[Slot(c)]>>} ELSE pushes
    /\ Reply(c, MessagePacket(p.seq, session[Slot(c)], p.body))
    /\ UNCHANGED <<session, nextSid, accepted, clientEnd, panelEnd, clientVars>>

\* A request encrypted under another session's key.  (Over TCP a request is
\* under the session of its own socket, or there is none.)
RejectsGarbled(c, p) ==
    /\ ~Tcp
    /\ Serves(c, p)
    /\ p.type = "Message"
    /\ session[Slot(c)] # 0 /\ ~Decrypts(c, p)
    /\ Reply(c, MessagePacket(p.seq, session[Slot(c)], Nak))
    /\ UNCHANGED <<panelVars, clientEnd, panelEnd, clientVars>>

NoSessionForRequest(c, p) ==
    /\ Serves(c, p)
    /\ p.type = "Message"
    /\ session[Slot(c)] = 0
    /\ Breaks(c)
    /\ UNCHANGED <<toClient, nextSid, accepted, executions, pushes, clientEnd, clientVars>>

\* A real controller ends the session instead of answering.
TerminatesSession(c, p) ==
    /\ "terminate" \in Faults
    /\ Serves(c, p)
    /\ p.type = "Message"
    /\ session' = [session EXCEPT ![Slot(c)] = 0]
    /\ Reply(c, Control("Terminated", p.seq, 0))
    /\ UNCHANGED <<nextSid, accepted, executions, pushes, clientEnd, panelEnd, clientVars>>

-----------------------------------------------------------------------------
\* The push task wakes: seq 0, encrypted under the key it captured.
PushEvent(c, sid) ==
    /\ <<c, sid>> \in pushes
    /\ pushes' = pushes \ {<<c, sid>>}
    /\ IF Tcp => panelEnd[c]
       THEN ToClient(c, MessagePacket(0, sid, Push)) ELSE UNCHANGED toClient
    /\ UNCHANGED <<session, nextSid, accepted, executions, toPanel, clientEnd, panelEnd, clientVars>>

\* TCP: the panel goes away, or writes a frame that does not parse.
PanelDrops(c) ==
    /\ "drop" \in Faults
    /\ Tcp /\ panelEnd[c]
    /\ Breaks(c)
    /\ UNCHANGED <<toPanel, toClient, clientEnd, nextSid, accepted, executions, pushes, clientVars>>

WritesGarbage(c) ==
    /\ "garbage" \in Faults
    /\ Tcp /\ panelEnd[c]
    /\ \A p \in InFlight(toClient[c]) : p.type # "Garbage"
    /\ Reply(c, [NoPacket EXCEPT !.type = "Garbage"])
    /\ UNCHANGED <<panelVars, toPanel, clientEnd, panelEnd, clientVars>>

-----------------------------------------------------------------------------
PanelHandles(c) ==
    \E p \in Arrivals(toPanel[c]) :
        \/ NewSession(c, p) \/ RefusesSession(c, p) \/ SecureSession(c, p)
        \/ SessionEnd(c, p)
        \/ ExecutesRequest(c, p) \/ RejectsGarbled(c, p)
        \/ NoSessionForRequest(c, p) \/ TerminatesSession(c, p)

PanelNext(c) ==
    \/ PanelHandles(c)
    \/ \E sid \in 1 .. MaxSid : PushEvent(c, sid)
    \/ PanelDrops(c) \/ WritesGarbage(c)
=============================================================================
