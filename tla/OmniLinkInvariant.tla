-------------------------- MODULE OmniLinkInvariant --------------------------
(***************************************************************************)
(* Why the safety properties of OmniLink hold: an inductive invariant.     *)
(* MCOmniLink checks it on small instances, OmniLinkProofs proves it for   *)
(* all of them.                                                            *)
(***************************************************************************)
EXTENDS OmniLink

\* connect() has not seen step 2 of the handshake yet.
NoSessionYet(c) ==
    \/ state[c] \in {"CONNECTING", "NEW_SESSION"}
    \/ state[c] = "DISCONNECTED" /\ ~closed[c]

\* How _state, _closed, the socket and the outcome of connect() go together.
LifecycleInv ==
    \A c \in Conns :
        /\ closed[c] => state[c] = "DISCONNECTED"
        /\ closed[c] /\ ~Tcp => ~clientEnd[c]
        /\ state[c] \in InHandshake \cup {"ONLINE"} => clientEnd[c]
        /\ outcome[c] = "online" /\ ~closed[c] => state[c] = "ONLINE"

\* What is on its way to the panel is under the key of the one SessionID the
\* connection ever adopts.
OutboundInv ==
    \A c \in Conns : \A p \in InFlight(toPanel[c]) :
        /\ p.type \in {"SecureSession", "Message"}
             => ~NoSessionYet(c) /\ p.sid = sessionId[c]
        /\ p.type = "Message"
             => /\ c \notin WrongKey
                /\ p.seq # 0
                /\ p.body \in Calls /\ Owner[p.body] = c
                /\ call[p.body].pc # "idle"

\* An acknowledgement of secure-session is for the session the client holds.
AckInv ==
    \A c \in Conns : \A p \in InFlight(toClient[c]) \cup {hsPkt[c]} :
        p.type = "AckSecure" =>
            /\ ~NoSessionYet(c)
            /\ c \notin WrongKey
            /\ p.sid = sessionId[c]
            /\ <<c, p.sid>> \in accepted

\* A message from the panel is a push, a Nak the client cannot read, or the
\* answer to a request that was executed.
InboundInv ==
    \A c \in Conns : \A p \in InFlight(toClient[c]) :
        p.type = "Message" =>
            \/ p.seq = 0 /\ p.body = Push
            \/ p.seq # 0 /\ p.body = Nak /\ p.sid # sessionId[c] /\ ~NoSessionYet(c)
            \/ p.seq # 0 /\ p.body \in Calls /\ executions[p.body] > 0

\* A request in flight was made ONLINE and has its sequence number to itself:
\* among the requests, and on the wire in both directions.
NumbersInv ==
    \A r \in Calls : call[r].pc \in InFlightStates =>
        LET c == Owner[r] IN
        /\ ~NoSessionYet(c) /\ state[c] # "SECURE" /\ c \notin WrongKey
        /\ call[r].seq # 0
        /\ call[r].tries > 0
        /\ \A q \in Calls \ {r} :
             call[q].pc \in InFlightStates /\ Owner[q] = c => call[q].seq # call[r].seq
        /\ \A p \in InFlight(toPanel[c]) :
             p.seq = call[r].seq => p.type = "Message" /\ p.body = r
        /\ \A p \in InFlight(toClient[c]) :
             p.seq = call[r].seq => \/ p.type = "Message" /\ p.body \in {r, Nak}
                                    \/ p.type = "Terminated"

\* _pending maps a number to a request of this connection that uses it.
PendingInv ==
    \A c \in Conns, s \in Seqs :
        pending[c][s] # NoCall =>
            /\ Owner[pending[c][s]] = c
            /\ call[pending[c][s]].seq = s
            /\ call[pending[c][s]].pc # "idle"

\* A packet kept for a request that awaits it, if it decrypts, is its answer.
ReplyInv ==
    \A r \in Calls :
        /\ call[r].pc = "waiting" /\ call[r].fut = "reply" /\ call[r].sid = sessionId[Owner[r]]
             => call[r].body = r /\ executions[r] > 0
        /\ call[r].pc = "answered" => call[r].fut = "reply"

IInv ==
    /\ TypeOK
    /\ LifecycleInv
    /\ OutboundInv
    /\ AckInv
    /\ InboundInv
    /\ NumbersInv
    /\ PendingInv
    /\ ReplyInv
    /\ WaitersAreRegistered
    /\ OnlineMeansAccepted
    /\ OnlyPushesAreQueued
    /\ AnswersMatchRequests
    /\ CloseLeavesNoWaiter

-----------------------------------------------------------------------------
(* What TCP adds: a packet arrives once and in order, and request() sends  *)
(* its own once.                                                           *)

\* A handshake opens one session, and no request is sent during it: a
\* termination that arrives then is about the key.
OneSession(c) ==
    /\ state[c] \in {"DISCONNECTED", "CONNECTING"}
         => /\ ~panelEnd[c] /\ session[c] = 0 /\ hsPkt[c] = NoPacket
            /\ toPanel[c] = <<>> /\ toClient[c] = <<>>
    /\ state[c] = "NEW_SESSION"
         => \/ toPanel[c] = <<>>
            \/ /\ Len(toPanel[c]) = 1 /\ toPanel[c][1].type = "NewSession"
               /\ session[c] = 0
               /\ \A p \in InFlight(toClient[c]) \cup {hsPkt[c]} : p.type # "AckNewSession"
    /\ state[c] = "NEW_SESSION"
         => \A p \in InFlight(toClient[c]) \cup {hsPkt[c]} :
                p.type = "AckNewSession" => session[c] \in {0, p.sid}
    /\ state[c] \in {"SECURE", "ONLINE"}
         => /\ session[c] \in {0, sessionId[c]}
            /\ \A p \in InFlight(toPanel[c]) : p.type # "NewSession"
    /\ state[c] \in InHandshake
         => \A p \in InFlight(toPanel[c]) : p.type # "Message"
    /\ state[c] \in InHandshake /\ c \notin WrongKey
         => \A p \in InFlight(toClient[c]) \cup {hsPkt[c]} : p.type # "Terminated"

OneSessionInv == Tcp => \A c \in Conns : ~closed[c] => OneSession(c)

Carries(p, r) == p.type = "Message" /\ p.body = r

NoneCarries(chan, r) == \A i \in DOMAIN chan : ~Carries(chan[i], r)
OneCarries(chan, r) ==
    \A i, j \in DOMAIN chan : Carries(chan[i], r) /\ Carries(chan[j], r) => i = j

\* A request is at most once on its way, and no longer once it was executed.
SentOnce(r) ==
    /\ executions[r] < 2
    /\ call[r].pc = "idle" => executions[r] = 0
    /\ executions[r] > 0 => NoneCarries(toPanel[Owner[r]], r)
    /\ OneCarries(toPanel[Owner[r]], r)

SentOnceInv == Tcp => \A r \in Calls : SentOnce(r)

TcpInv == OneSessionInv /\ SentOnceInv /\ (Tcp => BadKeyIsBadKey)
=============================================================================
