------------------------------ MODULE OmniLink ------------------------------
(***************************************************************************)
(* OmniConnection objects and a panel over a TCP or UDP link: the whole of *)
(* a session, from connect() to the panel noticing that it is over.        *)
(***************************************************************************)
EXTENDS OmniConnection, PanelSession

vars == <<clientVars, panelVars, wireVars>>

TypeOK ==
    /\ ClientTypeOK
    /\ PanelTypeOK
    /\ toPanel \in [Conns -> Channel]
    /\ toClient \in [Conns -> Channel]
    /\ clientEnd \in [Conns -> BOOLEAN]
    /\ panelEnd \in [Conns -> BOOLEAN]

Init == ClientInit /\ PanelInit /\ WireInit

Next ==
    \/ \E c \in Conns : ConnNext(c) \/ PanelNext(c)
    \/ \E r \in Calls : CallNext(r)

Spec == Init /\ [][Next]_vars

(* asyncio runs every coroutine that is ready and fires every timer; a     *)
(* socket opens or fails within its timeout; the panel reads what it is    *)
(* sent over TCP.                                                          *)
Fairness ==
    /\ \A c \in Conns :
         /\ WF_vars(SocketOpens(c) \/ SocketFails(c))
         /\ WF_vars(Handshake(c))
         /\ WF_vars(FinishClose(c))
         /\ WF_vars(PanelHandles(c))
    /\ \A r \in Calls :
         /\ WF_vars(Returns(r) \/ TimerFires(r))
         /\ WF_vars(RetryAfterTimeout(r) \/ RequestTimesOut(r))

FairSpec == Spec /\ Fairness

-----------------------------------------------------------------------------
(* Safety.                                                                 *)

\* What request() returns is the panel's answer to that very request: not
\* that of a concurrent one, nor a late answer to an earlier use of the same
\* sequence number, nor the Nak for a request the panel could not read.
AnswersMatchRequests ==
    \A r \in Calls : call[r].pc = "answered" => call[r].body = r /\ executions[r] > 0

\* A request that can still be woken by a packet is registered under the
\* number it waits on, so that its answer, a close or a reader crash finds it.
WaitersAreRegistered ==
    \A r \in Calls :
        call[r].pc = "waiting" /\ call[r].fut = "pending"
            => pending[Owner[r]][call[r].seq] = r

\* The unchecked step 4 is sound: a connection is ONLINE only if the panel
\* acknowledged the SessionID it holds, under the same ControllerKey.
OnlineMeansAccepted ==
    \A c \in Conns :
        state[c] = "ONLINE" => c \notin WrongKey /\ <<c, sessionId[c]>> \in accepted

\* Sequence number 0 is never claimed, so that no answer to a request can
\* end up on the queue of unsolicited events.
OnlyPushesAreQueued == \A c \in Conns : queue[c] \subseteq {Push}

\* Once close() is over, no request is left waiting for a packet.
CloseLeavesNoWaiter ==
    \A r \in Calls :
        LET c == Owner[r] IN
        closed[c] /\ ~clientEnd[c] => ~(call[r].pc = "waiting" /\ call[r].fut = "pending")

\* After ClientSessionTerminated a connection writes nothing more, whatever
\* requests were being retried when it was closed.
NothingAfterSessionEnd ==
    [][\A c \in Conns : closed[c] =>
         InFlight(toPanel'[c]) \subseteq InFlight(toPanel[c])]_vars

\* Over TCP no request is executed twice.
TcpExecutesAtMostOnce == Tcp => \A r \in Calls : executions[r] < 2

\* InvalidEncryptionKeyError is raised only for a ControllerKey that is not
\* the panel's.
BadKeyIsBadKey == \A c \in Conns : outcome[c] = "badkey" => c \in WrongKey

-----------------------------------------------------------------------------
(* Liveness.                                                               *)

\* request() always returns, even when the reader is dead and _state still
\* says ONLINE.
EveryCallReturns ==
    \A r \in Calls : call[r].pc \in InFlightStates ~> call[r].pc \notin InFlightStates

\* connect() always returns or raises.
EveryConnectReturns ==
    \A c \in Conns : state[c] \in InHandshake \cup {"CONNECTING"} ~> outcome[c] # "none"

\* Over TCP, closing the connection releases the panel's end of it.
CloseReleasesPanel == \A c \in Conns : Tcp /\ closed[c] ~> ~panelEnd[c]

-----------------------------------------------------------------------------
(* Refinement: hide everything but what the callers see and what the panel *)
(* executed.                                                               *)

StatusOf(pc) ==
    CASE pc = "idle" -> "idle"
      [] pc \in InFlightStates -> "waiting"
      [] pc = "answered" -> "answered"
      [] OTHER -> "failed"

RR == INSTANCE RequestReply WITH
        status <- [r \in Calls |-> StatusOf(call[r].pc)],
        executed <- {r \in Calls : executions[r] > 0}

ImplementsRequestReply == RR!RRSpec
=============================================================================
