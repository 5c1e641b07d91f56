------------------------------ MODULE LinkState ------------------------------
(***************************************************************************)
(* The state of an Omni-Link II session: OmniConnection objects (client    *)
(* state), the controller (panel state) and the link between them.         *)
(* OmniConnection.tla has the client's steps, PanelSession.tla the panel's,*)
(* OmniLink.tla puts them together.                                        *)
(*                                                                         *)
(* Over TCP a direction of a connection is a FIFO sequence of packets.     *)
(* Over UDP it is the set of datagrams still in the network: any of them   *)
(* may arrive, in any order and any number of times (delivery leaves the   *)
(* copy behind), or never.                                                 *)
(***************************************************************************)
EXTENDS Naturals, Sequences

CONSTANTS
    Conns,      \* OmniConnection objects; each owns one socket
    Calls,      \* request() invocations made on them
    Owner,      \* Owner[r]: the connection request r is made on
    Transport,  \* the transport= argument: "tcp" or "udp"
    Retries,    \* udp_retry_count
    MaxSeq,     \* _MAX_SEQ, 0xFFFF in the code
    WrongKey,   \* connections configured with another ControllerKey
    PushCalls,  \* requests whose execution pushes a SystemEvents message
    Faults,     \* what real controllers do and the mock does not
    MaxSid      \* bound on the sessions the panel hands out

ASSUME LinkAssumption ==
    /\ Owner \in [Calls -> Conns]
    /\ Transport \in {"tcp", "udp"}
    /\ Retries \in Nat
    /\ MaxSeq \in Nat \ {0}
    /\ WrongKey \subseteq Conns
    /\ PushCalls \subseteq Calls
    /\ Faults \subseteq {"busy", "terminate", "garbage", "drop"}
    /\ MaxSid \in Nat

VARIABLES
    toPanel,    \* per connection, packets under way to the panel
    toClient,   \* per connection, packets under way to the client
    clientEnd,  \* the client's socket is open (_writer / _udp_transport is set)
    panelEnd    \* TCP only: the panel's _handle_client task serves this socket

wireVars == <<toPanel, toClient, clientEnd, panelEnd>>

-----------------------------------------------------------------------------
(* Packets.  "sid" stands for the key material: the SessionID carried in   *)
(* clear by AckNewSession, the SessionID whose derived key encrypts the    *)
(* payload otherwise, 0 when the payload is empty.  "body" is the request  *)
(* (or its answer) inside a Message packet.                                *)

ClientTypes == {"NewSession", "SecureSession", "SessionEnd", "Message"}
HandshakeTypes == {"AckNewSession", "AckSecure", "Terminated", "CannotStart"}
PanelTypes == HandshakeTypes \cup {"Message", "Garbage"}

Nak == "nak"
Push == "push"
NoBody == "none"
Bodies == Calls \cup {Nak, Push, NoBody}

Seqs == 0 .. MaxSeq

Packet == [type : ClientTypes \cup PanelTypes, seq : Seqs, sid : Nat, body : Bodies]
NoPacket == [type |-> "none", seq |-> 0, sid |-> 0, body |-> NoBody]

Control(type, seq, sid) == [type |-> type, seq |-> seq, sid |-> sid, body |-> NoBody]
MessagePacket(seq, sid, body) ==
    [type |-> "Message", seq |-> seq, sid |-> sid, body |-> body]

-----------------------------------------------------------------------------
Tcp == Transport = "tcp"

Channel == IF Tcp THEN Seq(Packet) ELSE SUBSET Packet

EmptyChan == IF Tcp THEN <<>> ELSE {}

InFlight(chan) == IF Tcp THEN {chan[i] : i \in DOMAIN chan} ELSE chan

\* What may arrive next, and what is left in the channel once it has.
Arrivals(chan) == IF Tcp THEN IF chan = <<>> THEN {} ELSE {Head(chan)} ELSE chan
AfterArrival(chan) == IF Tcp THEN Tail(chan) ELSE chan

Put(chan, p) == IF Tcp THEN Append(chan, p) ELSE chan \cup {p}

\* Packet lifetime: when a sequence number is used again, the datagrams of
\* its previous use have left the network.  (Until then each of them may
\* arrive, again and again; one that is lost is one that never does.)
Forget(chan, s) == IF Tcp THEN chan ELSE {p \in chan : p.seq # s}

ToPanel(c, p) == toPanel' = [toPanel EXCEPT ![c] = Put(Forget(@, p.seq), p)]
ToClient(c, p) == toClient' = [toClient EXCEPT ![c] = Put(@, p)]

WireInit ==
    /\ toPanel = [c \in Conns |-> EmptyChan]
    /\ toClient = [c \in Conns |-> EmptyChan]
    /\ clientEnd = [c \in Conns |-> FALSE]
    /\ panelEnd = [c \in Conns |-> FALSE]

-----------------------------------------------------------------------------
(* The client's state.                                                     *)

VARIABLES
    state,      \* _state
    closed,     \* _closed
    reader,     \* the TCP reader task: "none", "running" or "ended"
    nextSeq,    \* _next_seq
    sessionId,  \* _session_id (and the key derived from it); 0 is None
    pending,    \* _pending: sequence number -> the request awaiting it
    hsPkt,      \* _handshake_packet
    hsErr,      \* _handshake_error is set
    outcome,    \* what connect() returned or raised
    queue,      \* _unsolicited_queue: the bodies ever put on it
    call        \* the request() coroutines and their futures

sessionVars == <<state, closed, sessionId, hsPkt, hsErr, outcome>>
clientVars == <<state, closed, reader, nextSeq, sessionId, pending, hsPkt,
                hsErr, outcome, queue, call>>

NoCall == "no call"

ASSUME CallsAreNoWords == Calls \cap {Nak, Push, NoBody, NoCall} = {}

States == {"DISCONNECTED", "CONNECTING", "NEW_SESSION", "SECURE", "ONLINE"}
InHandshake == {"NEW_SESSION", "SECURE"}
Outcomes == {"none", "online", "io", "busy", "badkey", "unexpected", "timeout", "crash"}

(* A request() coroutine.  It awaits its future ("waiting"); the timer of  *)
(* wait_for may cancel the future some time before the coroutine runs and  *)
(* sees the TimeoutError ("expired").                                      *)
CallStates == {"idle", "waiting", "expired", "answered", "error", "timeout", "cancelled"}
InFlightStates == {"waiting", "expired"}
Futures == {"none", "pending", "reply", "error", "cancelled"}
CallRecord == [pc : CallStates, fut : Futures, seq : Seqs, tries : Nat,
               sid : Nat, body : Bodies]

ClientTypeOK ==
    /\ state \in [Conns -> States]
    /\ closed \in [Conns -> BOOLEAN]
    /\ reader \in [Conns -> {"none", "running", "ended"}]
    /\ nextSeq \in [Conns -> Seqs \ {0}]
    /\ sessionId \in [Conns -> Nat]
    /\ pending \in [Conns -> [Seqs -> Calls \cup {NoCall}]]
    /\ hsPkt \in [Conns -> Packet \cup {NoPacket}]
    /\ hsErr \in [Conns -> BOOLEAN]
    /\ outcome \in [Conns -> Outcomes]
    /\ queue \in [Conns -> SUBSET Bodies]
    /\ call \in [Calls -> CallRecord]

ClientInit ==
    /\ state = [c \in Conns |-> "DISCONNECTED"]
    /\ closed = [c \in Conns |-> FALSE]
    /\ reader = [c \in Conns |-> "none"]
    /\ nextSeq = [c \in Conns |-> 1]
    /\ sessionId = [c \in Conns |-> 0]
    /\ pending = [c \in Conns |-> [s \in Seqs |-> NoCall]]
    /\ hsPkt = [c \in Conns |-> NoPacket]
    /\ hsErr = [c \in Conns |-> FALSE]
    /\ outcome = [c \in Conns |-> "none"]
    /\ queue = [c \in Conns |-> {}]
    /\ call = [r \in Calls |-> [pc |-> "idle", fut |-> "none", seq |-> 0,
                                tries |-> 0, sid |-> 0, body |-> NoBody]]

-----------------------------------------------------------------------------
(* The panel's state.                                                      *)

VARIABLES
    session,    \* per slot, session_id (and session_key); 0 is None
    nextSid,    \* the sessions handed out so far, plus one
    accepted,   \* the <<connection, sid>> whose secure-session was acknowledged
    executions, \* how often each request ran _dispatch_v2: 0, 1 or 2 (= more)
    pushes      \* push tasks under way: <<connection, session captured>>

panelVars == <<session, nextSid, accepted, executions, pushes>>

Slots == IF Tcp THEN Conns ELSE {"udp"}
Slot(c) == IF Tcp THEN c ELSE "udp"

PanelTypeOK ==
    /\ session \in [Slots -> Nat]
    /\ nextSid \in Nat \ {0}
    /\ accepted \in SUBSET (Conns \X Nat)
    /\ executions \in [Calls -> 0 .. 2]
    /\ pushes \in SUBSET (Conns \X Nat)

PanelInit ==
    /\ session = [k \in Slots |-> 0]
    /\ nextSid = 1
    /\ accepted = {}
    /\ executions = [r \in Calls |-> 0]
    /\ pushes = {}
=============================================================================
