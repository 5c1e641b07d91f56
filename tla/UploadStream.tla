---------------------------- MODULE UploadStream ----------------------------
(***************************************************************************)
(* The v1 bulk downloads: iter_streaming of v1/connection.py sends a bare  *)
(* UploadNames or UploadPrograms, then an Ack for every record, each under *)
(* a sequence number of its own; the panel keeps one cursor for names and  *)
(* one for programs, and an Ack says nothing of which it means.            *)
(*                                                                         *)
(* The session is online.  Datagrams may be lost, and a copy of one may    *)
(* arrive later, after others.                                             *)
(***************************************************************************)
EXTENDS Naturals, Sequences

CONSTANTS
    NNames,       \* names the panel has
    NPrograms,    \* programs the panel has
    MaxStreams,   \* bound: streams that are opened, one after the other
    MaxLosses,    \* bound: datagrams lost
    MaxCopies     \* bound: datagrams duplicated

Kinds == {"names", "programs"}
Records(k) == IF k = "names" THEN NNames ELSE NPrograms
MaxRecords == IF NNames > NPrograms THEN NNames ELSE NPrograms

ASSUME UploadAssumption ==
    /\ NNames \in Nat /\ NPrograms \in Nat
    /\ MaxStreams \in Nat /\ MaxLosses \in Nat /\ MaxCopies \in Nat

VARIABLES
    pc,         \* the consumer's generator
    kind,       \* what it streams
    got,        \* the records it has yielded
    waitSeq,    \* the number of the request it waits on
    nextSeq,    \* the connection's next number
    toPanel, toClient,   \* the datagrams under way
    cursor,     \* the panel: the record each stream is at, 0 if there is none
    streams, losses, copies,   \* how many there were
    copied,     \* history: the kinds of datagrams that were duplicated
    unfinished  \* history: the last programs stream did not end

readerVars == <<pc, kind, got, waitSeq, nextSeq>>
historyVars == <<streams, unfinished>>
faultVars == <<losses, copies, copied>>
vars == <<readerVars, toPanel, toClient, cursor, historyVars, faultVars>>

Ask == [seq : Nat, op : Kinds \cup {"ack"}]
Reply == [seq : Nat, op : Kinds \cup {"eod", "nak"}, record : 0 .. MaxRecords]

TypeOK ==
    /\ pc \in {"idle", "waiting", "holding", "ended", "failed"}
    /\ kind \in Kinds
    /\ got \in Seq(1 .. MaxRecords)
    /\ waitSeq \in Nat /\ nextSeq \in Nat
    /\ toPanel \in Seq(Ask) /\ toClient \in Seq(Reply)
    /\ cursor \in [Kinds -> 0 .. MaxRecords]
    /\ streams \in 0 .. MaxStreams
    /\ losses \in 0 .. MaxLosses /\ copies \in 0 .. MaxCopies
    /\ copied \subseteq {"upload", "ack", "reply"}
    /\ unfinished \in BOOLEAN

Init ==
    /\ pc = "idle" /\ kind = "names" /\ got = <<>> /\ waitSeq = 0 /\ nextSeq = 1
    /\ toPanel = <<>> /\ toClient = <<>>
    /\ cursor = [k \in Kinds |-> 0]
    /\ streams = 0 /\ losses = 0 /\ copies = 0 /\ copied = {} /\ unfinished = FALSE

-----------------------------------------------------------------------------
(* The client: iter_streaming and its consumer.                            *)

Sends(op) ==
    /\ toPanel' = Append(toPanel, [seq |-> nextSeq, op |-> op])
    /\ waitSeq' = nextSeq /\ nextSeq' = nextSeq + 1
    /\ pc' = "waiting"

\* One stream at a time.
Opens(k) ==
    /\ pc \notin {"waiting", "holding"} /\ streams < MaxStreams
    /\ streams' = streams + 1
    /\ Sends(k)
    /\ kind' = k /\ got' = <<>>
    /\ unfinished' = (unfinished \/ k = "programs")
    /\ UNCHANGED <<toClient, cursor, faultVars>>

Acknowledges ==
    /\ pc = "holding"
    /\ Sends("ack")
    /\ UNCHANGED <<kind, got, toClient, cursor, historyVars, faultVars>>

\* The consumer stops: it is cancelled, or cannot read the record.
Abandons ==
    /\ pc = "holding" /\ pc' = "failed"
    /\ UNCHANGED <<kind, got, waitSeq, nextSeq, toPanel, toClient, cursor,
                   historyVars, faultVars>>

\* RequestTimeoutError; the number is taken out of _pending, nothing is sent
\* again.
TimesOutOnFirst ==
    /\ pc = "waiting" /\ got = <<>> /\ pc' = "failed"
    /\ UNCHANGED <<kind, got, waitSeq, nextSeq, toPanel, toClient, cursor,
                   historyVars, faultVars>>

TimesOut ==
    /\ pc = "waiting" /\ pc' = "failed"
    /\ UNCHANGED <<kind, got, waitSeq, nextSeq, toPanel, toClient, cursor,
                   historyVars, faultVars>>

AwaitedOrAny(p) == pc = "waiting"

\* Its number has a waiter.
Awaited(p) == pc = "waiting" /\ p.seq = waitSeq

\* EOD, and Nak too, ends the stream; a record of the other kind is a
\* protocol error of the iterator above it.
Answered(p) ==
    IF p.op \in {"eod", "nak"}
    THEN /\ pc' = "ended" /\ UNCHANGED got
         /\ unfinished' = (unfinished /\ kind # "programs")
    ELSE IF p.op = kind
    THEN pc' = "holding" /\ got' = Append(got, p.record) /\ UNCHANGED unfinished
    ELSE pc' = "failed" /\ UNCHANGED <<got, unfinished>>

ClientTakes ==
    /\ toClient # <<>>
    /\ toClient' = Tail(toClient)
    /\ IF Awaited(Head(toClient)) THEN Answered(Head(toClient))
       ELSE UNCHANGED <<pc, got, unfinished>>
    /\ UNCHANGED <<kind, waitSeq, nextSeq, toPanel, cursor, streams, faultVars>>

-----------------------------------------------------------------------------
(* The panel: _dispatch_v1.                                                *)

\* What it answers with its cursor at record i: the record, or EOD.
EndsLate(k, i) == i

EndsEarly(k, i) == IF i < Records(k) THEN i ELSE 0

At(k, i) == IF i <= Records(k) THEN i ELSE 0

Replies(seq, k, i) ==
    /\ cursor' = [cursor EXCEPT ![k] = At(k, i)]
    /\ toClient' = Append(toClient, [seq |-> seq, record |-> At(k, i),
                                     op |-> IF At(k, i) = 0 THEN "eod" ELSE k])

NamesFirst == IF cursor["names"] # 0 THEN "names" ELSE "programs"

\* The programs cursor goes first.
Advanced == IF cursor["programs"] # 0 THEN "programs" ELSE "names"

Refuses(seq) ==
    /\ toClient' = Append(toClient, [seq |-> seq, record |-> 0, op |-> "nak"])
    /\ UNCHANGED cursor

PanelTakes ==
    /\ toPanel # <<>>
    /\ toPanel' = Tail(toPanel)
    /\ LET p == Head(toPanel) IN
         IF p.op # "ack" THEN Replies(p.seq, p.op, 1)
         ELSE IF cursor[Advanced] # 0 THEN Replies(p.seq, Advanced, cursor[Advanced] + 1)
         ELSE Refuses(p.seq)
    /\ UNCHANGED <<readerVars, historyVars, faultVars>>

-----------------------------------------------------------------------------
(* The network.                                                            *)

Loses ==
    /\ losses < MaxLosses /\ losses' = losses + 1
    /\ \/ toPanel # <<>> /\ toPanel' = Tail(toPanel) /\ UNCHANGED toClient
       \/ toClient # <<>> /\ toClient' = Tail(toClient) /\ UNCHANGED toPanel
    /\ UNCHANGED <<readerVars, cursor, historyVars, copies, copied>>

Copies ==
    /\ copies < MaxCopies /\ copies' = copies + 1
    /\ \/ /\ toPanel # <<>> /\ toPanel' = Append(toPanel, Head(toPanel))
          /\ copied' = copied \cup {IF Head(toPanel).op = "ack" THEN "ack" ELSE "upload"}
          /\ UNCHANGED toClient
       \/ /\ toClient # <<>> /\ toClient' = Append(toClient, Head(toClient))
          /\ copied' = copied \cup {"reply"}
          /\ UNCHANGED toPanel
    /\ UNCHANGED <<readerVars, cursor, historyVars, losses>>

-----------------------------------------------------------------------------
Next ==
    \/ \E k \in Kinds : Opens(k)
    \/ Acknowledges \/ Abandons \/ TimesOut
    \/ ClientTakes \/ PanelTakes
    \/ Loses \/ Copies

Spec == Init /\ [][Next]_vars

(* A consumer goes on or stops, and a timer fires.                         *)
Fairness == WF_vars(Acknowledges \/ Abandons) /\ WF_vars(TimesOut)

FairSpec == Spec /\ Fairness

-----------------------------------------------------------------------------
(* Properties.                                                             *)

Complete(k) == got = [i \in 1 .. Records(k) |-> i]

\* A programs stream that ends normally has yielded every program once, in
\* order: losing datagrams, late replies, and streams abandoned before it
\* cannot make it end early or twice at the same record.  Only a request that
\* the network duplicates can.
ProgramsComplete ==
    pc = "ended" /\ kind = "programs" /\ copied \subseteq {"reply"} => Complete("programs")

\* The same of a names stream, unless the last programs stream was abandoned:
\* the panel then takes its Acks for that one.
NamesComplete ==
    pc = "ended" /\ kind = "names" /\ copied \subseteq {"reply"} /\ ~unfinished
        => Complete("names")

\* A duplicated Ack makes the panel skip a record, but what is yielded is in
\* the panel's order and never the same record twice.
NeverRepeats ==
    "upload" \notin copied => \A i \in 1 .. Len(got) : \A j \in 1 .. i - 1 : got[j] < got[i]

\* Every stream ends or fails, whatever is lost.
EveryStreamReturns == pc \in {"waiting", "holding"} ~> pc \in {"ended", "failed"}
=============================================================================
