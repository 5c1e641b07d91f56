------------------------- MODULE UploadStreamProofs -------------------------
(***************************************************************************)
(* Proofs about UploadStream: every part of IInv is preserved by every     *)
(* step, and the theorems that follow.                                     *)
(***************************************************************************)
EXTENDS UploadStreamInvariant, TLAPS

-----------------------------------------------------------------------------
(* Sequences.                                                              *)

\* A queue that takes one more element keeps the others where they are.
LEMMA AppendElement ==
    ASSUME NEW S, NEW s \in Seq(S), NEW e \in S
    PROVE  /\ Append(s, e) \in Seq(S) /\ Append(s, e) # <<>>
           /\ Len(Append(s, e)) = Len(s) + 1
           /\ \A i \in 1 .. Len(s) : Append(s, e)[i] = s[i]
           /\ Append(s, e)[Len(s) + 1] = e
  OBVIOUS

\* A queue that gives up its head moves the others one place forward.
LEMMA TailElement ==
    ASSUME NEW S, NEW s \in Seq(S), s # <<>>
    PROVE  /\ Tail(s) \in Seq(S) /\ Len(Tail(s)) = Len(s) - 1
           /\ Head(s) = s[1] /\ Head(s) \in S /\ 1 \in 1 .. Len(s)
           /\ \A i \in 1 .. Len(Tail(s)) : i + 1 \in 1 .. Len(s) /\ Tail(s)[i] = s[i + 1]
  OBVIOUS

\* An empty queue has no places, and a queue without places is empty.
LEMMA EmptyQueue ==
    ASSUME NEW S, NEW s \in Seq(S)
    PROVE  s = <<>> <=> Len(s) = 0
  OBVIOUS

-----------------------------------------------------------------------------
(* Types.                                                                  *)

\* Where the panel's cursor goes is a record it has, or 0.
LEMMA AtType ==
    ASSUME NEW k \in Kinds, NEW i \in Nat \ {0}
    PROVE  /\ Records(k) \in Nat /\ At(k, i) \in 0 .. MaxRecords
           /\ At(k, i) = 0 <=> Records(k) < i
           /\ At(k, i) # 0 => At(k, i) = i
  BY UploadAssumption DEF At, Records, MaxRecords, Kinds

\* Every action keeps the types.
LEMMA TypeOKPreserved ==
    ASSUME IInv, [Next]_vars
    PROVE  TypeOK'
  <1> USE DEF IInv
  <1>1. ASSUME NEW k \in Kinds, Opens(k) PROVE TypeOK'
    BY <1>1, AppendElement, UploadAssumption DEF TypeOK, Opens, Sends, Ask, faultVars, Kinds
  <1>2. CASE Acknowledges
    BY <1>2, AppendElement DEF TypeOK, Acknowledges, Sends, Ask, historyVars, faultVars
  <1>3. CASE Abandons
    BY <1>3 DEF TypeOK, Abandons, historyVars, faultVars
  <1>4. CASE TimesOut
    BY <1>4 DEF TypeOK, TimesOut, historyVars, faultVars
  <1>5. CASE ClientTakes
    <2>1. toClient' \in Seq(Reply)
      BY <1>5, TailElement DEF TypeOK, ClientTakes
    <2>2. /\ pc' \in {"idle", "waiting", "holding", "ended", "failed"}
          /\ got' \in Seq(1 .. MaxRecords) /\ unfinished' \in BOOLEAN
      <3>1. CASE ~Awaited(Head(toClient))
        BY <1>5, <3>1 DEF TypeOK, ClientTakes
      <3>2. CASE Awaited(Head(toClient)) /\ Head(toClient).op = kind
        <4>1. Head(toClient) = toClient[1] /\ Head(toClient) \in Reply /\ 1 \in Answers
          BY <1>5, TailElement DEF TypeOK, ClientTakes, Answers
        <4>2. Head(toClient).record \in 1 .. MaxRecords
          BY <3>2, <4>1 DEF TypeOK, RecordsCarried, Reply
        <4>3. Append(got, Head(toClient).record) \in Seq(1 .. MaxRecords)
          BY <4>2, AppendElement DEF TypeOK
        <4> QED
          BY <1>5, <3>2, <4>3 DEF TypeOK, ClientTakes, Answered, Kinds
      <3>3. CASE Awaited(Head(toClient)) /\ Head(toClient).op # kind
        BY <1>5, <3>3 DEF TypeOK, ClientTakes, Answered
      <3> QED
        BY <3>1, <3>2, <3>3
    <2> QED
      BY <1>5, <2>1, <2>2 DEF TypeOK, ClientTakes, faultVars
  <1>6. CASE PanelTakes
    <2>1. toPanel' \in Seq(Ask) /\ Head(toPanel) \in Ask
      BY <1>6, TailElement DEF TypeOK, PanelTakes
    <2>2. ASSUME NEW k \in Kinds, NEW i \in Nat \ {0}, Replies(Head(toPanel).seq, k, i)
          PROVE  toClient' \in Seq(Reply) /\ cursor' \in [Kinds -> 0 .. MaxRecords]
      <3>1. [seq |-> Head(toPanel).seq, record |-> At(k, i),
             op |-> IF At(k, i) = 0 THEN "eod" ELSE k] \in Reply
        BY <2>1, AtType DEF Reply, Ask
      <3> QED
        BY <2>2, <3>1, AtType, AppendElement DEF Replies, TypeOK
    <2>3. ASSUME Refuses(Head(toPanel).seq)
          PROVE  toClient' \in Seq(Reply) /\ cursor' \in [Kinds -> 0 .. MaxRecords]
      <3>1. [seq |-> Head(toPanel).seq, record |-> 0, op |-> "nak"] \in Reply
        BY <2>1, UploadAssumption DEF Reply, Ask, MaxRecords
      <3> QED
        BY <2>3, <3>1, AppendElement DEF Refuses, TypeOK
    <2>4. toClient' \in Seq(Reply) /\ cursor' \in [Kinds -> 0 .. MaxRecords]
      <3>1. CASE Head(toPanel).op # "ack"
        BY <1>6, <2>1, <2>2, <3>1 DEF PanelTakes, Ask
      <3>2. CASE Head(toPanel).op = "ack" /\ cursor[Advanced] # 0
        <4>1. Advanced \in Kinds /\ cursor[Advanced] + 1 \in Nat \ {0}
          BY UploadAssumption DEF TypeOK, Advanced, Kinds, MaxRecords
        <4> QED
          BY <1>6, <2>2, <3>2, <4>1 DEF PanelTakes
      <3>3. CASE Head(toPanel).op = "ack" /\ cursor[Advanced] = 0
        BY <1>6, <2>3, <3>3 DEF PanelTakes
      <3> QED
        BY <3>1, <3>2, <3>3
    <2> QED
      BY <1>6, <2>1, <2>4 DEF TypeOK, PanelTakes, readerVars, historyVars, faultVars
  <1>7. CASE Loses
    <2>1. toPanel # <<>> => Tail(toPanel) \in Seq(Ask)
      BY TailElement DEF TypeOK
    <2>2. toClient # <<>> => Tail(toClient) \in Seq(Reply)
      BY TailElement DEF TypeOK
    <2>3. toPanel' \in Seq(Ask) /\ toClient' \in Seq(Reply)
      BY <1>7, <2>1, <2>2 DEF TypeOK, Loses
    <2> QED
      BY <1>7, <2>3, UploadAssumption DEF TypeOK, Loses, readerVars, historyVars
  <1>8. CASE Copies
    <2>1. toPanel # <<>> => Append(toPanel, Head(toPanel)) \in Seq(Ask)
      BY TailElement, AppendElement DEF TypeOK
    <2>2. toClient # <<>> => Append(toClient, Head(toClient)) \in Seq(Reply)
      BY TailElement, AppendElement DEF TypeOK
    <2>3. toPanel' \in Seq(Ask) /\ toClient' \in Seq(Reply)
      BY <1>8, <2>1, <2>2 DEF TypeOK, Copies
    <2>4. copied' \subseteq {"upload", "ack", "reply"}
      BY <1>8 DEF TypeOK, Copies
    <2> QED
      BY <1>8, <2>3, <2>4, UploadAssumption DEF TypeOK, Copies, readerVars, historyVars
  <1>9. CASE UNCHANGED vars
    BY <1>9 DEF TypeOK, vars, readerVars, historyVars, faultVars
  <1> QED
    BY <1>1, <1>2, <1>3, <1>4, <1>5, <1>6, <1>7, <1>8, <1>9 DEF Next

-----------------------------------------------------------------------------
(* What a step does to the datagrams under way.                            *)

\* A datagram under way is one the sender can make.
LEMMA DatagramTypes ==
    ASSUME TypeOK
    PROVE  /\ \A i \in Asks : toPanel[i] \in Ask /\ toPanel[i].seq \in Nat
           /\ \A i \in Answers : toClient[i] \in Reply /\ toClient[i].seq \in Nat
  <1>1. \A i \in Asks : toPanel[i] \in Ask
    BY DEF TypeOK, Asks
  <1>2. \A i \in Answers : toClient[i] \in Reply
    BY DEF TypeOK, Answers
  <1> QED
    BY <1>1, <1>2 DEF Ask, Reply

\* A request goes to the end of the queue, with a number that no datagram has.
LEMMA SendsFacts ==
    ASSUME TypeOK, Numbered, NEW op \in Kinds \cup {"ack"}, Sends(op)
    PROVE  /\ toPanel' # <<>> /\ Len(toPanel') = Len(toPanel) + 1
           /\ \A i \in Asks' :
                \/ /\ i \in Asks /\ i <= Len(toPanel) /\ toPanel'[i] = toPanel[i]
                   /\ toPanel'[i].seq <= waitSeq' /\ toPanel'[i].seq # waitSeq'
                \/ /\ i = Len(toPanel) + 1 /\ toPanel'[i].op = op
                   /\ toPanel'[i].seq = waitSeq'
           /\ \A i \in Answers : toClient[i].seq <= waitSeq' /\ toClient[i].seq # waitSeq'
           /\ waitSeq' \in Nat /\ nextSeq' = waitSeq' + 1 /\ pc' = "waiting"
  <1> DEFINE new == [seq |-> nextSeq, op |-> op]
  <1>1. new \in Ask /\ toPanel' = Append(toPanel, new)
    BY DEF TypeOK, Ask, Sends
  <1>2. new.seq = nextSeq /\ new.op = op
    OBVIOUS
  <1> HIDE DEF new
  <1>3. /\ Len(toPanel') = Len(toPanel) + 1 /\ toPanel' # <<>>
        /\ \A i \in 1 .. Len(toPanel) : toPanel'[i] = toPanel[i]
        /\ toPanel'[Len(toPanel) + 1] = new
    BY <1>1, AppendElement DEF TypeOK
  <1>4. \A i \in Asks' : i \in Asks \/ i = Len(toPanel) + 1
    BY <1>3 DEF Asks, TypeOK
  <1>5. \A i \in Asks : i <= Len(toPanel) /\ toPanel[i].seq <= nextSeq /\ toPanel[i].seq # nextSeq
    BY DatagramTypes DEF Asks, TypeOK, Numbered
  <1>6. \A i \in Answers : toClient[i].seq <= nextSeq /\ toClient[i].seq # nextSeq
    BY DatagramTypes DEF TypeOK, Numbered
  <1>7. waitSeq' = nextSeq /\ nextSeq \in Nat /\ nextSeq' = nextSeq + 1 /\ pc' = "waiting"
    BY DEF TypeOK, Sends
  <1> QED
    BY <1>2, <1>3, <1>4, <1>5, <1>6, <1>7 DEF Asks

\* The client takes the first datagram.
LEMMA ClientTakesFacts ==
    ASSUME TypeOK, ClientTakes
    PROVE  /\ 1 \in Answers /\ toClient[1] \in Reply
           /\ \A i \in Answers' : i + 1 \in Answers /\ toClient'[i] = toClient[i + 1]
           /\ IF Awaited(toClient[1]) THEN Answered(toClient[1])
              ELSE UNCHANGED <<pc, got, unfinished>>
           /\ UNCHANGED <<kind, waitSeq, nextSeq, toPanel, cursor, streams, faultVars>>
           /\ Asks' = Asks
  BY TailElement DEF TypeOK, ClientTakes, Answers, Asks

\* The panel takes the first datagram and answers it under its number.
LEMMA PanelTakesFacts ==
    ASSUME TypeOK, PanelTakes
    PROVE  /\ toPanel # <<>> /\ 1 \in Asks /\ toPanel[1] \in Ask
           /\ Len(toPanel') = Len(toPanel) - 1
           /\ \A i \in Asks' : i + 1 \in Asks /\ toPanel'[i] = toPanel[i + 1]
           /\ \A i \in Answers : toClient'[i] = toClient[i]
           /\ \A i \in Answers' : i \in Answers \/ i = Len(toClient) + 1
           /\ toClient'[Len(toClient) + 1].seq = toPanel[1].seq
           /\ UNCHANGED <<pc, kind, got, waitSeq, nextSeq, unfinished, copied>>
  <1>1. toPanel[1] = Head(toPanel) /\ toPanel[1] \in Ask
    BY TailElement DEF PanelTakes, TypeOK
  <1>2. \E r \in Reply : toClient' = Append(toClient, r) /\ r.seq = toPanel[1].seq
    <2>1. ASSUME NEW k \in Kinds, NEW i \in Nat \ {0}, Replies(toPanel[1].seq, k, i)
          PROVE  \E r \in Reply : toClient' = Append(toClient, r) /\ r.seq = toPanel[1].seq
      <3>1. [seq |-> toPanel[1].seq, record |-> At(k, i),
             op |-> IF At(k, i) = 0 THEN "eod" ELSE k] \in Reply
        BY <1>1, AtType DEF Reply, Ask
      <3> QED
        BY <2>1, <3>1 DEF Replies
    <2>2. ASSUME Refuses(toPanel[1].seq)
          PROVE  \E r \in Reply : toClient' = Append(toClient, r) /\ r.seq = toPanel[1].seq
      <3>1. [seq |-> toPanel[1].seq, record |-> 0, op |-> "nak"] \in Reply
        BY <1>1, UploadAssumption DEF Reply, Ask, MaxRecords
      <3> QED
        BY <2>2, <3>1 DEF Refuses
    <2>3. Advanced \in Kinds /\ cursor[Advanced] + 1 \in Nat \ {0}
      BY UploadAssumption DEF TypeOK, Advanced, Kinds, MaxRecords
    <2> QED
      BY <1>1, <2>1, <2>2, <2>3 DEF PanelTakes, Ask
  <1>3. /\ \A i \in Answers : toClient'[i] = toClient[i]
        /\ \A i \in Answers' : i \in Answers \/ i = Len(toClient) + 1
        /\ toClient'[Len(toClient) + 1].seq = toPanel[1].seq
    BY <1>2, AppendElement DEF TypeOK, Answers
  <1>4. /\ toPanel # <<>> /\ 1 \in Asks /\ Len(toPanel') = Len(toPanel) - 1
        /\ \A i \in Asks' : i + 1 \in Asks /\ toPanel'[i] = toPanel[i + 1]
    BY TailElement DEF PanelTakes, TypeOK, Asks
  <1> QED
    BY <1>1, <1>3, <1>4 DEF PanelTakes, readerVars, historyVars, faultVars

\* The answer: to an upload the first record; to an Ack the next record of the
\* stream the panel has open, or a Nak if it has none.
LEMMA PanelAnswers ==
    ASSUME TypeOK, PanelTakes
    PROVE  LET p == toPanel[1]
               r == toClient'[Len(toClient) + 1]
               k == IF p.op = "ack" THEN Advanced ELSE p.op
               n == IF p.op = "ack" THEN cursor[k] + 1 ELSE 1
           IN  /\ k \in Kinds /\ n \in Nat \ {0}
               /\ \/ /\ p.op = "ack" /\ \A j \in Kinds : cursor[j] = 0
                     /\ cursor' = cursor /\ r.op = "nak"
                  \/ /\ p.op = "ack" => cursor[k] # 0
                     /\ n <= Records(k) /\ cursor' = [cursor EXCEPT ![k] = n]
                     /\ r.op = k /\ r.record = n
                  \/ /\ p.op = "ack" => cursor[k] # 0
                     /\ n > Records(k) /\ cursor' = [cursor EXCEPT ![k] = 0]
                     /\ r.op = "eod"
  <1>1. toPanel[1] = Head(toPanel) /\ toPanel[1] \in Ask
    BY TailElement DEF PanelTakes, TypeOK
  <1>2. /\ Advanced \in Kinds /\ cursor[Advanced] + 1 \in Nat \ {0}
        /\ cursor[Advanced] = 0 => \A j \in Kinds : cursor[j] = 0
    BY UploadAssumption DEF TypeOK, Advanced, Kinds, MaxRecords
  <1>3. ASSUME NEW k \in Kinds, NEW i \in Nat \ {0}, Replies(toPanel[1].seq, k, i)
        PROVE  LET r == toClient'[Len(toClient) + 1] IN
               \/ /\ i <= Records(k) /\ cursor' = [cursor EXCEPT ![k] = i]
                  /\ r.op = k /\ r.record = i
               \/ /\ i > Records(k) /\ cursor' = [cursor EXCEPT ![k] = 0]
                  /\ r.op = "eod"
    <2> DEFINE new == [seq |-> toPanel[1].seq, record |-> At(k, i),
                       op |-> IF At(k, i) = 0 THEN "eod" ELSE k]
    <2>1. new \in Reply
      BY <1>1, AtType DEF Reply, Ask
    <2>2. toClient'[Len(toClient) + 1] = new
      BY <1>3, <2>1, AppendElement DEF Replies, TypeOK
    <2>3. cursor' = [cursor EXCEPT ![k] = At(k, i)]
      BY <1>3 DEF Replies
    <2>4. Records(k) \in Nat /\ (At(k, i) = 0 <=> Records(k) < i) /\ (At(k, i) # 0 => At(k, i) = i)
      BY AtType
    <2>5. new.record = At(k, i) /\ new.op = IF At(k, i) = 0 THEN "eod" ELSE k
      OBVIOUS
    <2> HIDE DEF new
    <2>6. CASE At(k, i) = 0
      BY <2>2, <2>3, <2>4, <2>5, <2>6
    <2>7. CASE At(k, i) # 0
      BY <2>2, <2>3, <2>4, <2>5, <2>7
    <2> QED
      BY <2>6, <2>7
  <1>4. ASSUME Refuses(toPanel[1].seq)
        PROVE  cursor' = cursor /\ toClient'[Len(toClient) + 1].op = "nak"
    <2>1. [seq |-> toPanel[1].seq, record |-> 0, op |-> "nak"] \in Reply
      BY <1>1, UploadAssumption DEF Reply, Ask, MaxRecords
    <2> QED
      BY <1>4, <2>1, AppendElement DEF Refuses, TypeOK
  <1>5. CASE toPanel[1].op # "ack"
    <2>1. toPanel[1].op \in Kinds /\ Replies(toPanel[1].seq, toPanel[1].op, 1)
      BY <1>1, <1>5 DEF PanelTakes, Ask
    <2> QED
      BY <1>5, <2>1, <1>3
  <1>6. CASE toPanel[1].op = "ack" /\ cursor[Advanced] # 0
    <2>1. Replies(toPanel[1].seq, Advanced, cursor[Advanced] + 1)
      BY <1>1, <1>6 DEF PanelTakes
    <2> QED
      BY <1>2, <1>6, <2>1, <1>3
  <1>7. CASE toPanel[1].op = "ack" /\ cursor[Advanced] = 0
    <2>1. Refuses(toPanel[1].seq)
      BY <1>1, <1>7 DEF PanelTakes
    <2> QED
      BY <1>2, <1>7, <2>1, <1>4
  <1> QED
    BY <1>5, <1>6, <1>7

\* What the network leaves under way was under way before; a copy of a request
\* is a fault of its own kind.
LEMMA NetworkFacts ==
    ASSUME TypeOK, Loses \/ Copies
    PROVE  /\ \A i \in Asks' : \E j \in Asks : toPanel'[i] = toPanel[j]
           /\ \A i \in Answers' : \E j \in Answers : toClient'[i] = toClient[j]
           /\ copied \subseteq copied'
           /\ UNCHANGED <<readerVars, cursor, historyVars>>
  <1>1. CASE Loses
    <2>1. toPanel # <<>> => \A i \in 1 .. Len(Tail(toPanel)) :
                                i + 1 \in Asks /\ Tail(toPanel)[i] = toPanel[i + 1]
      BY TailElement DEF TypeOK, Asks
    <2>2. toClient # <<>> => \A i \in 1 .. Len(Tail(toClient)) :
                                i + 1 \in Answers /\ Tail(toClient)[i] = toClient[i + 1]
      BY TailElement DEF TypeOK, Answers
    <2> QED
      BY <1>1, <2>1, <2>2 DEF Loses, Asks, Answers
  <1>2. CASE Copies
    <2>1. toPanel # <<>> => \A i \in 1 .. Len(Append(toPanel, Head(toPanel))) :
                                \E j \in Asks : Append(toPanel, Head(toPanel))[i] = toPanel[j]
      BY TailElement, AppendElement DEF TypeOK, Asks
    <2>2. toClient # <<>> => \A i \in 1 .. Len(Append(toClient, Head(toClient))) :
                                \E j \in Answers : Append(toClient, Head(toClient))[i] = toClient[j]
      BY TailElement, AppendElement DEF TypeOK, Answers
    <2> QED
      BY <1>2, <2>1, <2>2 DEF Copies, Asks, Answers
  <1> QED
    BY <1>1, <1>2
-----------------------------------------------------------------------------
(* The parts that hold whatever the network does.                          *)

\* The client's last number stays the largest.
LEMMA NumberedPreserved ==
    ASSUME IInv, [Next]_vars
    PROVE  Numbered'
  <1> USE DEF IInv
  <1>1. ASSUME NEW k \in Kinds, Opens(k) PROVE Numbered'
    <2>1. Sends(k) /\ UNCHANGED toClient
      BY <1>1 DEF Opens
    <2> QED
      <3>1. waitSeq' \in Nat /\ nextSeq' = waitSeq' + 1
        BY <2>1, SendsFacts
      <3>2. /\ \A i \in Asks' : toPanel'[i].seq <= waitSeq'
            /\ \A i \in Answers : toClient[i].seq <= waitSeq'
        BY <2>1, <3>1, SendsFacts
      <3> QED
        BY <2>1, <3>1, <3>2 DEF Numbered, Answers
  <1>2. CASE Acknowledges
    <2>1. Sends("ack") /\ UNCHANGED toClient
      BY <1>2 DEF Acknowledges
    <2> QED
      <3>1. waitSeq' \in Nat /\ nextSeq' = waitSeq' + 1
        BY <2>1, SendsFacts
      <3>2. /\ \A i \in Asks' : toPanel'[i].seq <= waitSeq'
            /\ \A i \in Answers : toClient[i].seq <= waitSeq'
        BY <2>1, <3>1, SendsFacts
      <3> QED
        BY <2>1, <3>1, <3>2 DEF Numbered, Answers
  <1>3. CASE Abandons
    BY <1>3 DEF Numbered, Abandons, Asks, Answers
  <1>4. CASE TimesOut
    BY <1>4 DEF Numbered, TimesOut, Asks, Answers
  <1>5. CASE ClientTakes
    BY <1>5, ClientTakesFacts DEF Numbered
  <1>6. CASE PanelTakes
    BY <1>6, PanelTakesFacts DEF Numbered
  <1>7. CASE Loses
    BY <1>7, NetworkFacts DEF Numbered, readerVars
  <1>8. CASE Copies
    BY <1>8, NetworkFacts DEF Numbered, readerVars
  <1>9. CASE UNCHANGED vars
    BY <1>9 DEF Numbered, vars, readerVars, Asks, Answers
  <1> QED
    BY <1>1, <1>2, <1>3, <1>4, <1>5, <1>6, <1>7, <1>8, <1>9 DEF Next

\* The panel sends EOD where it has no record.
LEMMA RecordsCarriedPreserved ==
    ASSUME IInv, [Next]_vars
    PROVE  RecordsCarried'
  <1> USE DEF IInv
  <1>1. ASSUME NEW k \in Kinds, Opens(k) PROVE RecordsCarried'
    BY <1>1 DEF RecordsCarried, Opens, Answers
  <1>2. CASE Acknowledges
    BY <1>2 DEF RecordsCarried, Acknowledges, Answers
  <1>3. CASE Abandons
    BY <1>3 DEF RecordsCarried, Abandons, Answers
  <1>4. CASE TimesOut
    BY <1>4 DEF RecordsCarried, TimesOut, Answers
  <1>5. CASE ClientTakes
    BY <1>5, ClientTakesFacts DEF RecordsCarried
  <1>6. CASE PanelTakes
    <2>1. toClient'[Len(toClient) + 1].op \in Kinds => toClient'[Len(toClient) + 1].record # 0
      BY <1>6, PanelAnswers DEF Kinds
    <2> QED
      BY <1>6, <2>1, PanelTakesFacts DEF RecordsCarried
  <1>7. CASE Loses
    BY <1>7, NetworkFacts DEF RecordsCarried
  <1>8. CASE Copies
    BY <1>8, NetworkFacts DEF RecordsCarried
  <1>9. CASE UNCHANGED vars
    BY <1>9 DEF RecordsCarried, vars, Answers
  <1> QED
    BY <1>1, <1>2, <1>3, <1>4, <1>5, <1>6, <1>7, <1>8, <1>9 DEF Next

\* The panel's cursor stops at its last record.
LEMMA CursorsInsidePreserved ==
    ASSUME IInv, [Next]_vars
    PROVE  CursorsInside'
  <1> USE DEF IInv
  <1>1. ASSUME NEW k \in Kinds, Opens(k) PROVE CursorsInside'
    BY <1>1 DEF CursorsInside, Opens, Records
  <1>2. CASE Acknowledges
    BY <1>2 DEF CursorsInside, Acknowledges, Records
  <1>3. CASE Abandons
    BY <1>3 DEF CursorsInside, Abandons, Records
  <1>4. CASE TimesOut
    BY <1>4 DEF CursorsInside, TimesOut, Records
  <1>5. CASE ClientTakes
    BY <1>5, ClientTakesFacts DEF CursorsInside, Records
  <1>6. CASE PanelTakes
    <2> SUFFICES ASSUME NEW k \in Kinds PROVE cursor'[k] <= Records(k)
      BY DEF CursorsInside, Records
    <2>1. Records(k) \in Nat /\ cursor \in [Kinds -> 0 .. MaxRecords] /\ cursor[k] <= Records(k)
      BY UploadAssumption DEF TypeOK, CursorsInside, Records
    <2> QED
      BY <1>6, <2>1, PanelAnswers
  <1>7. CASE Loses
    BY <1>7, NetworkFacts DEF CursorsInside, Records
  <1>8. CASE Copies
    BY <1>8, NetworkFacts DEF CursorsInside, Records
  <1>9. CASE UNCHANGED vars
    BY <1>9 DEF CursorsInside, vars, Records
  <1> QED
    BY <1>1, <1>2, <1>3, <1>4, <1>5, <1>6, <1>7, <1>8, <1>9 DEF Next

\* A consumer holds what it was just given.
LEMMA HoldsARecordPreserved ==
    ASSUME IInv, [Next]_vars
    PROVE  HoldsARecord'
  <1> USE DEF IInv, HoldsARecord
  <1>1. ASSUME NEW k \in Kinds, Opens(k) PROVE HoldsARecord'
    BY <1>1 DEF Opens, Sends
  <1>2. CASE Acknowledges
    BY <1>2 DEF Acknowledges, Sends
  <1>3. CASE Abandons
    BY <1>3 DEF Abandons
  <1>4. CASE TimesOut
    BY <1>4 DEF TimesOut
  <1>5. CASE ClientTakes
    <2>1. CASE ~Awaited(toClient[1])
      BY <1>5, <2>1, ClientTakesFacts
    <2>2. CASE Awaited(toClient[1]) /\ toClient[1].op = kind
      <3>1. toClient[1].record \in 1 .. MaxRecords
        BY <1>5, <2>2, ClientTakesFacts DEF TypeOK, RecordsCarried, Reply
      <3>2. got' # <<>>
        BY <1>5, <2>2, <3>1, ClientTakesFacts, AppendElement DEF TypeOK, Answered, Kinds
      <3> QED
        BY <3>2
    <2>3. CASE Awaited(toClient[1]) /\ toClient[1].op # kind
      BY <1>5, <2>3, ClientTakesFacts DEF Answered
    <2> QED
      BY <2>1, <2>2, <2>3
  <1>6. CASE PanelTakes
    BY <1>6, PanelTakesFacts
  <1>7. CASE Loses
    BY <1>7 DEF Loses, readerVars
  <1>8. CASE Copies
    BY <1>8 DEF Copies, readerVars
  <1>9. CASE UNCHANGED vars
    BY <1>9 DEF vars, readerVars
  <1> QED
    BY <1>1, <1>2, <1>3, <1>4, <1>5, <1>6, <1>7, <1>8, <1>9 DEF Next

\* What is under way with the last number is what the client sent last.
LEMMA AsksInTurnPreserved ==
    ASSUME IInv, [Next]_vars
    PROVE  AsksInTurn'
  <1> USE DEF IInv
  <1>1. ASSUME NEW k \in Kinds, Opens(k) PROVE AsksInTurn'
    BY <1>1, SendsFacts DEF AsksInTurn, Opens
  <1>2. CASE Acknowledges
    BY <1>2, SendsFacts DEF HoldsARecord, AsksInTurn, Acknowledges
  <1>3. CASE Abandons
    BY <1>3 DEF AsksInTurn, Abandons
  <1>4. CASE TimesOut
    BY <1>4 DEF AsksInTurn, TimesOut
  <1>5. CASE ClientTakes
    <2>1. pc' = "waiting" => UNCHANGED <<pc, got>>
      BY <1>5, ClientTakesFacts DEF Answered
    <2> QED
      BY <1>5, <2>1, ClientTakesFacts DEF AsksInTurn
  <1>6. CASE PanelTakes
    BY <1>6, PanelTakesFacts DEF AsksInTurn
  <1>7. CASE Loses
    BY <1>7, NetworkFacts DEF AsksInTurn, readerVars
  <1>8. CASE Copies
    BY <1>8, NetworkFacts DEF AsksInTurn, readerVars
  <1>9. CASE UNCHANGED vars
    BY <1>9 DEF AsksInTurn, vars, readerVars, Asks
  <1> QED
    BY <1>1, <1>2, <1>3, <1>4, <1>5, <1>6, <1>7, <1>8, <1>9 DEF Next

-----------------------------------------------------------------------------
(* The parts that need no upload to be duplicated.                         *)

\* Requests are taken in the order they are sent; only an Ack may be copied to
\* the end of the queue.
LEMMA NothingOvertakesPreserved ==
    ASSUME IInv, [Next]_vars
    PROVE  NothingOvertakes'
  <1> USE DEF IInv
  <1>1. ASSUME NEW k \in Kinds, Opens(k) PROVE NothingOvertakes'
    <2>1. Sends(k)
      BY <1>1 DEF Opens
    <2> QED
      <3>1. \A i \in Asks' : toPanel'[i].seq = waitSeq' => i = Len(toPanel')
        BY <2>1, SendsFacts
      <3> QED
        BY <3>1 DEF NothingOvertakes, Asks
  <1>2. CASE Acknowledges
    <2>1. Sends("ack")
      BY <1>2 DEF Acknowledges
    <2> QED
      <3>1. \A i \in Asks' : toPanel'[i].seq = waitSeq' => i = Len(toPanel')
        BY <2>1, SendsFacts
      <3> QED
        BY <3>1 DEF NothingOvertakes, Asks
  <1>3. CASE Abandons
    BY <1>3 DEF NothingOvertakes, UploadsOnce, Abandons, Asks, faultVars
  <1>4. CASE TimesOut
    BY <1>4 DEF NothingOvertakes, UploadsOnce, TimesOut, Asks, faultVars
  <1>5. CASE ClientTakes
    BY <1>5, ClientTakesFacts DEF NothingOvertakes, UploadsOnce, faultVars
  <1>6. CASE PanelTakes
    BY <1>6, PanelTakesFacts DEF NothingOvertakes, UploadsOnce, Asks
  <1>7. CASE Loses
    <2>1. toPanel # <<>> => \A i \in 1 .. Len(Tail(toPanel)) :
                                i + 1 \in Asks /\ Tail(toPanel)[i] = toPanel[i + 1]
      BY TailElement DEF TypeOK, Asks
    <2>2. CASE UNCHANGED toPanel
      BY <1>7, <2>2 DEF Loses, NothingOvertakes, UploadsOnce, Asks, readerVars
    <2>3. CASE toPanel # <<>> /\ toPanel' = Tail(toPanel)
      <3>1. \A i \in Asks' : i \in Nat /\ i + 1 \in Asks /\ toPanel'[i] = toPanel[i + 1]
        BY <2>1, <2>3 DEF Asks
      <3>2. waitSeq' = waitSeq /\ (UploadsOnce' => UploadsOnce)
        BY <1>7 DEF Loses, readerVars, UploadsOnce
      <3> QED
        BY <3>1, <3>2 DEF NothingOvertakes
    <2> QED
      BY <1>7, <2>2, <2>3 DEF Loses
  <1>8. CASE Copies
    <2>1. CASE UNCHANGED toPanel
      BY <1>8, <2>1 DEF Copies, NothingOvertakes, UploadsOnce, Asks, readerVars
    <2>2. CASE /\ toPanel # <<>> /\ toPanel' = Append(toPanel, Head(toPanel))
               /\ copied' = copied \cup {IF Head(toPanel).op = "ack" THEN "ack" ELSE "upload"}
      <3>1. /\ Len(toPanel') = Len(toPanel) + 1 /\ toPanel'[Len(toPanel) + 1] = Head(toPanel)
            /\ \A i \in Asks : toPanel'[i] = toPanel[i]
        BY <2>2, TailElement, AppendElement DEF TypeOK, Asks
      <3>2. UploadsOnce' => UploadsOnce /\ Head(toPanel).op = "ack"
        BY <2>2 DEF UploadsOnce
      <3>3. waitSeq' = waitSeq
        BY <1>8 DEF Copies, readerVars
      <3>4. \A i \in Asks' : i \in Asks \/ (i = Len(toPanel') /\ toPanel'[i] = Head(toPanel))
        BY <3>1 DEF Asks, TypeOK
      <3>5. \A i, j \in Asks' : i < j => i \in Asks
        BY <3>1 DEF Asks, TypeOK
      <3> QED
        BY <3>1, <3>2, <3>3, <3>4, <3>5 DEF NothingOvertakes
    <2> QED
      BY <1>8, <2>1, <2>2 DEF Copies
  <1>9. CASE UNCHANGED vars
    BY <1>9 DEF NothingOvertakes, UploadsOnce, vars, readerVars, faultVars, Asks
  <1> QED
    BY <1>1, <1>2, <1>3, <1>4, <1>5, <1>6, <1>7, <1>8, <1>9 DEF Next

\* The panel answers what it has taken, in order.
LEMMA UploadsTakenPreserved ==
    ASSUME IInv, [Next]_vars
    PROVE  UploadsTaken'
  <1> USE DEF IInv
  <1>1. ASSUME NEW k \in Kinds, Opens(k) PROVE UploadsTaken'
    <2>1. got' = <<>> /\ ~AnswerIsComing'
      BY <1>1, SendsFacts DEF AnswerIsComing, Awaited, Opens, Answers, Numbered, TypeOK
    <2> QED
      BY <2>1 DEF UploadsTaken
  <1>2. CASE Acknowledges
    BY <1>2, SendsFacts DEF TypeOK, HoldsARecord, UploadsTaken, UploadsOnce, Acknowledges, Asks, faultVars
  <1>3. CASE Abandons
    BY <1>3 DEF UploadsTaken, UploadsOnce, AnswerIsComing, Awaited, Answers, Abandons, Asks, faultVars
  <1>4. CASE TimesOut
    BY <1>4 DEF UploadsTaken, UploadsOnce, AnswerIsComing, Awaited, Answers, TimesOut, Asks, faultVars
  <1>5. CASE ClientTakes
    <2>1. CASE Awaited(toClient[1])
      BY <1>5, <2>1, ClientTakesFacts DEF UploadsTaken, UploadsOnce, AnswerIsComing, faultVars
    <2>2. CASE ~Awaited(toClient[1])
      BY <1>5, <2>2, ClientTakesFacts
         DEF UploadsTaken, UploadsOnce, AnswerIsComing, Awaited, faultVars
    <2> QED
      BY <2>1, <2>2
  <1>6. CASE PanelTakes
    <2>1. CASE toPanel[1].seq = waitSeq
      BY <1>6, <2>1, PanelTakesFacts DEF NothingOvertakes, UploadsTaken, UploadsOnce, Asks
    <2>2. CASE toPanel[1].seq # waitSeq
      BY <1>6, <2>2, PanelTakesFacts DEF UploadsTaken, UploadsOnce, AnswerIsComing, Awaited
    <2> QED
      BY <2>1, <2>2
  <1>7. CASE Loses
    BY <1>7, NetworkFacts DEF UploadsTaken, UploadsOnce, AnswerIsComing, Awaited, readerVars
  <1>8. CASE Copies
    BY <1>8, NetworkFacts DEF UploadsTaken, UploadsOnce, AnswerIsComing, Awaited, readerVars
  <1>9. CASE UNCHANGED vars
    BY <1>9 DEF UploadsTaken, UploadsOnce, AnswerIsComing, Awaited, Answers, vars,
                readerVars, faultVars, Asks
  <1> QED
    BY <1>1, <1>2, <1>3, <1>4, <1>5, <1>6, <1>7, <1>8, <1>9 DEF Next

-----------------------------------------------------------------------------
(* Steps that concern the records.                                         *)

\* The steps that touch nothing but, perhaps, the consumer's own state.
LEMMA QuietFacts ==
    ASSUME Abandons \/ TimesOut \/ UNCHANGED vars
    PROVE  /\ pc' = pc \/ pc' = "failed"
           /\ UNCHANGED <<kind, got, waitSeq, nextSeq, toPanel, toClient, cursor,
                          historyVars, faultVars>>
           /\ Asks' = Asks /\ Answers' = Answers
           /\ AnswerIsComing' => AnswerIsComing
           /\ \A i \in Answers : Awaited(toClient[i])' => Awaited(toClient[i])
  <1>1. /\ pc' = pc \/ pc' = "failed"
        /\ UNCHANGED <<kind, got, waitSeq, nextSeq, toPanel, toClient, cursor,
                       historyVars, faultVars>>
    BY DEF Abandons, TimesOut, vars, readerVars
  <1>2. Asks' = Asks /\ Answers' = Answers
    BY <1>1 DEF Asks, Answers
  <1>3. \A i \in Answers : Awaited(toClient[i])' => Awaited(toClient[i])
    BY <1>1 DEF Awaited
  <1> QED
    BY <1>1, <1>2, <1>3 DEF AnswerIsComing

\* The client takes the record it waits for.
LEMMA TakesRecord ==
    ASSUME TypeOK, RecordsCarried, ClientTakes, Awaited(toClient[1]), toClient[1].op = kind
    PROVE  /\ pc' = "holding" /\ UNCHANGED unfinished
           /\ toClient[1].record \in 1 .. MaxRecords
           /\ got' \in Seq(1 .. MaxRecords) /\ Len(got') = Len(got) + 1 /\ got' # <<>>
           /\ \A i \in 1 .. Len(got) : got'[i] = got[i]
           /\ got'[Len(got) + 1] = toClient[1].record
           /\ \A i \in Answers' : ~Awaited(toClient[i])'
  <1>1. toClient[1].record \in 1 .. MaxRecords
    BY ClientTakesFacts DEF TypeOK, RecordsCarried, Reply
  <1>2. pc' = "holding" /\ UNCHANGED unfinished /\ got' = Append(got, toClient[1].record)
    BY ClientTakesFacts DEF TypeOK, Answered, Kinds
  <1>3. /\ got' \in Seq(1 .. MaxRecords) /\ Len(got') = Len(got) + 1 /\ got' # <<>>
        /\ \A i \in 1 .. Len(got) : got'[i] = got[i]
        /\ got'[Len(got) + 1] = toClient[1].record
    BY <1>1, <1>2, AppendElement DEF TypeOK
  <1> QED
    BY <1>1, <1>2, <1>3 DEF Awaited

\* It takes something else: the stream ends or fails, or goes on waiting.
LEMMA TakesNoRecord ==
    ASSUME TypeOK, ClientTakes, ~(Awaited(toClient[1]) /\ toClient[1].op = kind)
    PROVE  /\ UNCHANGED got
           /\ \/ UNCHANGED <<pc, unfinished>>
              \/ /\ Awaited(toClient[1]) /\ toClient[1].op \in {"eod", "nak"} /\ pc' = "ended"
                 /\ unfinished' = (unfinished /\ kind # "programs")
              \/ pc' = "failed" /\ UNCHANGED unfinished
           /\ \A i \in Answers' : Awaited(toClient[i])' => Awaited(toClient[i + 1])
  <1>1. /\ UNCHANGED got
        /\ \/ UNCHANGED <<pc, unfinished>>
           \/ /\ Awaited(toClient[1]) /\ toClient[1].op \in {"eod", "nak"} /\ pc' = "ended"
              /\ unfinished' = (unfinished /\ kind # "programs")
           \/ pc' = "failed" /\ UNCHANGED unfinished
    BY ClientTakesFacts DEF Answered
  <1>2. \A i \in Answers' : Awaited(toClient[i])' => Awaited(toClient[i + 1])
    BY <1>1, ClientTakesFacts DEF Awaited
  <1> QED
    BY <1>1, <1>2

\* Nothing that is under way answers a request that was just sent.
LEMMA NothingAnswersYet ==
    ASSUME TypeOK, Numbered, NEW op \in Kinds \cup {"ack"}, Sends(op), UNCHANGED toClient
    PROVE  ~AnswerIsComing' /\ \A i \in Answers' : ~Awaited(toClient[i])'
  <1>1. \A i \in Answers' : ~Awaited(toClient[i])'
    BY SendsFacts DEF Awaited, Answers
  <1> QED
    BY <1>1 DEF AnswerIsComing

-----------------------------------------------------------------------------
(* The rest of the parts that need no upload to be duplicated.             *)

\* An Ack moves the cursor on, or to its end.
LEMMA CursorAheadPreserved ==
    ASSUME IInv, [Next]_vars
    PROVE  CursorAhead'
  <1> USE DEF IInv
  <1>1. ASSUME NEW k \in Kinds, Opens(k) PROVE CursorAhead'
    BY <1>1 DEF CursorAhead, Opens
  <1>2. CASE Acknowledges
    BY <1>2 DEF CursorAhead, UploadsOnce, Acknowledges, faultVars
  <1>3. CASE Abandons \/ TimesOut \/ UNCHANGED vars
    BY <1>3, QuietFacts DEF CursorAhead, UploadsOnce, faultVars
  <1>4. CASE ClientTakes
    <2>1. CASE Awaited(toClient[1]) /\ toClient[1].op = kind
      <3>1. UploadsOnce' => cursor[kind] = 0 \/ toClient[1].record <= cursor[kind]
        BY <1>4, <2>1, ClientTakesFacts DEF AnswersAhead, UploadsOnce, faultVars
      <3>2. got'[Len(got')] = toClient[1].record
        BY <1>4, <2>1, TakesRecord
      <3> QED
        BY <1>4, <3>1, <3>2, ClientTakesFacts DEF CursorAhead
    <2>2. CASE ~(Awaited(toClient[1]) /\ toClient[1].op = kind)
      BY <1>4, <2>2, ClientTakesFacts, TakesNoRecord DEF CursorAhead, UploadsOnce, faultVars
    <2> QED
      BY <2>1, <2>2
  <1>5. CASE PanelTakes
    <2> SUFFICES ASSUME UploadsOnce, got # <<>>
                 PROVE  cursor'[kind] = 0 \/ got[Len(got)] <= cursor'[kind]
      BY <1>5, PanelTakesFacts DEF CursorAhead, UploadsOnce
    <2>1. toPanel[1].op = "ack"
      BY <1>5, PanelTakesFacts DEF UploadsTaken
    <2>2. cursor[kind] = 0 \/ got[Len(got)] <= cursor[kind]
      BY DEF CursorAhead
    <2>3. /\ cursor \in [Kinds -> 0 .. MaxRecords] /\ kind \in Kinds
          /\ cursor[kind] \in Nat /\ got[Len(got)] \in Nat
      BY EmptyQueue, UploadAssumption DEF TypeOK, MaxRecords
    <2> QED
      BY <1>5, <2>1, <2>2, <2>3, PanelAnswers
  <1>6. CASE Loses \/ Copies
    BY <1>6, NetworkFacts DEF CursorAhead, UploadsOnce, readerVars
  <1> QED
    BY <1>1, <1>2, <1>3, <1>4, <1>5, <1>6 DEF Next

\* The panel answers with the record its cursor comes to.
LEMMA AnswersAheadPreserved ==
    ASSUME IInv, [Next]_vars
    PROVE  AnswersAhead'
  <1> USE DEF IInv
  <1>1. ASSUME NEW k \in Kinds, Opens(k) PROVE AnswersAhead'
    BY <1>1, NothingAnswersYet DEF AnswersAhead, Opens
  <1>2. CASE Acknowledges
    BY <1>2, NothingAnswersYet DEF AnswersAhead, Acknowledges
  <1>3. CASE Abandons \/ TimesOut \/ UNCHANGED vars
    BY <1>3, QuietFacts DEF AnswersAhead, UploadsOnce, faultVars
  <1>4. CASE ClientTakes
    <2>1. CASE Awaited(toClient[1]) /\ toClient[1].op = kind
      BY <1>4, <2>1, TakesRecord DEF AnswersAhead
    <2>2. CASE ~(Awaited(toClient[1]) /\ toClient[1].op = kind)
      BY <1>4, <2>2, ClientTakesFacts, TakesNoRecord DEF AnswersAhead, UploadsOnce, faultVars
    <2> QED
      BY <2>1, <2>2
  <1>5. CASE PanelTakes
    <2> SUFFICES ASSUME UploadsOnce, NEW i \in Answers', Awaited(toClient[i])', toClient'[i].op = kind
                 PROVE  /\ got # <<>> => got[Len(got)] < toClient'[i].record
                        /\ cursor'[kind] = 0 \/ toClient'[i].record <= cursor'[kind]
      BY <1>5, PanelTakesFacts DEF AnswersAhead, UploadsOnce
    <2>1. /\ cursor \in [Kinds -> 0 .. MaxRecords] /\ kind \in Kinds /\ kind # "ack"
          /\ cursor[kind] \in Nat /\ got # <<>> => got[Len(got)] \in Nat
      BY EmptyQueue, UploadAssumption DEF TypeOK, MaxRecords, Kinds
    <2>2. CASE i \in Answers
      <3>1. Awaited(toClient[i]) /\ toClient'[i] = toClient[i]
        BY <1>5, <2>2, PanelTakesFacts DEF Awaited
      <3>2. toPanel[1].op = "ack"
        BY <1>5, <2>2, <3>1, PanelTakesFacts DEF UploadsTaken, AnswerIsComing
      <3>3. /\ got # <<>> => got[Len(got)] < toClient[i].record
            /\ cursor[kind] = 0 \/ toClient[i].record <= cursor[kind]
        BY <2>2, <3>1 DEF AnswersAhead
      <3>4. toClient[i].record \in Nat
        BY <2>2, DatagramTypes, UploadAssumption DEF Reply, MaxRecords
      <3> QED
        BY <1>5, <2>1, <3>1, <3>2, <3>3, <3>4, PanelAnswers
    <2>3. CASE i = Len(toClient) + 1
      <3>1. toPanel[1].seq = waitSeq /\ pc = "waiting" /\ 1 \in Asks
        BY <1>5, <2>3, PanelTakesFacts DEF Awaited
      <3>2. got # <<>> => toPanel[1].op = "ack" /\ (cursor[kind] = 0 \/ got[Len(got)] <= cursor[kind])
        BY <3>1 DEF AsksInTurn, CursorAhead
      <3>3. kind # "nak" /\ kind # "eod"
        BY DEF TypeOK, Kinds
      <3> QED
        BY <1>5, <2>1, <2>3, <3>2, <3>3, PanelAnswers
    <2> QED
      BY <1>5, <2>2, <2>3, PanelTakesFacts
  <1>6. CASE Loses \/ Copies
    BY <1>6, NetworkFacts DEF AnswersAhead, UploadsOnce, Awaited, readerVars
  <1> QED
    BY <1>1, <1>2, <1>3, <1>4, <1>5, <1>6 DEF Next

\* What is yielded is later than all that was.
LEMMA NeverRepeatsPreserved ==
    ASSUME IInv, [Next]_vars
    PROVE  NeverRepeats'
  <1> USE DEF IInv
  <1>1. ASSUME NEW k \in Kinds, Opens(k) PROVE NeverRepeats'
    BY <1>1 DEF NeverRepeats, Opens
  <1>2. CASE Acknowledges
    BY <1>2 DEF NeverRepeats, Acknowledges, faultVars
  <1>3. CASE Abandons \/ TimesOut \/ UNCHANGED vars
    BY <1>3, QuietFacts DEF NeverRepeats, faultVars
  <1>4. CASE ClientTakes
    <2>1. CASE Awaited(toClient[1]) /\ toClient[1].op = kind
      <3> SUFFICES ASSUME UploadsOnce, NEW i \in 1 .. Len(got'), NEW j \in 1 .. i - 1
                   PROVE  got'[j] < got'[i]
        BY <1>4, ClientTakesFacts DEF NeverRepeats, UploadsOnce, faultVars
      <3>1. \A a \in 1 .. Len(got) : got[a] \in Nat
        BY UploadAssumption DEF TypeOK, MaxRecords
      <3>2. j \in 1 .. Len(got) /\ got'[j] = got[j]
        BY <1>4, <2>1, TakesRecord, SMTT(30) DEF TypeOK
      <3>3. CASE i \in 1 .. Len(got)
        BY <1>4, <2>1, <3>2, <3>3, TakesRecord DEF NeverRepeats, UploadsOnce
      <3>4. CASE i = Len(got) + 1
        <4>1. got'[i] = toClient[1].record /\ toClient[1].record \in Nat
          BY <1>4, <2>1, <3>4, TakesRecord, UploadAssumption DEF MaxRecords
        <4>2. got[Len(got)] < toClient[1].record
          BY <1>4, <2>1, <3>2, ClientTakesFacts, EmptyQueue DEF AnswersAhead, TypeOK
        <4>3. j = Len(got) \/ got[j] < got[Len(got)]
          BY <3>2 DEF NeverRepeats, UploadsOnce, TypeOK
        <4> QED
          BY <3>1, <3>2, <4>1, <4>2, <4>3
      <3> QED
        BY <1>4, <2>1, <3>3, <3>4, TakesRecord DEF TypeOK
    <2>2. CASE ~(Awaited(toClient[1]) /\ toClient[1].op = kind)
      BY <1>4, <2>2, ClientTakesFacts, TakesNoRecord DEF NeverRepeats, faultVars
    <2> QED
      BY <2>1, <2>2
  <1>5. CASE PanelTakes
    BY <1>5, PanelTakesFacts DEF NeverRepeats
  <1>6. CASE Loses \/ Copies
    BY <1>6, NetworkFacts DEF NeverRepeats, readerVars
  <1> QED
    BY <1>1, <1>2, <1>3, <1>4, <1>5, <1>6 DEF Next

-----------------------------------------------------------------------------
(* The parts that need no request to be duplicated.                        *)

\* Without copies the panel's queue only loses its head.
LEMMA NetworkOnceFacts ==
    ASSUME TypeOK, Loses \/ Copies, AsksOnce'
    PROVE  /\ AsksOnce
           /\ toPanel' # <<>> => toPanel # <<>>
           /\ \/ Asks' = Asks /\ UNCHANGED toPanel
              \/ /\ Len(toPanel') = Len(toPanel) - 1
                 /\ \A i \in Asks' : i + 1 \in Asks /\ toPanel'[i] = toPanel[i + 1]
  <1>1. AsksOnce /\ (UNCHANGED toPanel \/ (toPanel # <<>> /\ toPanel' = Tail(toPanel)))
    <2>1. CASE Loses
      BY <2>1 DEF Loses, AsksOnce
    <2>2. CASE Copies
      <3>1. copied \subseteq copied'
        BY <2>2 DEF Copies
      <3>2. UNCHANGED toPanel \/ "ack" \in copied' \/ "upload" \in copied'
        BY <2>2 DEF Copies
      <3> QED
        BY <3>1, <3>2 DEF AsksOnce
    <2> QED
      BY <2>1, <2>2
  <1>2. CASE UNCHANGED toPanel
    BY <1>1, <1>2 DEF Asks
  <1>3. CASE toPanel # <<>> /\ toPanel' = Tail(toPanel)
    BY <1>1, <1>3, TailElement DEF TypeOK, Asks
  <1> QED
    BY <1>1, <1>2, <1>3

\* A queue that only loses its head keeps its end.
LEMMA LastAskIsLastPreserved ==
    ASSUME IInv, [Next]_vars
    PROVE  LastAskIsLast'
  <1> USE DEF IInv
  <1>1. ASSUME NEW k \in Kinds, Opens(k) PROVE LastAskIsLast'
    BY <1>1, SendsFacts DEF LastAskIsLast, Opens
  <1>2. CASE Acknowledges
    BY <1>2, SendsFacts DEF LastAskIsLast, Acknowledges
  <1>3. CASE Abandons \/ TimesOut \/ UNCHANGED vars
    BY <1>3, QuietFacts DEF LastAskIsLast, AsksOnce, faultVars
  <1>4. CASE ClientTakes
    BY <1>4, ClientTakesFacts DEF LastAskIsLast, AsksOnce, faultVars
  <1>5. CASE PanelTakes
    <2> SUFFICES ASSUME AsksOnce, NEW i \in Asks', toPanel'[i].seq = waitSeq
                 PROVE  i = Len(toPanel')
      BY <1>5, PanelTakesFacts DEF LastAskIsLast, AsksOnce
    <2>1. i \in Nat /\ Len(toPanel) \in Nat
      BY DEF Asks, TypeOK
    <2>2. i + 1 = Len(toPanel)
      BY <1>5, PanelTakesFacts DEF LastAskIsLast
    <2> QED
      BY <1>5, <2>1, <2>2, PanelTakesFacts
  <1>6. CASE Loses \/ Copies
    <2>1. waitSeq' = waitSeq
      BY <1>6, NetworkFacts DEF readerVars
    <2> SUFFICES ASSUME AsksOnce', NEW i \in Asks', toPanel'[i].seq = waitSeq
                 PROVE  i = Len(toPanel')
      BY <2>1 DEF LastAskIsLast
    <2>2. i \in Nat /\ Len(toPanel) \in Nat
      BY DEF Asks, TypeOK
    <2>3. \/ UNCHANGED toPanel /\ i = Len(toPanel)
          \/ Len(toPanel') = Len(toPanel) - 1 /\ i + 1 = Len(toPanel)
      BY <1>6, NetworkOnceFacts DEF LastAskIsLast
    <2> QED
      BY <2>2, <2>3
  <1> QED
    BY <1>1, <1>2, <1>3, <1>4, <1>5, <1>6 DEF Next

\* Once the last request is taken nothing is left to take.
LEMMA NothingElseAskedPreserved ==
    ASSUME IInv, [Next]_vars
    PROVE  NothingElseAsked'
  <1> USE DEF IInv
  <1>1. ASSUME NEW k \in Kinds, Opens(k) PROVE NothingElseAsked'
    BY <1>1, NothingAnswersYet DEF NothingElseAsked, Opens, Sends
  <1>2. CASE Acknowledges
    BY <1>2, NothingAnswersYet DEF NothingElseAsked, Acknowledges, Sends
  <1>3. CASE Abandons \/ TimesOut \/ UNCHANGED vars
    BY <1>3, QuietFacts DEF NothingElseAsked, AsksOnce, faultVars
  <1>4. CASE ClientTakes
    <2>1. CASE Awaited(toClient[1])
      BY <1>4, <2>1, ClientTakesFacts DEF NothingElseAsked, AnswerIsComing, AsksOnce, faultVars
    <2>2. CASE ~Awaited(toClient[1])
      BY <1>4, <2>2, ClientTakesFacts
         DEF NothingElseAsked, AnswerIsComing, Awaited, AsksOnce, faultVars
    <2> QED
      BY <2>1, <2>2
  <1>5. CASE PanelTakes
    <2> SUFFICES ASSUME AsksOnce, pc = "holding" \/ AnswerIsComing'
                 PROVE  toPanel' = <<>>
      BY <1>5, PanelTakesFacts DEF NothingElseAsked, AsksOnce
    <2>1. AnswerIsComing' /\ ~AnswerIsComing /\ pc # "holding"
      BY <1>5, PanelTakesFacts DEF NothingElseAsked
    <2>2. toPanel[1].seq = waitSeq
      BY <1>5, <2>1, PanelTakesFacts DEF AnswerIsComing, Awaited
    <2>3. Len(toPanel) = 1
      BY <1>5, <2>2, PanelTakesFacts DEF LastAskIsLast
    <2>4. toPanel' \in Seq(Ask)
      BY TypeOKPreserved DEF TypeOK
    <2> QED
      BY <1>5, <2>3, <2>4, PanelTakesFacts, EmptyQueue
  <1>6. CASE Loses \/ Copies
    <2>1. pc' = pc /\ (AnswerIsComing' => AnswerIsComing)
      BY <1>6, NetworkFacts DEF AnswerIsComing, Awaited, readerVars
    <2> QED
      BY <1>6, <2>1, NetworkOnceFacts DEF NothingElseAsked
  <1> QED
    BY <1>1, <1>2, <1>3, <1>4, <1>5, <1>6 DEF Next

\* A record has come, so the requests before it are gone.
LEMMA OnlyItsAckPreserved ==
    ASSUME IInv, [Next]_vars
    PROVE  OnlyItsAck'
  <1> USE DEF IInv
  <1>1. ASSUME NEW k \in Kinds, Opens(k) PROVE OnlyItsAck'
    BY <1>1 DEF OnlyItsAck, Opens
  <1>2. CASE Acknowledges
    <2> SUFFICES ASSUME AsksOnce PROVE \A i \in Asks' : toPanel'[i].seq = waitSeq'
      BY <1>2 DEF OnlyItsAck, AsksOnce, Acknowledges, faultVars
    <2>1. Asks = {}
      BY <1>2, EmptyQueue DEF NothingElseAsked, Acknowledges, Asks, TypeOK
    <2> QED
      BY <1>2, <2>1, SendsFacts DEF Acknowledges
  <1>3. CASE Abandons \/ TimesOut \/ UNCHANGED vars
    BY <1>3, QuietFacts DEF OnlyItsAck, AsksOnce, faultVars
  <1>4. CASE ClientTakes
    <2>1. pc' = "waiting" => UNCHANGED <<pc, got>>
      BY <1>4, ClientTakesFacts DEF Answered
    <2> QED
      BY <1>4, <2>1, ClientTakesFacts DEF OnlyItsAck, AsksOnce, faultVars
  <1>5. CASE PanelTakes
    BY <1>5, PanelTakesFacts DEF OnlyItsAck, AsksOnce
  <1>6. CASE Loses \/ Copies
    BY <1>6, NetworkFacts, NetworkOnceFacts DEF OnlyItsAck, readerVars
  <1> QED
    BY <1>1, <1>2, <1>3, <1>4, <1>5, <1>6 DEF Next

\* A stream that is alone in the panel after a step was before it, unless the
\* step opened it.
LEMMA AloneFacts ==
    ASSUME TypeOK, Alone', ClientTakes \/ PanelTakes \/ Loses \/ Copies \/ Acknowledges
    PROVE  Alone
  <1>1. CASE ClientTakes
    <2>1. UNCHANGED <<kind, copied>>
      BY <1>1, ClientTakesFacts DEF faultVars
    <2>2. kind = "programs" \/ unfinished' = unfinished
      <3>1. unfinished \in BOOLEAN
        BY DEF TypeOK
      <3> QED
        BY <1>1, <3>1, ClientTakesFacts DEF Answered
    <2> QED
      BY <2>1, <2>2 DEF Alone, AsksOnce
  <1>2. CASE PanelTakes
    <2>1. UNCHANGED <<kind, unfinished, copied>>
      BY <1>2, PanelTakesFacts
    <2> QED
      BY <2>1 DEF Alone, AsksOnce
  <1>3. CASE Loses \/ Copies
    BY <1>3, NetworkFacts, NetworkOnceFacts DEF Alone, readerVars, historyVars
  <1>4. CASE Acknowledges
    BY <1>4 DEF Acknowledges, Alone, AsksOnce, historyVars, faultVars
  <1> QED
    BY <1>1, <1>2, <1>3, <1>4

\* A programs stream ends with the panel's cursor at 0, and none is asked for.
LEMMA ProgramsOverPreserved ==
    ASSUME IInv, [Next]_vars
    PROVE  ProgramsOver'
  <1> USE DEF IInv
  <1>0. unfinished \in BOOLEAN
    BY DEF TypeOK
  <1>1. ASSUME NEW k \in Kinds, Opens(k) PROVE ProgramsOver'
    <2> SUFFICES ASSUME AsksOnce, ~unfinished, k # "programs"
                 PROVE  cursor'["programs"] = 0 /\ \A i \in Asks' : toPanel'[i].op # "programs"
      BY <1>1 DEF ProgramsOver, AsksOnce, Opens, faultVars
    <2> QED
      BY <1>1, SendsFacts DEF ProgramsOver, Opens
  <1>2. CASE Acknowledges
    <2>1. UNCHANGED <<cursor, unfinished, copied>>
      BY <1>2 DEF Acknowledges, historyVars, faultVars
    <2>2. \A i \in Asks' : (i \in Asks /\ toPanel'[i] = toPanel[i]) \/ toPanel'[i].op = "ack"
      BY <1>2, SendsFacts DEF Acknowledges
    <2> QED
      BY <2>1, <2>2 DEF ProgramsOver, AsksOnce
  <1>3. CASE Abandons \/ TimesOut \/ UNCHANGED vars
    BY <1>3, QuietFacts DEF ProgramsOver, AsksOnce, historyVars, faultVars
  <1>4. CASE ClientTakes
    <2>1. CASE unfinished' = unfinished
      BY <1>4, <2>1, ClientTakesFacts DEF ProgramsOver, AsksOnce, faultVars
    <2>2. CASE unfinished' # unfinished
      <3> SUFFICES ASSUME AsksOnce
                   PROVE  cursor["programs"] = 0 /\ Asks = {}
        BY <1>4, ClientTakesFacts DEF ProgramsOver, AsksOnce, faultVars
      <3>1. Awaited(toClient[1]) /\ kind = "programs" /\ toClient[1].op \in {"eod", "nak"}
        BY <1>0, <1>4, <2>2, ClientTakesFacts DEF Answered
      <3>2. cursor[kind] = 0
        BY <1>4, <3>1, ClientTakesFacts DEF AnswerIsNext, Alone
      <3>3. toPanel = <<>>
        BY <1>4, <3>1, ClientTakesFacts DEF NothingElseAsked, AnswerIsComing
      <3> QED
        BY <3>1, <3>2, <3>3 DEF Asks
    <2> QED
      BY <2>1, <2>2
  <1>5. CASE PanelTakes
    <2> SUFFICES ASSUME AsksOnce, ~unfinished
                 PROVE  cursor'["programs"] = 0 /\ \A i \in Asks' : toPanel'[i].op # "programs"
      BY <1>5, PanelTakesFacts DEF ProgramsOver, AsksOnce
    <2>1. cursor["programs"] = 0 /\ \A i \in Asks : toPanel[i].op # "programs"
      BY DEF ProgramsOver
    <2>2. \A i \in Asks' : toPanel'[i].op # "programs"
      BY <1>5, <2>1, PanelTakesFacts
    <2>3. toPanel[1].op # "programs" /\ Advanced = "names"
      BY <1>5, <2>1, PanelTakesFacts DEF Advanced
    <2>4. cursor'["programs"] = cursor["programs"]
      BY <1>5, <2>3, PanelAnswers DEF TypeOK, Kinds
    <2> QED
      BY <2>1, <2>2, <2>4
  <1>6. CASE Loses \/ Copies
    BY <1>6, NetworkFacts, NetworkOnceFacts DEF ProgramsOver, readerVars, historyVars
  <1> QED
    BY <1>1, <1>2, <1>3, <1>4, <1>5, <1>6 DEF Next

\* The record that is yielded is the next one.
LEMMA GotInOrderPreserved ==
    ASSUME IInv, [Next]_vars
    PROVE  GotInOrder'
  <1> USE DEF IInv
  <1>1. ASSUME NEW k \in Kinds, Opens(k) PROVE GotInOrder'
    BY <1>1 DEF GotInOrder, Opens
  <1>2. CASE Acknowledges
    BY <1>2, AloneFacts DEF GotInOrder, Acknowledges
  <1>3. CASE Abandons \/ TimesOut \/ UNCHANGED vars
    BY <1>3, QuietFacts DEF GotInOrder, Alone, AsksOnce, historyVars, faultVars
  <1>4. CASE ClientTakes
    <2> SUFFICES ASSUME Alone PROVE \A i \in 1 .. Len(got') : got'[i] = i
      BY <1>4, AloneFacts DEF GotInOrder
    <2>1. CASE Awaited(toClient[1]) /\ toClient[1].op = kind
      <3>1. toClient[1].record = Len(got) + 1
        BY <1>4, <2>1, ClientTakesFacts DEF AnswerIsNext, TypeOK, Kinds
      <3> QED
        BY <1>4, <2>1, <3>1, TakesRecord, SMTT(30) DEF GotInOrder, TypeOK
    <2>2. CASE ~(Awaited(toClient[1]) /\ toClient[1].op = kind)
      BY <1>4, <2>2, TakesNoRecord DEF GotInOrder
    <2> QED
      BY <2>1, <2>2
  <1>5. CASE PanelTakes
    BY <1>5, PanelTakesFacts, AloneFacts DEF GotInOrder
  <1>6. CASE Loses \/ Copies
    BY <1>6, NetworkFacts, AloneFacts DEF GotInOrder, readerVars
  <1> QED
    BY <1>1, <1>2, <1>3, <1>4, <1>5, <1>6 DEF Next

\* The cursor moves only when the Ack is taken.
LEMMA CursorAtLastPreserved ==
    ASSUME IInv, [Next]_vars
    PROVE  CursorAtLast'
  <1> USE DEF IInv
  <1>1. ASSUME NEW k \in Kinds, Opens(k) PROVE CursorAtLast'
    BY <1>1 DEF CursorAtLast, Opens
  <1>2. CASE Acknowledges
    BY <1>2, AloneFacts DEF CursorAtLast, Acknowledges
  <1>3. CASE Abandons \/ TimesOut \/ UNCHANGED vars
    BY <1>3, QuietFacts DEF CursorAtLast, Alone, AsksOnce, historyVars, faultVars
  <1>4. CASE ClientTakes
    <2> SUFFICES ASSUME Alone, got' # <<>>,
                        pc' = "holding" \/ (pc' = "waiting" /\ toPanel # <<>>)
                 PROVE  cursor[kind] = Len(got')
      BY <1>4, AloneFacts, ClientTakesFacts DEF CursorAtLast
    <2>1. CASE Awaited(toClient[1]) /\ toClient[1].op = kind
      <3>1. cursor[kind] = Len(got) + 1
        BY <1>4, <2>1, ClientTakesFacts DEF AnswerIsNext, TypeOK, Kinds
      <3> QED
        BY <1>4, <2>1, <3>1, TakesRecord
    <2>2. CASE ~(Awaited(toClient[1]) /\ toClient[1].op = kind)
      BY <1>4, <2>2, TakesNoRecord DEF CursorAtLast
    <2> QED
      BY <2>1, <2>2
  <1>5. CASE PanelTakes
    <2> SUFFICES ASSUME Alone, got # <<>>,
                        pc = "holding" \/ (pc = "waiting" /\ toPanel' # <<>>)
                 PROVE  FALSE
      BY <1>5, PanelTakesFacts, AloneFacts DEF CursorAtLast
    <2>1. pc = "waiting" /\ AsksOnce
      BY <1>5, PanelTakesFacts DEF NothingElseAsked, Alone
    <2>2. toPanel[1].seq = waitSeq /\ 1 \in Asks
      BY <1>5, <2>1, PanelTakesFacts DEF OnlyItsAck
    <2>3. Len(toPanel) = 1
      BY <2>1, <2>2 DEF LastAskIsLast
    <2>4. toPanel' \in Seq(Ask)
      BY TypeOKPreserved DEF TypeOK
    <2> QED
      BY <1>5, <2>1, <2>3, <2>4, PanelTakesFacts, EmptyQueue
  <1>6. CASE Loses \/ Copies
    BY <1>6, NetworkFacts, NetworkOnceFacts, AloneFacts DEF CursorAtLast, Alone, readerVars
  <1> QED
    BY <1>1, <1>2, <1>3, <1>4, <1>5, <1>6 DEF Next

\* The panel answers its own Ack, and with its cursor, not the other stream's.
LEMMA AnswerIsNextPreserved ==
    ASSUME IInv, [Next]_vars
    PROVE  AnswerIsNext'
  <1> USE DEF IInv
  <1>1. ASSUME NEW k \in Kinds, Opens(k) PROVE AnswerIsNext'
    BY <1>1, NothingAnswersYet DEF AnswerIsNext, Opens
  <1>2. CASE Acknowledges
    BY <1>2, NothingAnswersYet DEF AnswerIsNext, Acknowledges
  <1>3. CASE Abandons \/ TimesOut \/ UNCHANGED vars
    BY <1>3, QuietFacts DEF AnswerIsNext, Alone, AsksOnce, historyVars, faultVars
  <1>4. CASE ClientTakes
    <2>1. CASE Awaited(toClient[1]) /\ toClient[1].op = kind
      BY <1>4, <2>1, TakesRecord DEF AnswerIsNext
    <2>2. CASE ~(Awaited(toClient[1]) /\ toClient[1].op = kind)
      BY <1>4, <2>2, ClientTakesFacts, TakesNoRecord, AloneFacts DEF AnswerIsNext
    <2> QED
      BY <2>1, <2>2
  <1>5. CASE PanelTakes
    <2> SUFFICES ASSUME Alone, NEW i \in Answers', Awaited(toClient[i])'
                 PROVE  \/ /\ toClient'[i].op = kind /\ toClient'[i].record = Len(got) + 1
                           /\ cursor'[kind] = Len(got) + 1
                        \/ /\ toClient'[i].op = "eod" /\ Len(got) = Records(kind)
                           /\ cursor'[kind] = 0
      BY <1>5, PanelTakesFacts, AloneFacts DEF AnswerIsNext, Records
    <2>1. AsksOnce /\ toPanel # <<>>
      BY <1>5, PanelTakesFacts DEF Alone
    <2>2. ~AnswerIsComing
      BY <2>1 DEF NothingElseAsked
    <2>3. i = Len(toClient) + 1 /\ pc = "waiting" /\ toPanel[1].seq = waitSeq /\ 1 \in Asks
      BY <1>5, <2>2, PanelTakesFacts DEF AnswerIsComing, Awaited
    <2>4. toPanel[1].op = IF got = <<>> THEN kind ELSE "ack"
      BY <2>3 DEF AsksInTurn
    <2>5. /\ kind \in Kinds /\ kind # "ack" /\ cursor \in [Kinds -> 0 .. MaxRecords]
          /\ Len(got) \in Nat /\ (got = <<>> <=> Len(got) = 0) /\ Records(kind) \in Nat
      BY EmptyQueue, UploadAssumption DEF TypeOK, Kinds, Records
    <2>6. CASE got = <<>>
      BY <1>5, <2>3, <2>4, <2>5, <2>6, PanelAnswers
    <2>7. CASE got # <<>>
      <3>1. cursor[kind] = Len(got) /\ Len(got) # 0
        BY <2>1, <2>3, <2>5, <2>7 DEF CursorAtLast
      <3>2. Advanced = kind
        BY <2>1, <2>5, <3>1 DEF Advanced, ProgramsOver, Alone, Kinds
      <3>3. Len(got) <= Records(kind)
        BY <2>5, <3>1 DEF CursorsInside
      <3> QED
        BY <1>5, <2>3, <2>4, <2>5, <2>7, <3>1, <3>2, <3>3, PanelAnswers
    <2> QED
      BY <2>6, <2>7
  <1>6. CASE Loses \/ Copies
    BY <1>6, NetworkFacts, AloneFacts DEF AnswerIsNext, Awaited, Alone, readerVars
  <1> QED
    BY <1>1, <1>2, <1>3, <1>4, <1>5, <1>6 DEF Next

\* EOD ends the stream, after the last record.
LEMMA EndsAfterTheLastPreserved ==
    ASSUME IInv, [Next]_vars
    PROVE  EndsAfterTheLast'
  <1> USE DEF IInv
  <1>1. ASSUME NEW k \in Kinds, Opens(k) PROVE EndsAfterTheLast'
    BY <1>1 DEF EndsAfterTheLast, Opens, Sends
  <1>2. CASE Acknowledges
    BY <1>2 DEF EndsAfterTheLast, Acknowledges, Sends
  <1>3. CASE Abandons \/ TimesOut \/ UNCHANGED vars
    BY <1>3, QuietFacts DEF EndsAfterTheLast, Alone, AsksOnce, historyVars, faultVars
  <1>4. CASE ClientTakes
    <2> SUFFICES ASSUME Alone, pc' = "ended" PROVE Len(got') = Records(kind)
      BY <1>4, AloneFacts, ClientTakesFacts DEF EndsAfterTheLast
    <2>1. ~(Awaited(toClient[1]) /\ toClient[1].op = kind)
      BY <1>4, TakesRecord
    <2>2. CASE pc = "ended"
      BY <1>4, <2>1, <2>2, TakesNoRecord DEF EndsAfterTheLast
    <2>3. CASE pc # "ended"
      <3>1. Awaited(toClient[1]) /\ toClient[1].op # kind
        BY <1>4, <2>1, <2>3, TakesNoRecord
      <3> QED
        BY <1>4, <2>1, <3>1, ClientTakesFacts, TakesNoRecord DEF AnswerIsNext
    <2> QED
      BY <2>2, <2>3
  <1>5. CASE PanelTakes
    BY <1>5, PanelTakesFacts, AloneFacts DEF EndsAfterTheLast
  <1>6. CASE Loses \/ Copies
    BY <1>6, NetworkFacts, AloneFacts DEF EndsAfterTheLast, readerVars
  <1> QED
    BY <1>1, <1>2, <1>3, <1>4, <1>5, <1>6 DEF Next

-----------------------------------------------------------------------------
(* The theorems.                                                           *)

\* Nothing is under way in the initial state and no stream is open.
LEMMA InitEstablishes == Init => IInv
  <1> SUFFICES ASSUME Init PROVE IInv
    OBVIOUS
  <1>1. TypeOK
    <2>1. MaxRecords \in Nat
      BY UploadAssumption DEF MaxRecords
    <2>2. cursor \in [Kinds -> 0 .. MaxRecords]
      BY <2>1 DEF Init
    <2>3. got \in Seq(1 .. MaxRecords) /\ toPanel \in Seq(Ask) /\ toClient \in Seq(Reply)
      BY DEF Init
    <2>4. /\ pc \in {"idle", "waiting", "holding", "ended", "failed"} /\ kind \in Kinds
          /\ waitSeq \in Nat /\ nextSeq \in Nat /\ unfinished \in BOOLEAN
      BY DEF Init, Kinds
    <2>5. /\ streams \in 0 .. MaxStreams /\ losses \in 0 .. MaxLosses
          /\ copies \in 0 .. MaxCopies /\ copied \subseteq {"upload", "ack", "reply"}
      BY UploadAssumption DEF Init
    <2> QED
      BY <2>2, <2>3, <2>4, <2>5 DEF TypeOK
  <1>2. Asks = {} /\ Answers = {} /\ toPanel = <<>> /\ toClient = <<>> /\ ~AnswerIsComing
    BY DEF Init, Asks, Answers, AnswerIsComing
  <1>3. Numbered /\ RecordsCarried /\ CursorsInside /\ HoldsARecord /\ AsksInTurn
    BY <1>2, UploadAssumption DEF Init, Numbered, RecordsCarried, CursorsInside, HoldsARecord,
                                  AsksInTurn, Records
  <1>4. NothingOvertakes /\ UploadsTaken /\ CursorAhead /\ AnswersAhead /\ NeverRepeats
    BY <1>2 DEF Init, NothingOvertakes, UploadsTaken, CursorAhead, AnswersAhead, NeverRepeats
  <1>5. LastAskIsLast /\ NothingElseAsked /\ OnlyItsAck
    BY <1>2 DEF Init, LastAskIsLast, NothingElseAsked, OnlyItsAck
  <1>6. ProgramsOver
    BY <1>2 DEF Init, ProgramsOver, Kinds
  <1>7. GotInOrder /\ CursorAtLast /\ AnswerIsNext /\ EndsAfterTheLast
    BY <1>2 DEF Init, GotInOrder, CursorAtLast, AnswerIsNext, EndsAfterTheLast
  <1> QED
    BY <1>1, <1>3, <1>4, <1>5, <1>6, <1>7 DEF IInv

\* The inductive invariant holds in every behaviour: whatever is lost, late or
\* duplicated, the numbers, cursors and replies under way are as IInv says.
THEOREM Invariance == Spec => []IInv
  <1>1. Init => IInv
    BY InitEstablishes
  <1>2. IInv /\ [Next]_vars => IInv'
    <2> SUFFICES ASSUME IInv, [Next]_vars PROVE IInv'
      OBVIOUS
    <2>1. TypeOK' /\ Numbered' /\ RecordsCarried' /\ CursorsInside' /\ HoldsARecord' /\ AsksInTurn'
      BY TypeOKPreserved, NumberedPreserved, RecordsCarriedPreserved, CursorsInsidePreserved,
         HoldsARecordPreserved, AsksInTurnPreserved
    <2>2. NothingOvertakes' /\ UploadsTaken' /\ CursorAhead' /\ AnswersAhead' /\ NeverRepeats'
      BY NothingOvertakesPreserved, UploadsTakenPreserved, CursorAheadPreserved,
         AnswersAheadPreserved, NeverRepeatsPreserved
    <2>3. LastAskIsLast' /\ NothingElseAsked' /\ OnlyItsAck' /\ ProgramsOver'
      BY LastAskIsLastPreserved, NothingElseAskedPreserved, OnlyItsAckPreserved,
         ProgramsOverPreserved
    <2>4. GotInOrder' /\ CursorAtLast' /\ AnswerIsNext' /\ EndsAfterTheLast'
      BY GotInOrderPreserved, CursorAtLastPreserved, AnswerIsNextPreserved,
         EndsAfterTheLastPreserved
    <2> QED
      BY <2>1, <2>2, <2>3, <2>4 DEF IInv
  <1> QED
    BY <1>1, <1>2, PTL DEF Spec

\* Every variable keeps its type: what is yielded is a record the panel can
\* have, whatever the network does.
THEOREM TypeCorrect == Spec => []TypeOK
  <1>1. IInv => TypeOK
    BY DEF IInv
  <1> QED
    BY <1>1, Invariance, PTL

\* iter_streaming yields the panel's records in its order and never one twice,
\* as long as no upload request is duplicated; Acks and replies may be.
THEOREM YieldsInOrder == Spec => []NeverRepeats
  <1>1. IInv => NeverRepeats
    BY DEF IInv
  <1> QED
    BY <1>1, Invariance, PTL

\* A stream that ended after its last record yielded them all.
LEMMA EndedIsComplete ==
    ASSUME IInv, Alone, pc = "ended"
    PROVE  Complete(kind)
  <1>1. got \in Seq(1 .. MaxRecords) /\ Len(got) = Records(kind)
    BY DEF IInv, TypeOK, EndsAfterTheLast
  <1>2. \A i \in 1 .. Len(got) : got[i] = i
    BY DEF IInv, GotInOrder
  <1>3. got = [i \in 1 .. Len(got) |-> i]
    BY <1>1, <1>2
  <1> QED
    BY <1>1, <1>3 DEF Complete

\* A programs stream that ends normally has yielded every program, in order,
\* whatever is lost or late and whatever was abandoned before it, if no request
\* is duplicated.
THEOREM ProgramsStreamComplete == Spec => []ProgramsComplete
  <1>1. IInv => ProgramsComplete
    BY EndedIsComplete DEF ProgramsComplete, Alone, AsksOnce
  <1> QED
    BY <1>1, Invariance, PTL

\* So has a names stream, unless the last programs stream was left unfinished.
THEOREM NamesStreamComplete == Spec => []NamesComplete
  <1>1. IInv => NamesComplete
    BY EndedIsComplete DEF NamesComplete, Alone, AsksOnce
  <1> QED
    BY <1>1, Invariance, PTL
=============================================================================
