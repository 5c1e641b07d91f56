----------------------- MODULE UploadStreamInvariant -----------------------
(***************************************************************************)
(* The inductive invariant of UploadStream: what the numbers, the panel's  *)
(* cursors and the replies under way have to do with the records that were *)
(* yielded.  Its parts are of three kinds: those that hold whatever the    *)
(* network does, those that need uploads not to be duplicated, and those   *)
(* that need no request at all to be.                                      *)
(***************************************************************************)
EXTENDS UploadStream

Asks == 1 .. Len(toPanel)
Answers == 1 .. Len(toClient)

\* A reply under way that the client will take for the answer.
AnswerIsComing == \E i \in Answers : Awaited(toClient[i])

-----------------------------------------------------------------------------
(* Whatever the network does.                                              *)

\* The client waits on its last number, and no datagram has a later one.
Numbered ==
    /\ nextSeq = waitSeq + 1
    /\ \A i \in Asks : toPanel[i].seq <= waitSeq
    /\ \A i \in Answers : toClient[i].seq <= waitSeq

\* Only EOD and Nak come without a record.
RecordsCarried == \A i \in Answers : toClient[i].op \in Kinds => toClient[i].record # 0

\* A cursor is at a record the panel has, or at none.
CursorsInside == \A k \in Kinds : cursor[k] <= Records(k)

\* A consumer that is busy was given a record.
HoldsARecord == pc = "holding" => got # <<>>

\* What the client waits on: its upload first, then its last Ack.
AsksInTurn ==
    pc = "waiting" =>
        \A i \in Asks : toPanel[i].seq = waitSeq =>
            toPanel[i].op = IF got = <<>> THEN kind ELSE "ack"

-----------------------------------------------------------------------------
(* While no upload is duplicated.                                          *)

UploadsOnce == "upload" \notin copied

\* Nothing but Acks comes after the last request.
NothingOvertakes ==
    UploadsOnce => \A i, j \in Asks : i < j /\ toPanel[i].seq = waitSeq => toPanel[j].op = "ack"

\* Once this stream has an answer the panel has taken every upload.
UploadsTaken ==
    UploadsOnce /\ (got # <<>> \/ AnswerIsComing) => \A i \in Asks : toPanel[i].op = "ack"

\* The panel's cursor never falls behind what was yielded.
CursorAhead ==
    UploadsOnce /\ got # <<>> => cursor[kind] = 0 \/ got[Len(got)] <= cursor[kind]

\* The answer that is coming is a later record, not beyond the cursor.
AnswersAhead ==
    UploadsOnce =>
        \A i \in Answers : Awaited(toClient[i]) /\ toClient[i].op = kind =>
            /\ got # <<>> => got[Len(got)] < toClient[i].record
            /\ cursor[kind] = 0 \/ toClient[i].record <= cursor[kind]

-----------------------------------------------------------------------------
(* While no request is duplicated.                                         *)

AsksOnce == copied \subseteq {"reply"}

\* The last request is the last datagram to the panel.
LastAskIsLast == AsksOnce => \A i \in Asks : toPanel[i].seq = waitSeq => i = Len(toPanel)

\* A record, held or coming, is the answer to the last of the requests.
NothingElseAsked == AsksOnce /\ (pc = "holding" \/ AnswerIsComing) => toPanel = <<>>

\* In the middle of a stream only its own Ack can be under way.
OnlyItsAck ==
    AsksOnce /\ pc = "waiting" /\ got # <<>> => \A i \in Asks : toPanel[i].seq = waitSeq

\* No programs stream is left open in the panel.
ProgramsOver ==
    AsksOnce /\ ~unfinished =>
        cursor["programs"] = 0 /\ \A i \in Asks : toPanel[i].op # "programs"

\* The panel takes this stream's Acks for this stream.
Alone == AsksOnce /\ (kind = "programs" \/ ~unfinished)

GotInOrder == Alone => \A i \in 1 .. Len(got) : got[i] = i

\* Until the panel takes the next Ack its cursor is at the last record yielded.
CursorAtLast ==
    Alone /\ got # <<>> /\ (pc = "holding" \/ (pc = "waiting" /\ toPanel # <<>>))
        => cursor[kind] = Len(got)

\* The answer that is coming is the next record, or EOD after the last.
AnswerIsNext ==
    Alone =>
        \A i \in Answers : Awaited(toClient[i]) =>
            \/ /\ toClient[i].op = kind /\ toClient[i].record = Len(got) + 1
               /\ cursor[kind] = Len(got) + 1
            \/ /\ toClient[i].op = "eod" /\ Len(got) = Records(kind)
               /\ cursor[kind] = 0

EndsAfterTheLast == Alone /\ pc = "ended" => Len(got) = Records(kind)

-----------------------------------------------------------------------------
IInv ==
    /\ TypeOK
    /\ Numbered /\ RecordsCarried /\ CursorsInside /\ HoldsARecord /\ AsksInTurn
    /\ NothingOvertakes /\ UploadsTaken /\ CursorAhead /\ AnswersAhead /\ NeverRepeats
    /\ LastAskIsLast /\ NothingElseAsked /\ OnlyItsAck /\ ProgramsOver
    /\ GotInOrder /\ CursorAtLast /\ AnswerIsNext /\ EndsAfterTheLast
=============================================================================
