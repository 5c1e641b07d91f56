------------------------ MODULE CoordinatorInvariant ------------------------
(***************************************************************************)
(* The inductive invariant of Coordinator, in named parts.                 *)
(***************************************************************************)
EXTENDS Coordinator

\* An update runs for the first refresh, or for an entry that was set up.
UpdatesAreOwed ==
    /\ phase \in {"discovering"} => setup = "first" /\ ~discovered
    /\ phase # "idle" => setup = "first" \/ hasData
    /\ setup = "up" => hasData
    /\ setup \in {"first", "retry", "failed"} => ~hasData
    /\ phase = "polling" => discovered
    /\ hasData => discovered

\* What is open is held by the coordinator, or being closed, unless the entry
\* is unloaded under an update that connects.
OpenIsHeld ==
    setup = "up" \/ ~hasData =>
        /\ open \subseteq {client, updateDrop, shutDrop} \ {0}
        /\ shutDrop # 0 => setup = "closing"
        /\ setup = "closing" => client = 0 /\ updateDrop = 0
        /\ updateDrop # 0 => phase = "dropping" /\ client = 0
        /\ phase = "connecting" => client = 0
        /\ setup = "retry" => client = 0
        /\ phase = "idle" => updateDrop = 0

\* The event task belongs to a discovery that is done.
TaskIsDiscovered ==
    /\ ~discovered => listener = 0 /\ lastEvent = 0
    /\ setup \in {"closing", "down", "retry"} => listener = 0

\* Events wait in the order the panel sent them, and those that wait are later
\* than the one shown.
EventsAreOrdered ==
    /\ lastEvent <= changes
    /\ \A c \in Clients : \A i \in 1 .. Len(backlog[c]) :
         /\ backlog[c][i].number <= changes
         /\ \A j \in 1 .. i : backlog[c][j].number <= backlog[c][i].number
    /\ listener # 0 =>
         \A i \in 1 .. Len(backlog[listener]) : lastEvent <= backlog[listener][i].number

IInv ==
    /\ TypeOK
    /\ UpdatesAreOwed
    /\ OpenIsHeld
    /\ TaskIsDiscovered
    /\ EventsAreOrdered
=============================================================================
