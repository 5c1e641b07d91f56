---------------------------- MODULE Coordinator ----------------------------
(***************************************************************************)
(* OmniDataUpdateCoordinator of the Home Assistant integration: the update *)
(* that connects, discovers the panel's objects once and polls them, the   *)
(* background task that patches the snapshot with pushed events, and the   *)
(* set-up and unloading of the config entry around them.                   *)
(*                                                                         *)
(* Home Assistant runs one update at a time.  A group is one object type:  *)
(* its objects are read in one request.  The panel's changes are numbered, *)
(* and the version of a group is the number of its last change.            *)
(***************************************************************************)
EXTENDS Naturals, Sequences, FiniteSets

CONSTANTS
    NGroups,      \* the groups, in the order they are discovered and polled
    Silent,       \* the groups whose events do not carry the changed state
    MaxChanges,   \* bound: changes of the panel
    MaxFaults     \* bound: connections, links and requests that fail

Groups == 1 .. NGroups
Changes == 0 .. MaxChanges
Clients == 1 .. MaxFaults + 2

ASSUME CoordinatorAssumption ==
    /\ NGroups \in Nat \ {0}
    /\ Silent \subseteq Groups
    /\ MaxChanges \in Nat /\ MaxFaults \in Nat

VARIABLES
    setup,        \* the config entry: where setting up or unloading it stands
    armed,        \* the update timer is running
    phase,        \* the update: what it is awaiting
    origin,       \* who started it
    cursor,       \* the group it is at
    mine,         \* its local variable client
    polled,       \* the records it has read so far
    client,       \* self._client, or 0
    updateDrop,   \* the client the update is closing, or 0
    shutDrop,     \* the client async_shutdown is closing, or 0
    discovered,   \* self._discovery_done
    found,        \* the groups in self._discovered
    refused,      \* the groups whose enumeration the panel refused
    listener,     \* the client whose events the event task awaits, or 0
    hasData,      \* self.data is not None
    shown,        \* the version of each group in self.data, or 0
    lastEvent,    \* self.data.last_event, or 0
    open,         \* clients with an open connection
    alive,        \* clients whose link still works
    nextClient,   \* the number of the next client object
    backlog,      \* events delivered to each client and not yet taken
    version,      \* the panel: the last change of each group
    changes,      \* the number of changes so far
    faults        \* the number of failures so far

entryVars == <<setup, armed>>
updateVars == <<phase, origin, cursor, mine, polled>>
clientVars == <<client, updateDrop, shutDrop, open, nextClient>>
topologyVars == <<discovered, found, refused>>
dataVars == <<hasData, shown, lastEvent>>
eventVars == <<listener, backlog>>
panelVars == <<version, changes>>
linkVars == <<alive, faults>>
vars == <<entryVars, updateVars, clientVars, topologyVars, dataVars, eventVars,
          panelVars, linkVars>>

Event == [group : Groups, number : Changes]
Unread == [g \in Groups |-> 0]

ControlTypes ==
    /\ setup \in {"first", "up", "cancelling", "closing", "down", "retry", "failed"}
    /\ armed \in BOOLEAN /\ discovered \in BOOLEAN /\ hasData \in BOOLEAN
    /\ phase \in {"idle", "connecting", "discovering", "polling", "dropping"}
    /\ origin \in {"first", "timer", "request"}
    /\ cursor \in 1 .. NGroups + 1
    /\ faults \in 0 .. MaxFaults

ClientTypes ==
    /\ mine \in Clients \cup {0} /\ client \in Clients \cup {0}
    /\ updateDrop \in Clients \cup {0} /\ shutDrop \in Clients \cup {0}
    /\ listener \in Clients \cup {0}
    /\ open \subseteq Clients /\ alive \subseteq Clients
    /\ nextClient \in 1 .. MaxFaults + 3

DataTypes ==
    /\ found \subseteq Groups /\ refused \subseteq Groups
    /\ backlog \in [Clients -> Seq(Event)]
    /\ polled \in [Groups -> Changes] /\ shown \in [Groups -> Changes]
    /\ version \in [Groups -> Changes]
    /\ lastEvent \in Changes /\ changes \in Changes

TypeOK == ControlTypes /\ ClientTypes /\ DataTypes

Init ==
    /\ setup = "first" /\ armed = TRUE
    /\ client = 0 /\ updateDrop = 0 /\ shutDrop = 0
    /\ discovered = FALSE /\ found = {} /\ refused = {}
    /\ listener = 0 /\ hasData = FALSE /\ shown = Unread /\ lastEvent = 0
    /\ phase = "idle" /\ origin = "first" /\ cursor = 1 /\ mine = 0 /\ polled = Unread
    /\ open = {} /\ alive = {} /\ nextClient = 1 /\ backlog = [c \in Clients |-> <<>>]
    /\ version = Unread /\ changes = 0 /\ faults = 0

-----------------------------------------------------------------------------
(* The update: _async_update_data.                                         *)

\* Its client answers: the link works and nobody closed the connection.
Answers == mine \in (open \cap alive) \ {shutDrop}

Fault == faults < MaxFaults /\ faults' = faults + 1

\* self._client is there and is used, or is made.
StartsWith(o) ==
    /\ phase = "idle"
    /\ origin' = o /\ cursor' = 1 /\ polled' = Unread
    /\ mine' = client
    /\ phase' = IF client = 0 THEN "connecting"
                ELSE IF discovered THEN "polling" ELSE "discovering"
    /\ UNCHANGED <<entryVars, clientVars, topologyVars, dataVars, eventVars,
                   panelVars, linkVars>>

FirstRefresh == setup = "first" /\ StartsWith("first")

TimerFires == setup = "up" /\ armed /\ StartsWith("timer")

\* async_request_refresh by an entity after a command, or by an alarm event.
RequestRefresh ==
    /\ hasData /\ setup \in {"up", "cancelling", "closing"}
    /\ StartsWith("request")

Connected ==
    /\ phase = "connecting" /\ nextClient \in Clients
    /\ client' = nextClient /\ mine' = nextClient
    /\ nextClient' = nextClient + 1
    /\ open' = open \cup {nextClient} /\ alive' = alive \cup {nextClient}
    /\ phase' = IF discovered THEN "polling" ELSE "discovering"
    /\ UNCHANGED <<entryVars, origin, cursor, polled, updateDrop, shutDrop,
                   topologyVars, dataVars, eventVars, panelVars, faults>>

\* The update raises UpdateFailed: the timer is set again; async_setup_entry
\* shuts down a coordinator whose first refresh failed.
Raises ==
    /\ phase' = "idle"
    /\ armed' = TRUE
    /\ setup' = IF setup = "first" THEN "cancelling" ELSE setup

\* The socket does not open: the client closed itself, and is not held.
ConnectFails ==
    /\ phase = "connecting" /\ Fault
    /\ Raises
    /\ UNCHANGED <<origin, cursor, mine, polled, clientVars, topologyVars,
                   dataVars, eventVars, panelVars, alive>>

\* HandshakeError or InvalidEncryptionKeyError: ConfigEntryAuthFailed, after
\* which Home Assistant asks for new credentials and polls no more.
HandshakeFails ==
    /\ phase = "connecting" /\ Fault
    /\ phase' = "idle"
    /\ armed' = FALSE
    /\ setup' = IF setup = "first" THEN "failed" ELSE setup
    /\ UNCHANGED <<origin, cursor, mine, polled, clientVars, topologyVars,
                   dataVars, eventVars, panelVars, alive>>

\* self._client = None, then the await of its close.
DropsNothing ==
    /\ phase' = "dropping" /\ updateDrop' = 0
    /\ UNCHANGED client

DropsUnclosed ==
    /\ phase' = "dropping" /\ updateDrop' = 0
    /\ client' = 0

DropClient ==
    /\ phase' = "dropping" /\ updateDrop' = client
    /\ client' = 0

\* A request raises ConnectionError or RequestTimeoutError.
RequestFails ==
    /\ phase \in {"discovering", "polling"}
    /\ IF Answers THEN Fault ELSE UNCHANGED faults
    /\ DropClient
    /\ UNCHANGED <<entryVars, origin, cursor, mine, polled, shutDrop, open, nextClient,
                   topologyVars, dataVars, eventVars, panelVars, alive>>

Dropped ==
    /\ phase = "dropping"
    /\ open' = open \ {updateDrop} /\ updateDrop' = 0
    /\ Raises
    /\ UNCHANGED <<origin, cursor, mine, polled, client, shutDrop, nextClient,
                   topologyVars, dataVars, eventVars, panelVars, linkVars>>

-----------------------------------------------------------------------------
(* _run_discovery: once per coordinator.                                   *)

\* Anything but a transport error leaves the update without a drop.
SystemInformationRefused ==
    /\ phase = "discovering" /\ cursor = 1 /\ found = {} /\ refused = {}
    /\ Answers /\ Fault
    /\ Raises
    /\ UNCHANGED <<origin, cursor, mine, polled, clientVars, topologyVars,
                   dataVars, eventVars, panelVars, alive>>

GroupsLeftOrOneMore == cursor <= NGroups + 1

GroupsLeft == cursor <= NGroups

NextGroup ==
    /\ GroupsLeft /\ Answers
    /\ cursor' = cursor + 1
    /\ UNCHANGED <<entryVars, phase, origin, mine, clientVars, dataVars, eventVars,
                   panelVars, alive>>

Discovers ==
    /\ phase = "discovering" /\ NextGroup
    /\ found' = found \cup {cursor}
    /\ UNCHANGED <<polled, discovered, refused, faults>>

\* A Nak or an unreadable record: _best_effort keeps an empty list.
DiscoveryRefused ==
    /\ phase = "discovering" /\ NextGroup /\ Fault
    /\ refused' = refused \cup {cursor}
    /\ UNCHANGED <<polled, discovered, found>>

\* RequestTimeoutError inside the walk ends the walk, not the discovery.
WalkTimesOut ==
    /\ phase = "discovering" /\ NextGroup /\ Fault
    /\ UNCHANGED <<polled, topologyVars>>

\* _start_event_task: the task takes self._client as it is at that moment.
StartEventTask == listener' = IF listener = 0 THEN client ELSE listener

DiscoveryEnds ==
    /\ phase = "discovering" /\ ~GroupsLeft
    /\ discovered' = TRUE /\ StartEventTask
    /\ phase' = "polling" /\ cursor' = 1
    /\ UNCHANGED <<entryVars, origin, mine, polled, clientVars, found, refused,
                   dataVars, backlog, panelVars, linkVars>>

-----------------------------------------------------------------------------
(* The poll, one group a request, and the snapshot it returns.             *)

\* The reply comes after the events sent before it, on the same connection.
Drained == listener = mine => backlog[mine] = <<>>

Polls ==
    /\ phase = "polling" /\ NextGroup /\ Drained
    /\ polled' = IF cursor \in found THEN [polled EXCEPT ![cursor] = version[cursor]]
                 ELSE polled
    /\ UNCHANGED <<topologyVars, faults>>

\* The poll of one group is refused: what self.data has of it is kept.
PollRefused ==
    /\ phase = "polling" /\ NextGroup /\ cursor \in found /\ Fault
    /\ polled' = [polled EXCEPT ![cursor] = shown[cursor]]
    /\ UNCHANGED topologyVars

\* "Preserve any last_event already captured by the event task."
LastEventForgotten == 0

LastEventPreserved == lastEvent

\* The system status is read last, then self.data is replaced.
Publishes ==
    /\ phase = "polling" /\ ~GroupsLeft /\ Answers /\ Drained
    /\ phase' = "idle"
    /\ shown' = [g \in Groups |-> IF g \in found THEN polled[g] ELSE 0]
    /\ lastEvent' = LastEventPreserved
    /\ hasData' = TRUE /\ armed' = TRUE
    /\ setup' = IF setup = "first" THEN "up" ELSE setup
    /\ UNCHANGED <<origin, cursor, mine, polled, clientVars, topologyVars, eventVars,
                   panelVars, linkVars>>

-----------------------------------------------------------------------------
(* The event task: _run_event_listener, _apply_event.                      *)

\* It patches the snapshot, which also restarts the timer.  Before the first
\* snapshot an event is lost; an undiscovered object is shown all the same.
Applies(e) ==
    IF hasData
    THEN /\ lastEvent' = e.number
         /\ shown' = IF e.group \in Silent THEN shown
                     ELSE [shown EXCEPT ![e.group] = e.number]
         /\ armed' = TRUE
    ELSE UNCHANGED <<lastEvent, shown, armed>>

TakesEvent ==
    /\ listener # 0 /\ backlog[listener] # <<>>
    /\ Applies(Head(backlog[listener]))
    /\ backlog' = [backlog EXCEPT ![listener] = Tail(@)]
    /\ UNCHANGED <<setup, hasData, updateVars, clientVars, topologyVars, listener,
                   panelVars, linkVars>>

-----------------------------------------------------------------------------
(* Unloading the entry: async_unload_entry, async_shutdown.                *)

\* async_shutdown of a coordinator whose first refresh failed starts here
\* too, with setup already "cancelling".
Unload ==
    /\ setup = "up" /\ setup' = "cancelling"
    /\ UNCHANGED <<armed, updateVars, clientVars, topologyVars, dataVars, eventVars,
                   panelVars, linkVars>>

\* _cancel_event_task.
EventTaskRuns == UNCHANGED listener

CancelEventTask == listener' = 0

\* The event task is gone; _drop_client begins.
ShutdownDrops ==
    /\ setup = "cancelling" /\ setup' = "closing"
    /\ CancelEventTask
    /\ shutDrop' = client /\ client' = 0
    /\ UNCHANGED <<armed, updateVars, updateDrop, open, nextClient, topologyVars,
                   dataVars, backlog, panelVars, linkVars>>

\* super().async_shutdown(): no further update starts.  The entry is
\* unloaded, or waits for Home Assistant to set it up again.
ShutdownEnds ==
    /\ setup = "closing"
    /\ setup' = IF hasData THEN "down" ELSE "retry"
    /\ open' = open \ {shutDrop} /\ shutDrop' = 0
    /\ armed' = FALSE
    /\ UNCHANGED <<updateVars, client, updateDrop, nextClient, topologyVars, dataVars,
                   eventVars, panelVars, linkVars>>

\* Home Assistant cancels the background tasks of an unloaded entry, an
\* update its timer started among them; connect() closes what it opened.
UpdateCancelled ==
    /\ setup = "down" /\ origin = "timer" /\ phase # "idle"
    /\ phase' = "idle"
    /\ open' = open \ {updateDrop} /\ updateDrop' = 0
    /\ UNCHANGED <<entryVars, origin, cursor, mine, polled, client, shutDrop, nextClient,
                   topologyVars, dataVars, eventVars, panelVars, linkVars>>

\* Home Assistant sets the entry up again, with a new coordinator.
Retry ==
    /\ setup = "retry"
    /\ setup' = "first" /\ armed' = TRUE
    /\ client' = 0 /\ updateDrop' = 0 /\ shutDrop' = 0
    /\ discovered' = FALSE /\ found' = {} /\ refused' = {}
    /\ listener' = 0 /\ hasData' = FALSE /\ shown' = Unread /\ lastEvent' = 0
    /\ UNCHANGED <<updateVars, open, nextClient, backlog, panelVars, linkVars>>

-----------------------------------------------------------------------------
(* The panel and the network.                                              *)

PanelChanges(g) ==
    /\ changes < MaxChanges
    /\ changes' = changes + 1
    /\ version' = [version EXCEPT ![g] = changes + 1]
    /\ backlog' = [c \in Clients |->
                     IF c \in open \cap alive
                     THEN Append(backlog[c], [group |-> g, number |-> changes + 1])
                     ELSE backlog[c]]
    /\ UNCHANGED <<entryVars, updateVars, clientVars, topologyVars, dataVars, listener,
                   linkVars>>

LinkBreaks ==
    /\ Fault
    /\ \E c \in open \cap alive : alive' = alive \ {c}
    /\ UNCHANGED <<entryVars, updateVars, clientVars, topologyVars, dataVars, eventVars,
                   panelVars>>

-----------------------------------------------------------------------------
UpdateGoesOn ==
    \/ Connected \/ Dropped
    \/ Discovers \/ DiscoveryEnds
    \/ Polls \/ Publishes
    \/ (~Answers /\ RequestFails)

Next ==
    \/ FirstRefresh \/ TimerFires \/ RequestRefresh
    \/ UpdateGoesOn
    \/ ConnectFails \/ HandshakeFails \/ RequestFails
    \/ SystemInformationRefused \/ DiscoveryRefused \/ WalkTimesOut \/ PollRefused
    \/ TakesEvent
    \/ Unload \/ ShutdownDrops \/ ShutdownEnds \/ UpdateCancelled \/ Retry
    \/ \E g \in Groups : PanelChanges(g)
    \/ LinkBreaks

Spec == Init /\ [][Next]_vars

(* asyncio runs every coroutine that is ready and fires every timer, a     *)
(* request is answered or times out, and Home Assistant retries a set-up.  *)
Fairness ==
    /\ WF_vars(FirstRefresh) /\ WF_vars(TimerFires)
    /\ WF_vars(UpdateGoesOn)
    /\ WF_vars(TakesEvent)
    /\ WF_vars(ShutdownDrops) /\ WF_vars(ShutdownEnds)
    /\ WF_vars(Retry)

FairSpec == Spec /\ Fairness

-----------------------------------------------------------------------------
(* Properties.                                                             *)

\* "We keep one client per coordinator": while the entry is set up, a client
\* that failed is closed before the next one connects, so that the panel,
\* which serves one session, is not held by a forgotten connection.
OneClientAtATime ==
    setup \in {"first", "up", "retry"} => Cardinality(open) <= 1

\* "the poll path doesn't see push events so it must not overwrite it":
\* last_event never goes back, whatever order polls and events come in.
LastEventKept == [][setup # "retry" => lastEvent' >= lastEvent]_vars

\* Unloading cancels the event task, and no update under way starts another.
ListenerStopsAtShutdown == setup \in {"closing", "down"} => listener = 0

\* Once faults and changes stop, what is shown of the discovered objects
\* agrees with the panel for good, whatever events were lost, overwritten by
\* a poll or taken late, until the entry is unloaded or awaits credentials.
SettlesOnPanel ==
    <>[](\/ setup \in {"down", "failed"}
         \/ ~armed
         \/ \A g \in found : shown[g] = version[g])

\* "If the client gets dropped [...] we exit; the next _async_update_data
\* will reconnect and respawn this task": between updates, the event task
\* listens to the client in use.
ListenerFollowsClient ==
    setup = "up" /\ phase = "idle" /\ client # 0 => listener = client

\* async_shutdown "closes the OmniClient socket, so HA's reload doesn't leak
\* a background coroutine or a half-open TCP connection".
ShutdownClosesEverything == setup = "down" /\ phase = "idle" => open = {}
=============================================================================
