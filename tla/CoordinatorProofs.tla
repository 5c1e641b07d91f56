-------------------------- MODULE CoordinatorProofs --------------------------
(***************************************************************************)
(* Proofs about Coordinator for every number of groups, changes and        *)
(* faults: one lemma per part of the inductive invariant, each with one    *)
(* step per action, and the theorems that follow.                          *)
(***************************************************************************)
EXTENDS CoordinatorInvariant, FiniteSetTheorems, SequenceTheorems, TLAPS


-----------------------------------------------------------------------------
(* The inductive invariant, part by part.                                  *)

\* Nothing has been read.
LEMMA UnreadTyped == Unread \in [Groups -> Changes]
BY CoordinatorAssumption DEF CoordinatorAssumption, Unread, Changes

\* The numbers of waiting events are numbers of changes.
LEMMA NumbersTyped ==
    ASSUME IInv
    PROVE  \A c \in Clients : \A i \in 1 .. Len(backlog[c]) : backlog[c][i].number \in Nat
<1>. SUFFICES ASSUME NEW c \in Clients, NEW i \in 1 .. Len(backlog[c])
              PROVE  backlog[c][i].number \in Nat
  OBVIOUS
<1>1. backlog[c] \in Seq(Event)
  BY DEF IInv, TypeOK, DataTypes
<1>2. backlog[c][i] \in Event
  BY <1>1
<1>. QED BY <1>2 DEF Event, Changes

\* Where the entry and the update stand, and the flags.
LEMMA ControlPreserved ==
    ASSUME IInv, [Next]_vars
    PROVE  ControlTypes'
<1>. USE CoordinatorAssumption DEF CoordinatorAssumption
<1>1. CASE FirstRefresh
  BY <1>1 DEF IInv, TypeOK, ControlTypes, FirstRefresh, StartsWith, Unread,
      entryVars, clientVars, topologyVars, dataVars, eventVars, panelVars, linkVars
<1>2. CASE TimerFires
  BY <1>2 DEF IInv, TypeOK, ControlTypes, TimerFires, StartsWith, Unread, entryVars,
      clientVars, topologyVars, dataVars, eventVars, panelVars, linkVars
<1>3. CASE RequestRefresh
  BY <1>3 DEF IInv, TypeOK, ControlTypes, RequestRefresh, StartsWith, Unread,
      entryVars, clientVars, topologyVars, dataVars, eventVars, panelVars, linkVars
<1>4. CASE Connected
  BY <1>4 DEF IInv, TypeOK, ControlTypes, Connected, entryVars, topologyVars,
      dataVars, eventVars, panelVars
<1>5. CASE Dropped
  BY <1>5 DEF IInv, TypeOK, ControlTypes, Dropped, Raises, topologyVars, dataVars,
      eventVars, panelVars, linkVars
<1>6. CASE Discovers
  BY <1>6 DEF IInv, TypeOK, ControlTypes, Discovers, NextGroup, GroupsLeft, Answers,
      entryVars, clientVars, dataVars, eventVars, panelVars
<1>7. CASE DiscoveryEnds
  BY <1>7 DEF IInv, TypeOK, ControlTypes, DiscoveryEnds, GroupsLeft, StartEventTask,
      entryVars, clientVars, dataVars, panelVars, linkVars
<1>8. CASE Polls
  BY <1>8 DEF IInv, TypeOK, ControlTypes, Polls, NextGroup, Drained, topologyVars,
      GroupsLeft, Answers, entryVars, clientVars, dataVars, eventVars, panelVars
<1>9. CASE Publishes
  BY <1>9 DEF IInv, TypeOK, ControlTypes, Publishes, GroupsLeft, Answers, Drained,
      LastEventPreserved, clientVars, topologyVars, eventVars, panelVars, linkVars
<1>10. CASE ConnectFails
  BY <1>10 DEF IInv, TypeOK, ControlTypes, ConnectFails, Fault, Raises, clientVars,
      topologyVars, dataVars, eventVars, panelVars
<1>11. CASE HandshakeFails
  <2>1. /\ armed' = FALSE /\ phase' = "idle" /\ faults' \in 0 .. MaxFaults
        /\ UNCHANGED <<discovered, hasData, origin, cursor>>
    BY <1>11 DEF HandshakeFails, Fault, topologyVars, dataVars, IInv, TypeOK, ControlTypes
  <2>2. setup' \in {setup, "failed"}
    BY <1>11 DEF HandshakeFails
  <2>. QED BY <2>1, <2>2 DEF IInv, TypeOK, ControlTypes
<1>12. CASE RequestFails
  BY <1>12 DEF IInv, TypeOK, ControlTypes, RequestFails, Answers, Fault, DropClient,
      entryVars, topologyVars, dataVars, eventVars, panelVars
<1>13. CASE SystemInformationRefused
  BY <1>13 DEF IInv, TypeOK, ControlTypes, SystemInformationRefused, Answers, Fault,
      Raises, clientVars, topologyVars, dataVars, eventVars, panelVars
<1>14. CASE DiscoveryRefused
  BY <1>14 DEF IInv, TypeOK, ControlTypes, DiscoveryRefused, NextGroup, Fault,
      GroupsLeft, Answers, entryVars, clientVars, dataVars, eventVars, panelVars
<1>15. CASE WalkTimesOut
  BY <1>15 DEF IInv, TypeOK, ControlTypes, WalkTimesOut, NextGroup, Fault,
      topologyVars, GroupsLeft, Answers, entryVars, clientVars, dataVars, eventVars,
      panelVars
<1>16. CASE PollRefused
  BY <1>16 DEF IInv, TypeOK, ControlTypes, PollRefused, NextGroup, Fault,
      topologyVars, GroupsLeft, Answers, entryVars, clientVars, dataVars, eventVars,
      panelVars
<1>17. CASE TakesEvent
  BY <1>17 DEF IInv, TypeOK, ControlTypes, TakesEvent, Applies, updateVars,
      clientVars, topologyVars, panelVars, linkVars
<1>18. CASE Unload
  BY <1>18 DEF IInv, TypeOK, ControlTypes, Unload, updateVars, clientVars,
      topologyVars, dataVars, eventVars, panelVars, linkVars
<1>19. CASE ShutdownDrops
  BY <1>19 DEF IInv, TypeOK, ControlTypes, ShutdownDrops, CancelEventTask,
      updateVars, topologyVars, dataVars, panelVars, linkVars
<1>20. CASE ShutdownEnds
  BY <1>20 DEF IInv, TypeOK, ControlTypes, ShutdownEnds, updateVars, topologyVars,
      dataVars, eventVars, panelVars, linkVars
<1>21. CASE UpdateCancelled
  BY <1>21 DEF IInv, TypeOK, ControlTypes, UpdateCancelled, entryVars, topologyVars,
      dataVars, eventVars, panelVars, linkVars
<1>22. CASE Retry
  BY <1>22 DEF IInv, TypeOK, ControlTypes, Retry, Unread, updateVars, panelVars,
      linkVars
<1>23. ASSUME NEW g \in Groups, PanelChanges(g)
      PROVE  ControlTypes'
  BY <1>23 DEF IInv, TypeOK, ControlTypes, PanelChanges, entryVars, updateVars,
      clientVars, topologyVars, dataVars, linkVars
<1>24. CASE LinkBreaks
  BY <1>24 DEF IInv, TypeOK, ControlTypes, LinkBreaks, Fault, entryVars, updateVars,
      clientVars, topologyVars, dataVars, eventVars, panelVars
<1>25. CASE UNCHANGED vars
  BY <1>25 DEF IInv, TypeOK, ControlTypes, vars, entryVars, updateVars, clientVars,
      topologyVars, dataVars, eventVars, panelVars, linkVars
<1>. QED
  BY <1>1, <1>2, <1>3, <1>4, <1>5, <1>6, <1>7, <1>8, <1>9, <1>10, <1>11, <1>12,
      <1>13, <1>14, <1>15, <1>16, <1>17, <1>18, <1>19, <1>20, <1>21, <1>22, <1>23,
      <1>24, <1>25
  DEF Next, UpdateGoesOn

\* The clients that are held, open and listened to.
LEMMA ClientsPreserved ==
    ASSUME IInv, [Next]_vars
    PROVE  ClientTypes'
<1>. USE CoordinatorAssumption DEF CoordinatorAssumption
<1>1. CASE FirstRefresh
  BY <1>1 DEF IInv, TypeOK, ClientTypes, Clients, FirstRefresh, StartsWith, Unread,
      entryVars, clientVars, topologyVars, dataVars, eventVars, panelVars, linkVars
<1>2. CASE TimerFires
  BY <1>2 DEF IInv, TypeOK, ClientTypes, Clients, TimerFires, StartsWith, Unread,
      entryVars, clientVars, topologyVars, dataVars, eventVars, panelVars, linkVars
<1>3. CASE RequestRefresh
  BY <1>3 DEF IInv, TypeOK, ClientTypes, Clients, RequestRefresh, StartsWith,
      Unread, entryVars, clientVars, topologyVars, dataVars, eventVars, panelVars,
      linkVars
<1>4. CASE Connected
  BY <1>4 DEF IInv, TypeOK, ClientTypes, Clients, Connected, entryVars,
      topologyVars, dataVars, eventVars, panelVars
<1>5. CASE Dropped
  BY <1>5 DEF IInv, TypeOK, ClientTypes, Clients, Dropped, Raises, topologyVars,
      dataVars, eventVars, panelVars, linkVars
<1>6. CASE Discovers
  BY <1>6 DEF IInv, TypeOK, ClientTypes, Clients, Discovers, NextGroup, GroupsLeft,
      Answers, entryVars, clientVars, dataVars, eventVars, panelVars
<1>7. CASE DiscoveryEnds
  BY <1>7 DEF IInv, TypeOK, ClientTypes, Clients, DiscoveryEnds, GroupsLeft,
      StartEventTask, entryVars, clientVars, dataVars, panelVars, linkVars
<1>8. CASE Polls
  BY <1>8 DEF IInv, TypeOK, ClientTypes, Clients, Polls, NextGroup, Drained,
      topologyVars, GroupsLeft, Answers, entryVars, clientVars, dataVars, eventVars,
      panelVars
<1>9. CASE Publishes
  BY <1>9 DEF IInv, TypeOK, ClientTypes, Clients, Publishes, GroupsLeft, Answers,
      Drained, LastEventPreserved, clientVars, topologyVars, eventVars, panelVars,
      linkVars
<1>10. CASE ConnectFails
  BY <1>10 DEF IInv, TypeOK, ClientTypes, Clients, ConnectFails, Fault, Raises,
      clientVars, topologyVars, dataVars, eventVars, panelVars
<1>11. CASE HandshakeFails
  BY <1>11 DEF IInv, TypeOK, ClientTypes, Clients, HandshakeFails, Fault,
      clientVars, topologyVars, dataVars, eventVars, panelVars
<1>12. CASE RequestFails
  BY <1>12 DEF IInv, TypeOK, ClientTypes, Clients, RequestFails, Answers, Fault,
      DropClient, entryVars, topologyVars, dataVars, eventVars, panelVars
<1>13. CASE SystemInformationRefused
  BY <1>13 DEF IInv, TypeOK, ClientTypes, Clients, SystemInformationRefused,
      Answers, Fault, Raises, clientVars, topologyVars, dataVars, eventVars,
      panelVars
<1>14. CASE DiscoveryRefused
  BY <1>14 DEF IInv, TypeOK, ClientTypes, Clients, DiscoveryRefused, NextGroup,
      Fault, GroupsLeft, Answers, entryVars, clientVars, dataVars, eventVars,
      panelVars
<1>15. CASE WalkTimesOut
  BY <1>15 DEF IInv, TypeOK, ClientTypes, Clients, WalkTimesOut, NextGroup, Fault,
      topologyVars, GroupsLeft, Answers, entryVars, clientVars, dataVars, eventVars,
      panelVars
<1>16. CASE PollRefused
  BY <1>16 DEF IInv, TypeOK, ClientTypes, Clients, PollRefused, NextGroup, Fault,
      topologyVars, GroupsLeft, Answers, entryVars, clientVars, dataVars, eventVars,
      panelVars
<1>17. CASE TakesEvent
  BY <1>17 DEF IInv, TypeOK, ClientTypes, Clients, TakesEvent, Applies, updateVars,
      clientVars, topologyVars, panelVars, linkVars
<1>18. CASE Unload
  BY <1>18 DEF IInv, TypeOK, ClientTypes, Clients, Unload, updateVars, clientVars,
      topologyVars, dataVars, eventVars, panelVars, linkVars
<1>19. CASE ShutdownDrops
  BY <1>19 DEF IInv, TypeOK, ClientTypes, Clients, ShutdownDrops, CancelEventTask,
      updateVars, topologyVars, dataVars, panelVars, linkVars
<1>20. CASE ShutdownEnds
  BY <1>20 DEF IInv, TypeOK, ClientTypes, Clients, ShutdownEnds, updateVars,
      topologyVars, dataVars, eventVars, panelVars, linkVars
<1>21. CASE UpdateCancelled
  BY <1>21 DEF IInv, TypeOK, ClientTypes, Clients, UpdateCancelled, entryVars,
      topologyVars, dataVars, eventVars, panelVars, linkVars
<1>22. CASE Retry
  BY <1>22 DEF IInv, TypeOK, ClientTypes, Clients, Retry, Unread, updateVars,
      panelVars, linkVars
<1>23. ASSUME NEW g \in Groups, PanelChanges(g)
      PROVE  ClientTypes'
  BY <1>23 DEF IInv, TypeOK, ClientTypes, Clients, PanelChanges, entryVars,
      updateVars, clientVars, topologyVars, dataVars, linkVars
<1>24. CASE LinkBreaks
  BY <1>24 DEF IInv, TypeOK, ClientTypes, Clients, LinkBreaks, Fault, entryVars,
      updateVars, clientVars, topologyVars, dataVars, eventVars, panelVars
<1>25. CASE UNCHANGED vars
  BY <1>25 DEF IInv, TypeOK, ClientTypes, Clients, vars, entryVars, updateVars,
      clientVars, topologyVars, dataVars, eventVars, panelVars, linkVars
<1>. QED
  BY <1>1, <1>2, <1>3, <1>4, <1>5, <1>6, <1>7, <1>8, <1>9, <1>10, <1>11, <1>12,
      <1>13, <1>14, <1>15, <1>16, <1>17, <1>18, <1>19, <1>20, <1>21, <1>22, <1>23,
      <1>24, <1>25
  DEF Next, UpdateGoesOn

\* The topology, the snapshot, the events and the panel.
LEMMA DataPreserved ==
    ASSUME IInv, [Next]_vars
    PROVE  DataTypes'
<1>. USE CoordinatorAssumption DEF CoordinatorAssumption
<1>1. CASE FirstRefresh
  <2>1. polled' \in [Groups -> Changes]
    BY <1>1, UnreadTyped DEF FirstRefresh, StartsWith
  <2>2. UNCHANGED <<found, refused, backlog, shown, version, lastEvent, changes>>
    BY <1>1 DEF FirstRefresh, StartsWith, topologyVars, dataVars,
      eventVars, panelVars
  <2>. QED BY <2>1, <2>2 DEF IInv, TypeOK, DataTypes
<1>2. CASE TimerFires
  <2>1. polled' \in [Groups -> Changes]
    BY <1>2, UnreadTyped DEF TimerFires, StartsWith
  <2>2. UNCHANGED <<found, refused, backlog, shown, version, lastEvent, changes>>
    BY <1>2 DEF TimerFires, StartsWith, topologyVars, dataVars,
      eventVars, panelVars
  <2>. QED BY <2>1, <2>2 DEF IInv, TypeOK, DataTypes
<1>3. CASE RequestRefresh
  <2>1. polled' \in [Groups -> Changes]
    BY <1>3, UnreadTyped DEF RequestRefresh, StartsWith
  <2>2. UNCHANGED <<found, refused, backlog, shown, version, lastEvent, changes>>
    BY <1>3 DEF RequestRefresh, StartsWith, topologyVars, dataVars,
      eventVars, panelVars
  <2>. QED BY <2>1, <2>2 DEF IInv, TypeOK, DataTypes
<1>4. CASE Connected
  BY <1>4 DEF IInv, TypeOK, ControlTypes, ClientTypes, DataTypes, Changes, Groups,
      Clients, Event, Unread, Connected, entryVars, topologyVars, dataVars,
      eventVars, panelVars
<1>5. CASE Dropped
  BY <1>5 DEF IInv, TypeOK, ControlTypes, ClientTypes, DataTypes, Changes, Groups,
      Clients, Event, Unread, Dropped, Raises, topologyVars, dataVars, eventVars,
      panelVars, linkVars
<1>6. CASE Discovers
  <2>1. cursor \in Groups
    BY <1>6 DEF Discovers, NextGroup, GroupsLeft, Groups, IInv, TypeOK, ControlTypes
  <2>2. UNCHANGED <<backlog, polled, shown, version, lastEvent, changes>>
    BY <1>6 DEF Discovers, NextGroup, dataVars, eventVars, panelVars
  <2>3. found' \subseteq found \cup {cursor} /\ refused' \subseteq refused \cup {cursor}
    BY <1>6 DEF Discovers
  <2>. QED BY <2>1, <2>2, <2>3 DEF IInv, TypeOK, DataTypes
<1>7. CASE DiscoveryEnds
  BY <1>7 DEF IInv, TypeOK, ControlTypes, ClientTypes, DataTypes, Changes, Groups,
      Clients, Event, Unread, DiscoveryEnds, GroupsLeft, StartEventTask, entryVars,
      clientVars, dataVars, panelVars, linkVars
<1>8. CASE Polls
  BY <1>8 DEF IInv, TypeOK, ControlTypes, ClientTypes, DataTypes, Changes, Groups,
      Clients, Event, Unread, Polls, NextGroup, Drained, topologyVars, GroupsLeft,
      Answers, entryVars, clientVars, dataVars, eventVars, panelVars
<1>9. CASE Publishes
  <2>1. shown' \in [Groups -> Changes]
    BY <1>9 DEF Publishes, IInv, TypeOK, DataTypes, Changes
  <2>2. UNCHANGED <<found, refused, backlog, polled, version, lastEvent, changes>>
    BY <1>9 DEF Publishes, LastEventPreserved, topologyVars, eventVars, panelVars
  <2>. QED BY <2>1, <2>2 DEF IInv, TypeOK, DataTypes
<1>10. CASE ConnectFails
  BY <1>10 DEF IInv, TypeOK, ControlTypes, ClientTypes, DataTypes, Changes, Groups,
      Clients, Event, Unread, ConnectFails, Fault, Raises, clientVars, topologyVars,
      dataVars, eventVars, panelVars
<1>11. CASE HandshakeFails
  BY <1>11 DEF IInv, TypeOK, ControlTypes, ClientTypes, DataTypes, Changes, Groups,
      Clients, Event, Unread, HandshakeFails, Fault, clientVars, topologyVars,
      dataVars, eventVars, panelVars
<1>12. CASE RequestFails
  BY <1>12 DEF IInv, TypeOK, ControlTypes, ClientTypes, DataTypes, Changes, Groups,
      Clients, Event, Unread, RequestFails, Answers, Fault, DropClient, entryVars,
      topologyVars, dataVars, eventVars, panelVars
<1>13. CASE SystemInformationRefused
  BY <1>13 DEF IInv, TypeOK, ControlTypes, ClientTypes, DataTypes, Changes, Groups,
      Clients, Event, Unread, SystemInformationRefused, Answers, Fault, Raises,
      clientVars, topologyVars, dataVars, eventVars, panelVars
<1>14. CASE DiscoveryRefused
  <2>1. cursor \in Groups
    BY <1>14 DEF DiscoveryRefused, NextGroup, GroupsLeft, Groups, IInv, TypeOK, ControlTypes
  <2>2. UNCHANGED <<backlog, polled, shown, version, lastEvent, changes>>
    BY <1>14 DEF DiscoveryRefused, NextGroup, dataVars, eventVars, panelVars
  <2>3. found' \subseteq found \cup {cursor} /\ refused' \subseteq refused \cup {cursor}
    BY <1>14 DEF DiscoveryRefused
  <2>. QED BY <2>1, <2>2, <2>3 DEF IInv, TypeOK, DataTypes
<1>15. CASE WalkTimesOut
  BY <1>15 DEF IInv, TypeOK, ControlTypes, ClientTypes, DataTypes, Changes, Groups,
      Clients, Event, Unread, WalkTimesOut, NextGroup, Fault, topologyVars,
      GroupsLeft, Answers, entryVars, clientVars, dataVars, eventVars, panelVars
<1>16. CASE PollRefused
  BY <1>16 DEF IInv, TypeOK, ControlTypes, ClientTypes, DataTypes, Changes, Groups,
      Clients, Event, Unread, PollRefused, NextGroup, Fault, topologyVars,
      GroupsLeft, Answers, entryVars, clientVars, dataVars, eventVars, panelVars
<1>17. CASE TakesEvent
  <2>. DEFINE e == Head(backlog[listener])
  <2>1. listener \in Clients /\ backlog[listener] \in Seq(Event) /\ backlog[listener] # <<>>
    BY <1>17 DEF TakesEvent, IInv, TypeOK, ClientTypes, DataTypes
  <2>2. e \in Event /\ Tail(backlog[listener]) \in Seq(Event)
    BY <2>1
  <2>3. e.group \in Groups /\ e.number \in Changes
    BY <2>2 DEF Event
  <2>4. backlog' \in [Clients -> Seq(Event)]
    BY <1>17, <2>1, <2>2 DEF TakesEvent, IInv, TypeOK, DataTypes
  <2>5. lastEvent' \in Changes /\ shown' \in [Groups -> Changes]
    BY <1>17, <2>3 DEF TakesEvent, Applies, IInv, TypeOK, DataTypes
  <2>6. UNCHANGED <<found, refused, polled, version, changes>>
    BY <1>17 DEF TakesEvent, updateVars, topologyVars, panelVars
  <2>. QED BY <2>4, <2>5, <2>6 DEF IInv, TypeOK, DataTypes
<1>18. CASE Unload
  BY <1>18 DEF IInv, TypeOK, ControlTypes, ClientTypes, DataTypes, Changes, Groups,
      Clients, Event, Unread, Unload, updateVars, clientVars, topologyVars,
      dataVars, eventVars, panelVars, linkVars
<1>19. CASE ShutdownDrops
  BY <1>19 DEF IInv, TypeOK, ControlTypes, ClientTypes, DataTypes, Changes, Groups,
      Clients, Event, Unread, ShutdownDrops, CancelEventTask, updateVars,
      topologyVars, dataVars, panelVars, linkVars
<1>20. CASE ShutdownEnds
  BY <1>20 DEF IInv, TypeOK, ControlTypes, ClientTypes, DataTypes, Changes, Groups,
      Clients, Event, Unread, ShutdownEnds, updateVars, topologyVars, dataVars,
      eventVars, panelVars, linkVars
<1>21. CASE UpdateCancelled
  BY <1>21 DEF IInv, TypeOK, ControlTypes, ClientTypes, DataTypes, Changes, Groups,
      Clients, Event, Unread, UpdateCancelled, entryVars, topologyVars, dataVars,
      eventVars, panelVars, linkVars
<1>22. CASE Retry
  <2>1. shown' \in [Groups -> Changes] /\ lastEvent' \in Changes
    BY <1>22, UnreadTyped DEF Retry, Changes
  <2>2. found' = {} /\ refused' = {} /\ UNCHANGED <<backlog, polled, version, changes>>
    BY <1>22 DEF Retry, updateVars, panelVars
  <2>. QED BY <2>1, <2>2 DEF IInv, TypeOK, DataTypes
<1>23. ASSUME NEW g \in Groups, PanelChanges(g)
      PROVE  DataTypes'
  <2>1. changes + 1 \in Changes /\ changes' = changes + 1
    BY <1>23 DEF PanelChanges, IInv, TypeOK, DataTypes, Changes
  <2>2. [group |-> g, number |-> changes + 1] \in Event
    BY <2>1 DEF Event
  <2>3. \A c \in Clients :
          Append(backlog[c], [group |-> g, number |-> changes + 1]) \in Seq(Event)
    BY <2>2 DEF IInv, TypeOK, DataTypes
  <2>4. backlog' \in [Clients -> Seq(Event)]
    BY <1>23, <2>3 DEF PanelChanges, IInv, TypeOK, DataTypes
  <2>5. version' \in [Groups -> Changes]
    BY <1>23, <2>1 DEF PanelChanges, IInv, TypeOK, DataTypes
  <2>6. UNCHANGED <<found, refused, polled, shown, lastEvent>>
    BY <1>23 DEF PanelChanges, updateVars, topologyVars, dataVars
  <2>. QED BY <2>1, <2>4, <2>5, <2>6 DEF IInv, TypeOK, DataTypes
<1>24. CASE LinkBreaks
  BY <1>24 DEF IInv, TypeOK, ControlTypes, ClientTypes, DataTypes, Changes, Groups,
      Clients, Event, Unread, LinkBreaks, Fault, entryVars, updateVars, clientVars,
      topologyVars, dataVars, eventVars, panelVars
<1>25. CASE UNCHANGED vars
  BY <1>25 DEF IInv, TypeOK, ControlTypes, ClientTypes, DataTypes, Changes, Groups,
      Clients, Event, Unread, vars, entryVars, updateVars, clientVars, topologyVars,
      dataVars, eventVars, panelVars, linkVars
<1>. QED
  BY <1>1, <1>2, <1>3, <1>4, <1>5, <1>6, <1>7, <1>8, <1>9, <1>10, <1>11, <1>12,
      <1>13, <1>14, <1>15, <1>16, <1>17, <1>18, <1>19, <1>20, <1>21, <1>22, <1>23,
      <1>24, <1>25
  DEF Next, UpdateGoesOn

\* Updates run for a first refresh or for an entry that was set up.
LEMMA UpdatesPreserved ==
    ASSUME IInv, [Next]_vars
    PROVE  UpdatesAreOwed'
<1>1. CASE FirstRefresh
  BY <1>1 DEF IInv, UpdatesAreOwed, TaskIsDiscovered, FirstRefresh, StartsWith,
      Unread, entryVars, clientVars, topologyVars, dataVars, eventVars, panelVars,
      linkVars
<1>2. CASE TimerFires
  BY <1>2 DEF IInv, UpdatesAreOwed, TaskIsDiscovered, TimerFires, StartsWith,
      Unread, entryVars, clientVars, topologyVars, dataVars, eventVars, panelVars,
      linkVars
<1>3. CASE RequestRefresh
  BY <1>3 DEF IInv, UpdatesAreOwed, TaskIsDiscovered, RequestRefresh, StartsWith,
      Unread, entryVars, clientVars, topologyVars, dataVars, eventVars, panelVars,
      linkVars
<1>4. CASE Connected
  BY <1>4 DEF IInv, UpdatesAreOwed, TaskIsDiscovered, Connected, entryVars,
      topologyVars, dataVars, eventVars, panelVars
<1>5. CASE Dropped
  BY <1>5 DEF IInv, UpdatesAreOwed, TaskIsDiscovered, Dropped, Raises, topologyVars,
      dataVars, eventVars, panelVars, linkVars
<1>6. CASE Discovers
  BY <1>6 DEF IInv, UpdatesAreOwed, TaskIsDiscovered, Discovers, NextGroup,
      GroupsLeft, Answers, entryVars, clientVars, dataVars, eventVars, panelVars
<1>7. CASE DiscoveryEnds
  BY <1>7 DEF IInv, UpdatesAreOwed, TaskIsDiscovered, DiscoveryEnds, GroupsLeft,
      StartEventTask, entryVars, clientVars, dataVars, panelVars, linkVars
<1>8. CASE Polls
  BY <1>8 DEF IInv, UpdatesAreOwed, TaskIsDiscovered, Polls, NextGroup, Drained,
      topologyVars, GroupsLeft, Answers, entryVars, clientVars, dataVars, eventVars,
      panelVars
<1>9. CASE Publishes
  BY <1>9 DEF IInv, UpdatesAreOwed, TaskIsDiscovered, Publishes, GroupsLeft,
      Answers, Drained, LastEventPreserved, clientVars, topologyVars, eventVars,
      panelVars, linkVars
<1>10. CASE ConnectFails
  BY <1>10 DEF IInv, UpdatesAreOwed, TaskIsDiscovered, ConnectFails, Fault, Raises,
      clientVars, topologyVars, dataVars, eventVars, panelVars
<1>11. CASE HandshakeFails
  BY <1>11 DEF IInv, UpdatesAreOwed, TaskIsDiscovered, HandshakeFails, Fault,
      clientVars, topologyVars, dataVars, eventVars, panelVars
<1>12. CASE RequestFails
  BY <1>12 DEF IInv, UpdatesAreOwed, TaskIsDiscovered, RequestFails, Answers, Fault,
      DropClient, entryVars, topologyVars, dataVars, eventVars, panelVars
<1>13. CASE SystemInformationRefused
  BY <1>13 DEF IInv, UpdatesAreOwed, TaskIsDiscovered, SystemInformationRefused,
      Answers, Fault, Raises, clientVars, topologyVars, dataVars, eventVars,
      panelVars
<1>14. CASE DiscoveryRefused
  BY <1>14 DEF IInv, UpdatesAreOwed, TaskIsDiscovered, DiscoveryRefused, NextGroup,
      Fault, GroupsLeft, Answers, entryVars, clientVars, dataVars, eventVars,
      panelVars
<1>15. CASE WalkTimesOut
  BY <1>15 DEF IInv, UpdatesAreOwed, TaskIsDiscovered, WalkTimesOut, NextGroup,
      Fault, topologyVars, GroupsLeft, Answers, entryVars, clientVars, dataVars,
      eventVars, panelVars
<1>16. CASE PollRefused
  BY <1>16 DEF IInv, UpdatesAreOwed, TaskIsDiscovered, PollRefused, NextGroup,
      Fault, topologyVars, GroupsLeft, Answers, entryVars, clientVars, dataVars,
      eventVars, panelVars
<1>17. CASE TakesEvent
  BY <1>17 DEF IInv, UpdatesAreOwed, TaskIsDiscovered, TakesEvent, Applies,
      updateVars, clientVars, topologyVars, panelVars, linkVars
<1>18. CASE Unload
  BY <1>18 DEF IInv, UpdatesAreOwed, TaskIsDiscovered, Unload, updateVars,
      clientVars, topologyVars, dataVars, eventVars, panelVars, linkVars
<1>19. CASE ShutdownDrops
  BY <1>19 DEF IInv, UpdatesAreOwed, TaskIsDiscovered, ShutdownDrops,
      CancelEventTask, updateVars, topologyVars, dataVars, panelVars, linkVars
<1>20. CASE ShutdownEnds
  BY <1>20 DEF IInv, UpdatesAreOwed, TaskIsDiscovered, ShutdownEnds, updateVars,
      topologyVars, dataVars, eventVars, panelVars, linkVars
<1>21. CASE UpdateCancelled
  BY <1>21 DEF IInv, UpdatesAreOwed, TaskIsDiscovered, UpdateCancelled, entryVars,
      topologyVars, dataVars, eventVars, panelVars, linkVars
<1>22. CASE Retry
  BY <1>22 DEF IInv, UpdatesAreOwed, TaskIsDiscovered, Retry, Unread, updateVars,
      panelVars, linkVars
<1>23. ASSUME NEW g \in Groups, PanelChanges(g)
      PROVE  UpdatesAreOwed'
  BY <1>23 DEF IInv, UpdatesAreOwed, TaskIsDiscovered, PanelChanges, entryVars,
      updateVars, clientVars, topologyVars, dataVars, linkVars
<1>24. CASE LinkBreaks
  BY <1>24 DEF IInv, UpdatesAreOwed, TaskIsDiscovered, LinkBreaks, Fault, entryVars,
      updateVars, clientVars, topologyVars, dataVars, eventVars, panelVars
<1>25. CASE UNCHANGED vars
  BY <1>25 DEF IInv, UpdatesAreOwed, TaskIsDiscovered, vars, entryVars, updateVars,
      clientVars, topologyVars, dataVars, eventVars, panelVars, linkVars
<1>. QED
  BY <1>1, <1>2, <1>3, <1>4, <1>5, <1>6, <1>7, <1>8, <1>9, <1>10, <1>11, <1>12,
      <1>13, <1>14, <1>15, <1>16, <1>17, <1>18, <1>19, <1>20, <1>21, <1>22, <1>23,
      <1>24, <1>25
  DEF Next, UpdateGoesOn

\* What is open is held.
LEMMA OpenPreserved ==
    ASSUME IInv, [Next]_vars
    PROVE  OpenIsHeld'
<1>1. CASE FirstRefresh
  BY <1>1 DEF IInv, TypeOK, ClientTypes, Clients, OpenIsHeld, UpdatesAreOwed,
      FirstRefresh, StartsWith, Unread, entryVars, clientVars, topologyVars,
      dataVars, eventVars, panelVars, linkVars
<1>2. CASE TimerFires
  BY <1>2 DEF IInv, TypeOK, ClientTypes, Clients, OpenIsHeld, UpdatesAreOwed,
      TimerFires, StartsWith, Unread, entryVars, clientVars, topologyVars, dataVars,
      eventVars, panelVars, linkVars
<1>3. CASE RequestRefresh
  BY <1>3 DEF IInv, TypeOK, ClientTypes, Clients, OpenIsHeld, UpdatesAreOwed,
      RequestRefresh, StartsWith, Unread, entryVars, clientVars, topologyVars,
      dataVars, eventVars, panelVars, linkVars
<1>4. CASE Connected
  BY <1>4 DEF IInv, TypeOK, ClientTypes, Clients, OpenIsHeld, UpdatesAreOwed,
      Connected, entryVars, topologyVars, dataVars, eventVars, panelVars
<1>5. CASE Dropped
  BY <1>5 DEF IInv, TypeOK, ClientTypes, Clients, OpenIsHeld, UpdatesAreOwed,
      Dropped, Raises, topologyVars, dataVars, eventVars, panelVars, linkVars
<1>6. CASE Discovers
  BY <1>6 DEF IInv, TypeOK, ClientTypes, Clients, OpenIsHeld, UpdatesAreOwed,
      Discovers, NextGroup, GroupsLeft, Answers, entryVars, clientVars, dataVars,
      eventVars, panelVars
<1>7. CASE DiscoveryEnds
  BY <1>7 DEF IInv, TypeOK, ClientTypes, Clients, OpenIsHeld, UpdatesAreOwed,
      DiscoveryEnds, GroupsLeft, StartEventTask, entryVars, clientVars, dataVars,
      panelVars, linkVars
<1>8. CASE Polls
  BY <1>8 DEF IInv, TypeOK, ClientTypes, Clients, OpenIsHeld, UpdatesAreOwed, Polls,
      NextGroup, Drained, topologyVars, GroupsLeft, Answers, entryVars, clientVars,
      dataVars, eventVars, panelVars
<1>9. CASE Publishes
  BY <1>9 DEF IInv, TypeOK, ClientTypes, Clients, OpenIsHeld, UpdatesAreOwed,
      Publishes, GroupsLeft, Answers, Drained, LastEventPreserved, clientVars,
      topologyVars, eventVars, panelVars, linkVars
<1>10. CASE ConnectFails
  BY <1>10 DEF IInv, TypeOK, ClientTypes, Clients, OpenIsHeld, UpdatesAreOwed,
      ConnectFails, Fault, Raises, clientVars, topologyVars, dataVars, eventVars,
      panelVars
<1>11. CASE HandshakeFails
  BY <1>11 DEF IInv, TypeOK, ClientTypes, Clients, OpenIsHeld, UpdatesAreOwed,
      HandshakeFails, Fault, clientVars, topologyVars, dataVars, eventVars,
      panelVars
<1>12. CASE RequestFails
  BY <1>12 DEF IInv, TypeOK, ClientTypes, Clients, OpenIsHeld, UpdatesAreOwed,
      RequestFails, Answers, Fault, DropClient, entryVars, topologyVars, dataVars,
      eventVars, panelVars
<1>13. CASE SystemInformationRefused
  BY <1>13 DEF IInv, TypeOK, ClientTypes, Clients, OpenIsHeld, UpdatesAreOwed,
      SystemInformationRefused, Answers, Fault, Raises, clientVars, topologyVars,
      dataVars, eventVars, panelVars
<1>14. CASE DiscoveryRefused
  BY <1>14 DEF IInv, TypeOK, ClientTypes, Clients, OpenIsHeld, UpdatesAreOwed,
      DiscoveryRefused, NextGroup, Fault, GroupsLeft, Answers, entryVars,
      clientVars, dataVars, eventVars, panelVars
<1>15. CASE WalkTimesOut
  BY <1>15 DEF IInv, TypeOK, ClientTypes, Clients, OpenIsHeld, UpdatesAreOwed,
      WalkTimesOut, NextGroup, Fault, topologyVars, GroupsLeft, Answers, entryVars,
      clientVars, dataVars, eventVars, panelVars
<1>16. CASE PollRefused
  BY <1>16 DEF IInv, TypeOK, ClientTypes, Clients, OpenIsHeld, UpdatesAreOwed,
      PollRefused, NextGroup, Fault, topologyVars, GroupsLeft, Answers, entryVars,
      clientVars, dataVars, eventVars, panelVars
<1>17. CASE TakesEvent
  BY <1>17 DEF IInv, TypeOK, ClientTypes, Clients, OpenIsHeld, UpdatesAreOwed,
      TakesEvent, Applies, updateVars, clientVars, topologyVars, panelVars, linkVars
<1>18. CASE Unload
  BY <1>18 DEF IInv, TypeOK, ClientTypes, Clients, OpenIsHeld, UpdatesAreOwed,
      Unload, updateVars, clientVars, topologyVars, dataVars, eventVars, panelVars,
      linkVars
<1>19. CASE ShutdownDrops
  BY <1>19 DEF IInv, TypeOK, ClientTypes, Clients, OpenIsHeld, UpdatesAreOwed,
      ShutdownDrops, CancelEventTask, updateVars, topologyVars, dataVars, panelVars,
      linkVars
<1>20. CASE ShutdownEnds
  BY <1>20 DEF IInv, TypeOK, ClientTypes, Clients, OpenIsHeld, UpdatesAreOwed,
      ShutdownEnds, updateVars, topologyVars, dataVars, eventVars, panelVars,
      linkVars
<1>21. CASE UpdateCancelled
  BY <1>21 DEF IInv, TypeOK, ClientTypes, Clients, OpenIsHeld, UpdatesAreOwed,
      UpdateCancelled, entryVars, topologyVars, dataVars, eventVars, panelVars,
      linkVars
<1>22. CASE Retry
  BY <1>22 DEF IInv, TypeOK, ClientTypes, Clients, OpenIsHeld, UpdatesAreOwed,
      Retry, Unread, updateVars, panelVars, linkVars
<1>23. ASSUME NEW g \in Groups, PanelChanges(g)
      PROVE  OpenIsHeld'
  BY <1>23 DEF IInv, TypeOK, ClientTypes, Clients, OpenIsHeld, UpdatesAreOwed,
      PanelChanges, entryVars, updateVars, clientVars, topologyVars, dataVars,
      linkVars
<1>24. CASE LinkBreaks
  BY <1>24 DEF IInv, TypeOK, ClientTypes, Clients, OpenIsHeld, UpdatesAreOwed,
      LinkBreaks, Fault, entryVars, updateVars, clientVars, topologyVars, dataVars,
      eventVars, panelVars
<1>25. CASE UNCHANGED vars
  BY <1>25 DEF IInv, TypeOK, ClientTypes, Clients, OpenIsHeld, UpdatesAreOwed, vars,
      entryVars, updateVars, clientVars, topologyVars, dataVars, eventVars,
      panelVars, linkVars
<1>. QED
  BY <1>1, <1>2, <1>3, <1>4, <1>5, <1>6, <1>7, <1>8, <1>9, <1>10, <1>11, <1>12,
      <1>13, <1>14, <1>15, <1>16, <1>17, <1>18, <1>19, <1>20, <1>21, <1>22, <1>23,
      <1>24, <1>25
  DEF Next, UpdateGoesOn

\* The event task comes after discovery.
LEMMA TaskPreserved ==
    ASSUME IInv, [Next]_vars
    PROVE  TaskIsDiscovered'
<1>1. CASE FirstRefresh
  BY <1>1 DEF IInv, UpdatesAreOwed, TaskIsDiscovered, FirstRefresh, StartsWith,
      Unread, entryVars, clientVars, topologyVars, dataVars, eventVars, panelVars,
      linkVars
<1>2. CASE TimerFires
  BY <1>2 DEF IInv, UpdatesAreOwed, TaskIsDiscovered, TimerFires, StartsWith,
      Unread, entryVars, clientVars, topologyVars, dataVars, eventVars, panelVars,
      linkVars
<1>3. CASE RequestRefresh
  BY <1>3 DEF IInv, UpdatesAreOwed, TaskIsDiscovered, RequestRefresh, StartsWith,
      Unread, entryVars, clientVars, topologyVars, dataVars, eventVars, panelVars,
      linkVars
<1>4. CASE Connected
  BY <1>4 DEF IInv, UpdatesAreOwed, TaskIsDiscovered, Connected, entryVars,
      topologyVars, dataVars, eventVars, panelVars
<1>5. CASE Dropped
  BY <1>5 DEF IInv, UpdatesAreOwed, TaskIsDiscovered, Dropped, Raises, topologyVars,
      dataVars, eventVars, panelVars, linkVars
<1>6. CASE Discovers
  BY <1>6 DEF IInv, UpdatesAreOwed, TaskIsDiscovered, Discovers, NextGroup,
      GroupsLeft, Answers, entryVars, clientVars, dataVars, eventVars, panelVars
<1>7. CASE DiscoveryEnds
  BY <1>7 DEF IInv, UpdatesAreOwed, TaskIsDiscovered, DiscoveryEnds, GroupsLeft,
      StartEventTask, entryVars, clientVars, dataVars, panelVars, linkVars
<1>8. CASE Polls
  BY <1>8 DEF IInv, UpdatesAreOwed, TaskIsDiscovered, Polls, NextGroup, Drained,
      topologyVars, GroupsLeft, Answers, entryVars, clientVars, dataVars, eventVars,
      panelVars
<1>9. CASE Publishes
  BY <1>9 DEF IInv, UpdatesAreOwed, TaskIsDiscovered, Publishes, GroupsLeft,
      Answers, Drained, LastEventPreserved, clientVars, topologyVars, eventVars,
      panelVars, linkVars
<1>10. CASE ConnectFails
  BY <1>10 DEF IInv, UpdatesAreOwed, TaskIsDiscovered, ConnectFails, Fault, Raises,
      clientVars, topologyVars, dataVars, eventVars, panelVars
<1>11. CASE HandshakeFails
  BY <1>11 DEF IInv, UpdatesAreOwed, TaskIsDiscovered, HandshakeFails, Fault,
      clientVars, topologyVars, dataVars, eventVars, panelVars
<1>12. CASE RequestFails
  BY <1>12 DEF IInv, UpdatesAreOwed, TaskIsDiscovered, RequestFails, Answers, Fault,
      DropClient, entryVars, topologyVars, dataVars, eventVars, panelVars
<1>13. CASE SystemInformationRefused
  BY <1>13 DEF IInv, UpdatesAreOwed, TaskIsDiscovered, SystemInformationRefused,
      Answers, Fault, Raises, clientVars, topologyVars, dataVars, eventVars,
      panelVars
<1>14. CASE DiscoveryRefused
  BY <1>14 DEF IInv, UpdatesAreOwed, TaskIsDiscovered, DiscoveryRefused, NextGroup,
      Fault, GroupsLeft, Answers, entryVars, clientVars, dataVars, eventVars,
      panelVars
<1>15. CASE WalkTimesOut
  BY <1>15 DEF IInv, UpdatesAreOwed, TaskIsDiscovered, WalkTimesOut, NextGroup,
      Fault, topologyVars, GroupsLeft, Answers, entryVars, clientVars, dataVars,
      eventVars, panelVars
<1>16. CASE PollRefused
  BY <1>16 DEF IInv, UpdatesAreOwed, TaskIsDiscovered, PollRefused, NextGroup,
      Fault, topologyVars, GroupsLeft, Answers, entryVars, clientVars, dataVars,
      eventVars, panelVars
<1>17. CASE TakesEvent
  BY <1>17 DEF IInv, UpdatesAreOwed, TaskIsDiscovered, TakesEvent, Applies,
      updateVars, clientVars, topologyVars, panelVars, linkVars
<1>18. CASE Unload
  BY <1>18 DEF IInv, UpdatesAreOwed, TaskIsDiscovered, Unload, updateVars,
      clientVars, topologyVars, dataVars, eventVars, panelVars, linkVars
<1>19. CASE ShutdownDrops
  BY <1>19 DEF IInv, UpdatesAreOwed, TaskIsDiscovered, ShutdownDrops,
      CancelEventTask, updateVars, topologyVars, dataVars, panelVars, linkVars
<1>20. CASE ShutdownEnds
  BY <1>20 DEF IInv, UpdatesAreOwed, TaskIsDiscovered, ShutdownEnds, updateVars,
      topologyVars, dataVars, eventVars, panelVars, linkVars
<1>21. CASE UpdateCancelled
  BY <1>21 DEF IInv, UpdatesAreOwed, TaskIsDiscovered, UpdateCancelled, entryVars,
      topologyVars, dataVars, eventVars, panelVars, linkVars
<1>22. CASE Retry
  BY <1>22 DEF IInv, UpdatesAreOwed, TaskIsDiscovered, Retry, Unread, updateVars,
      panelVars, linkVars
<1>23. ASSUME NEW g \in Groups, PanelChanges(g)
      PROVE  TaskIsDiscovered'
  BY <1>23 DEF IInv, UpdatesAreOwed, TaskIsDiscovered, PanelChanges, entryVars,
      updateVars, clientVars, topologyVars, dataVars, linkVars
<1>24. CASE LinkBreaks
  BY <1>24 DEF IInv, UpdatesAreOwed, TaskIsDiscovered, LinkBreaks, Fault, entryVars,
      updateVars, clientVars, topologyVars, dataVars, eventVars, panelVars
<1>25. CASE UNCHANGED vars
  BY <1>25 DEF IInv, UpdatesAreOwed, TaskIsDiscovered, vars, entryVars, updateVars,
      clientVars, topologyVars, dataVars, eventVars, panelVars, linkVars
<1>. QED
  BY <1>1, <1>2, <1>3, <1>4, <1>5, <1>6, <1>7, <1>8, <1>9, <1>10, <1>11, <1>12,
      <1>13, <1>14, <1>15, <1>16, <1>17, <1>18, <1>19, <1>20, <1>21, <1>22, <1>23,
      <1>24, <1>25
  DEF Next, UpdateGoesOn

\* Events stay in order.
LEMMA OrderPreserved ==
    ASSUME IInv, [Next]_vars
    PROVE  EventsAreOrdered'
<1>. USE CoordinatorAssumption DEF CoordinatorAssumption
<1>1. CASE FirstRefresh
  BY <1>1 DEF IInv, TypeOK, ClientTypes, DataTypes, UpdatesAreOwed,
      TaskIsDiscovered, EventsAreOrdered, Changes, Groups, Clients, Event,
      FirstRefresh, StartsWith, Unread, entryVars, clientVars, topologyVars,
      dataVars, eventVars, panelVars, linkVars
<1>2. CASE TimerFires
  BY <1>2 DEF IInv, TypeOK, ClientTypes, DataTypes, UpdatesAreOwed,
      TaskIsDiscovered, EventsAreOrdered, Changes, Groups, Clients, Event,
      TimerFires, StartsWith, Unread, entryVars, clientVars, topologyVars, dataVars,
      eventVars, panelVars, linkVars
<1>3. CASE RequestRefresh
  BY <1>3 DEF IInv, TypeOK, ClientTypes, DataTypes, UpdatesAreOwed,
      TaskIsDiscovered, EventsAreOrdered, Changes, Groups, Clients, Event,
      RequestRefresh, StartsWith, Unread, entryVars, clientVars, topologyVars,
      dataVars, eventVars, panelVars, linkVars
<1>4. CASE Connected
  BY <1>4 DEF IInv, TypeOK, ClientTypes, DataTypes, UpdatesAreOwed,
      TaskIsDiscovered, EventsAreOrdered, Changes, Groups, Clients, Event,
      Connected, entryVars, topologyVars, dataVars, eventVars, panelVars
<1>5. CASE Dropped
  BY <1>5 DEF IInv, TypeOK, ClientTypes, DataTypes, UpdatesAreOwed,
      TaskIsDiscovered, EventsAreOrdered, Changes, Groups, Clients, Event, Dropped,
      Raises, topologyVars, dataVars, eventVars, panelVars, linkVars
<1>6. CASE Discovers
  BY <1>6 DEF IInv, TypeOK, ClientTypes, DataTypes, UpdatesAreOwed,
      TaskIsDiscovered, EventsAreOrdered, Changes, Groups, Clients, Event,
      Discovers, NextGroup, GroupsLeft, Answers, entryVars, clientVars, dataVars,
      eventVars, panelVars
<1>7. CASE DiscoveryEnds
  <2>1. listener = 0 /\ lastEvent = 0 /\ UNCHANGED <<lastEvent, backlog, changes>>
    BY <1>7 DEF DiscoveryEnds, dataVars, panelVars, IInv, UpdatesAreOwed, TaskIsDiscovered
  <2>2. listener' \in Clients \cup {0}
    BY <1>7 DEF DiscoveryEnds, StartEventTask, IInv, TypeOK, ClientTypes
  <2>3. \A c \in Clients : \A i \in 1 .. Len(backlog[c]) : 0 <= backlog[c][i].number
    BY NumbersTyped
  <2>. QED BY <2>1, <2>2, <2>3 DEF IInv, EventsAreOrdered
<1>8. CASE Polls
  BY <1>8 DEF IInv, TypeOK, ClientTypes, DataTypes, UpdatesAreOwed,
      TaskIsDiscovered, EventsAreOrdered, Changes, Groups, Clients, Event, Polls,
      NextGroup, Drained, topologyVars, GroupsLeft, Answers, entryVars, clientVars,
      dataVars, eventVars, panelVars
<1>9. CASE Publishes
  BY <1>9 DEF IInv, TypeOK, ClientTypes, DataTypes, UpdatesAreOwed,
      TaskIsDiscovered, EventsAreOrdered, Changes, Groups, Clients, Event,
      Publishes, GroupsLeft, Answers, Drained, LastEventPreserved, clientVars,
      topologyVars, eventVars, panelVars, linkVars
<1>10. CASE ConnectFails
  BY <1>10 DEF IInv, TypeOK, ClientTypes, DataTypes, UpdatesAreOwed,
      TaskIsDiscovered, EventsAreOrdered, Changes, Groups, Clients, Event,
      ConnectFails, Fault, Raises, clientVars, topologyVars, dataVars, eventVars,
      panelVars
<1>11. CASE HandshakeFails
  BY <1>11 DEF IInv, TypeOK, ClientTypes, DataTypes, UpdatesAreOwed,
      TaskIsDiscovered, EventsAreOrdered, Changes, Groups, Clients, Event,
      HandshakeFails, Fault, clientVars, topologyVars, dataVars, eventVars,
      panelVars
<1>12. CASE RequestFails
  BY <1>12 DEF IInv, TypeOK, ClientTypes, DataTypes, UpdatesAreOwed,
      TaskIsDiscovered, EventsAreOrdered, Changes, Groups, Clients, Event,
      RequestFails, Answers, Fault, DropClient, entryVars, topologyVars, dataVars,
      eventVars, panelVars
<1>13. CASE SystemInformationRefused
  BY <1>13 DEF IInv, TypeOK, ClientTypes, DataTypes, UpdatesAreOwed,
      TaskIsDiscovered, EventsAreOrdered, Changes, Groups, Clients, Event,
      SystemInformationRefused, Answers, Fault, Raises, clientVars, topologyVars,
      dataVars, eventVars, panelVars
<1>14. CASE DiscoveryRefused
  BY <1>14 DEF IInv, TypeOK, ClientTypes, DataTypes, UpdatesAreOwed,
      TaskIsDiscovered, EventsAreOrdered, Changes, Groups, Clients, Event,
      DiscoveryRefused, NextGroup, Fault, GroupsLeft, Answers, entryVars,
      clientVars, dataVars, eventVars, panelVars
<1>15. CASE WalkTimesOut
  BY <1>15 DEF IInv, TypeOK, ClientTypes, DataTypes, UpdatesAreOwed,
      TaskIsDiscovered, EventsAreOrdered, Changes, Groups, Clients, Event,
      WalkTimesOut, NextGroup, Fault, topologyVars, GroupsLeft, Answers, entryVars,
      clientVars, dataVars, eventVars, panelVars
<1>16. CASE PollRefused
  BY <1>16 DEF IInv, TypeOK, ClientTypes, DataTypes, UpdatesAreOwed,
      TaskIsDiscovered, EventsAreOrdered, Changes, Groups, Clients, Event,
      PollRefused, NextGroup, Fault, topologyVars, GroupsLeft, Answers, entryVars,
      clientVars, dataVars, eventVars, panelVars
<1>17. CASE TakesEvent
  <2>. DEFINE q == backlog[listener]
  <2>1. listener \in Clients /\ listener # 0 /\ q \in Seq(Event) /\ q # <<>>
    BY <1>17 DEF TakesEvent, IInv, TypeOK, ClientTypes, DataTypes
  <2>2. /\ Head(q) = q[1] /\ 1 \in 1 .. Len(q)
        /\ \A i \in 1 .. Len(Tail(q)) : i + 1 \in 1 .. Len(q) /\ Tail(q)[i] = q[i + 1]
    BY <2>1
  <2>3. /\ backlog'[listener] = Tail(q)
        /\ \A c \in Clients \ {listener} : backlog'[c] = backlog[c]
        /\ UNCHANGED <<listener, changes>>
    BY <1>17, <2>1 DEF TakesEvent, panelVars, IInv, TypeOK, DataTypes
  <2>4. lastEvent' \in {lastEvent, q[1].number}
    BY <1>17, <2>2 DEF TakesEvent, Applies
  <2>5. lastEvent' <= changes
    BY <2>1, <2>2, <2>4 DEF IInv, EventsAreOrdered
  <2>6. \A i \in 1 .. Len(Tail(q)) : lastEvent' <= q[i + 1].number
    <3>. SUFFICES ASSUME NEW i \in 1 .. Len(Tail(q)) PROVE lastEvent' <= q[i + 1].number
      OBVIOUS
    <3>1. i + 1 \in 1 .. Len(q) /\ 1 \in 1 .. i + 1
      BY <2>2
    <3>. QED BY <2>1, <2>4, <3>1 DEF IInv, EventsAreOrdered
  <2>7. ASSUME NEW c \in Clients, NEW i \in 1 .. Len(backlog'[c])
        PROVE  /\ backlog'[c][i].number <= changes'
               /\ \A j \in 1 .. i : backlog'[c][j].number <= backlog'[c][i].number
    <3>1. CASE c = listener
      <4>1. i \in 1 .. Len(Tail(q)) /\ Len(Tail(q)) \in Nat
        <5>1. Tail(q) \in Seq(Event)
          BY <2>1
        <5>2. backlog'[c] = Tail(q)
          BY <2>3, <3>1
        <5>. HIDE DEF q
        <5>. QED BY <5>1, <5>2
      <4>2. \A j \in 1 .. i : j \in 1 .. Len(Tail(q)) /\ j + 1 \in 1 .. i + 1
        BY <4>1
      <4>3. i + 1 \in 1 .. Len(q) /\ backlog'[c][i] = q[i + 1]
        BY <2>2, <2>3, <3>1, <4>1
      <4>4. \A j \in 1 .. i : backlog'[c][j] = q[j + 1]
        BY <2>2, <2>3, <3>1, <4>2
      <4>. QED BY <2>1, <2>3, <3>1, <4>2, <4>3, <4>4 DEF IInv, EventsAreOrdered
    <3>2. CASE c # listener
      BY <2>3, <2>7, <3>2 DEF IInv, EventsAreOrdered
    <3>. QED BY <3>1, <3>2
  <2>8. \A i \in 1 .. Len(backlog'[listener']) :
           lastEvent' <= backlog'[listener'][i].number
    BY <2>2, <2>3, <2>6
  <2>. QED BY <2>3, <2>5, <2>7, <2>8 DEF EventsAreOrdered
<1>18. CASE Unload
  BY <1>18 DEF IInv, TypeOK, ClientTypes, DataTypes, UpdatesAreOwed,
      TaskIsDiscovered, EventsAreOrdered, Changes, Groups, Clients, Event, Unload,
      updateVars, clientVars, topologyVars, dataVars, eventVars, panelVars, linkVars
<1>19. CASE ShutdownDrops
  BY <1>19 DEF IInv, TypeOK, ClientTypes, DataTypes, UpdatesAreOwed,
      TaskIsDiscovered, EventsAreOrdered, Changes, Groups, Clients, Event,
      ShutdownDrops, CancelEventTask, updateVars, topologyVars, dataVars, panelVars,
      linkVars
<1>20. CASE ShutdownEnds
  BY <1>20 DEF IInv, TypeOK, ClientTypes, DataTypes, UpdatesAreOwed,
      TaskIsDiscovered, EventsAreOrdered, Changes, Groups, Clients, Event,
      ShutdownEnds, updateVars, topologyVars, dataVars, eventVars, panelVars,
      linkVars
<1>21. CASE UpdateCancelled
  BY <1>21 DEF IInv, TypeOK, ClientTypes, DataTypes, UpdatesAreOwed,
      TaskIsDiscovered, EventsAreOrdered, Changes, Groups, Clients, Event,
      UpdateCancelled, entryVars, topologyVars, dataVars, eventVars, panelVars,
      linkVars
<1>22. CASE Retry
  BY <1>22 DEF IInv, TypeOK, ClientTypes, DataTypes, UpdatesAreOwed,
      TaskIsDiscovered, EventsAreOrdered, Changes, Groups, Clients, Event, Retry,
      Unread, updateVars, panelVars, linkVars
<1>23. ASSUME NEW g \in Groups, PanelChanges(g)
      PROVE  EventsAreOrdered'
  <2>. DEFINE e == [group |-> g, number |-> changes + 1]
  <2>1. changes \in Nat /\ changes' = changes + 1 /\ UNCHANGED <<lastEvent, listener>>
    BY <1>23 DEF PanelChanges, dataVars, IInv, TypeOK, DataTypes, Changes
  <2>2. lastEvent \in Nat /\ lastEvent <= changes
    BY DEF IInv, TypeOK, DataTypes, Changes, EventsAreOrdered
  <2>3. ASSUME NEW c \in Clients, NEW i \in 1 .. Len(backlog'[c])
        PROVE  \/ /\ i \in 1 .. Len(backlog[c])
                  /\ \A j \in 1 .. i : backlog'[c][j] = backlog[c][j]
               \/ /\ backlog'[c][i].number = changes + 1 /\ i = Len(backlog[c]) + 1
                  /\ \A j \in 1 .. Len(backlog[c]) : backlog'[c][j] = backlog[c][j]
    <3>1. backlog'[c] \in {backlog[c], Append(backlog[c], e)}
      BY <1>23 DEF PanelChanges
    <3>2. backlog[c] \in Seq(Event)
      BY DEF IInv, TypeOK, DataTypes
    <3>3. CASE backlog'[c] = backlog[c]
      BY <2>3, <3>2, <3>3
    <3>4. CASE backlog'[c] = Append(backlog[c], e)
      <4>1. /\ Len(Append(backlog[c], e)) = Len(backlog[c]) + 1 /\ Len(backlog[c]) \in Nat
            /\ \A j \in 1 .. Len(backlog[c]) : Append(backlog[c], e)[j] = backlog[c][j]
            /\ Append(backlog[c], e)[Len(backlog[c]) + 1] = e
        BY <3>2
      <4>. QED BY <2>3, <3>4, <4>1
    <3>. QED BY <3>1, <3>3, <3>4
  <2>4. ASSUME NEW c \in Clients, NEW i \in 1 .. Len(backlog'[c])
        PROVE  /\ backlog'[c][i].number <= changes + 1
               /\ \A j \in 1 .. i : backlog'[c][j].number <= backlog'[c][i].number
    <3>1. \A j \in 1 .. Len(backlog[c]) :
             backlog[c][j].number \in Nat /\ backlog[c][j].number <= changes
      BY NumbersTyped DEF IInv, EventsAreOrdered
    <3>2. CASE i \in 1 .. Len(backlog[c]) /\ \A j \in 1 .. i : backlog'[c][j] = backlog[c][j]
      <4>1. i \in 1 .. i /\ backlog'[c][i] = backlog[c][i]
        BY <3>2
      <4>. QED BY <2>1, <3>1, <3>2, <4>1 DEF IInv, EventsAreOrdered
    <3>3. CASE /\ backlog'[c][i].number = changes + 1 /\ i = Len(backlog[c]) + 1
               /\ \A j \in 1 .. Len(backlog[c]) : backlog'[c][j] = backlog[c][j]
      <4>1. Len(backlog[c]) \in Nat
        BY DEF IInv, TypeOK, DataTypes
      <4>2. \A j \in 1 .. i : j = i \/ j \in 1 .. Len(backlog[c])
        BY <3>3, <4>1
      <4>. QED BY <2>1, <3>1, <3>3, <4>2, SMTT(30)
    <3>. QED BY <2>3, <3>2, <3>3
  <2>5. ASSUME listener # 0, NEW i \in 1 .. Len(backlog'[listener])
        PROVE  lastEvent <= backlog'[listener][i].number
    <3>1. listener \in Clients
      BY <2>5 DEF IInv, TypeOK, ClientTypes
    <3>2. CASE /\ i \in 1 .. Len(backlog[listener])
               /\ \A j \in 1 .. i : backlog'[listener][j] = backlog[listener][j]
      BY <2>5, <3>2 DEF IInv, EventsAreOrdered
    <3>3. CASE backlog'[listener][i].number = changes + 1
      BY <2>1, <2>2, <3>3
    <3>. QED BY <2>3, <3>1, <3>2, <3>3
  <2>. QED BY <2>1, <2>2, <2>4, <2>5 DEF EventsAreOrdered
<1>24. CASE LinkBreaks
  BY <1>24 DEF IInv, TypeOK, ClientTypes, DataTypes, UpdatesAreOwed,
      TaskIsDiscovered, EventsAreOrdered, Changes, Groups, Clients, Event,
      LinkBreaks, Fault, entryVars, updateVars, clientVars, topologyVars, dataVars,
      eventVars, panelVars
<1>25. CASE UNCHANGED vars
  BY <1>25 DEF IInv, TypeOK, ClientTypes, DataTypes, UpdatesAreOwed,
      TaskIsDiscovered, EventsAreOrdered, Changes, Groups, Clients, Event, vars,
      entryVars, updateVars, clientVars, topologyVars, dataVars, eventVars,
      panelVars, linkVars
<1>. QED
  BY <1>1, <1>2, <1>3, <1>4, <1>5, <1>6, <1>7, <1>8, <1>9, <1>10, <1>11, <1>12,
      <1>13, <1>14, <1>15, <1>16, <1>17, <1>18, <1>19, <1>20, <1>21, <1>22, <1>23,
      <1>24, <1>25
  DEF Next, UpdateGoesOn

-----------------------------------------------------------------------------
(* The theorems.                                                           *)

\* The first refresh has not begun: nothing is open, shown or waiting.
LEMMA InitEstablishes == Init => IInv
<1>. SUFFICES ASSUME Init PROVE IInv
  OBVIOUS
<1>. USE CoordinatorAssumption DEF CoordinatorAssumption
<1>1. ControlTypes
  <2>1. cursor \in 1 .. NGroups + 1 /\ faults \in 0 .. MaxFaults
    BY DEF Init
  <2>2. armed \in BOOLEAN /\ discovered \in BOOLEAN /\ hasData \in BOOLEAN
    BY DEF Init
  <2>. QED BY <2>1, <2>2 DEF Init, ControlTypes
<1>2. ClientTypes
  BY DEF Init, ClientTypes
<1>3. DataTypes
  BY UnreadTyped DEF Init, DataTypes, Changes
<1>4. UpdatesAreOwed /\ OpenIsHeld /\ TaskIsDiscovered
  BY DEF Init, UpdatesAreOwed, OpenIsHeld, TaskIsDiscovered
<1>5. EventsAreOrdered
  BY DEF Init, EventsAreOrdered
<1>. QED BY <1>1, <1>2, <1>3, <1>4, <1>5 DEF IInv, TypeOK

\* The inductive invariant holds in every reachable state.
THEOREM Invariance == Spec => []IInv
<1>1. IInv /\ [Next]_vars => IInv'
  BY ControlPreserved, ClientsPreserved, DataPreserved, UpdatesPreserved, OpenPreserved,
     TaskPreserved, OrderPreserved
  DEF IInv, TypeOK
<1>. QED BY InitEstablishes, <1>1, PTL DEF Spec

\* Every variable keeps its type.
THEOREM TypeCorrect == Spec => []TypeOK
<1>1. IInv => TypeOK
  BY DEF IInv
<1>. QED BY <1>1, Invariance, PTL

\* While the entry is set up the panel is held by one client at most, however
\* connects, failures, drops and a shutdown of a failed set-up follow each other.
THEOREM OneClient == Spec => []OneClientAtATime
<1>1. ASSUME IInv, setup \in {"first", "up", "retry"}
      PROVE  Cardinality(open) <= 1
  <2>1. open \subseteq {client, updateDrop} \ {0} /\ (updateDrop # 0 => client = 0)
    BY <1>1 DEF IInv, OpenIsHeld, UpdatesAreOwed
  <2>2. PICK c : open \subseteq {c}
    BY <2>1
  <2>3. open = {} \/ open = {c}
    BY <2>2
  <2>. QED BY <2>3, FS_EmptySet, FS_Singleton
<1>. QED BY <1>1, Invariance, PTL DEF OneClientAtATime

\* Unloading an entry ends its event task for good.
THEOREM ListenerStops == Spec => []ListenerStopsAtShutdown
<1>1. IInv => ListenerStopsAtShutdown
  BY DEF IInv, TaskIsDiscovered, ListenerStopsAtShutdown
<1>. QED BY <1>1, Invariance, PTL

\* last_event never goes back while the entry lives: a poll keeps it, and what
\* waits on the connection was sent later.
THEOREM LastEventIsKept == Spec => LastEventKept
<1>1. IInv /\ [Next]_vars => [setup # "retry" => lastEvent' >= lastEvent]_vars
  <2>. SUFFICES ASSUME IInv, [Next]_vars, setup # "retry" PROVE lastEvent' >= lastEvent
    OBVIOUS
  <2>1. lastEvent \in Nat
    BY CoordinatorAssumption DEF CoordinatorAssumption, IInv, TypeOK, DataTypes, Changes
  <2>2. CASE TakesEvent
    <3>1. listener # 0 /\ backlog[listener] \in Seq(Event) /\ backlog[listener] # <<>>
      BY <2>2 DEF TakesEvent, IInv, TypeOK, ClientTypes, DataTypes
    <3>2. Head(backlog[listener]) = backlog[listener][1] /\ 1 \in 1 .. Len(backlog[listener])
      BY <3>1
    <3>3. lastEvent <= Head(backlog[listener]).number
      BY <3>1, <3>2 DEF IInv, EventsAreOrdered
    <3>4. Head(backlog[listener]).number \in Nat
      BY <3>1, <3>2, NumbersTyped DEF IInv, TypeOK, ClientTypes
    <3>. QED BY <2>1, <2>2, <3>3, <3>4 DEF TakesEvent, Applies
  <2>3. CASE TakesEvent \/ Retry \/ lastEvent' = lastEvent
    BY <2>1, <2>2, <2>3 DEF Retry
  <2>4. TakesEvent \/ Retry \/ lastEvent' = lastEvent
    <3>1. CASE FirstRefresh
      BY <3>1 DEF FirstRefresh, StartsWith, dataVars
    <3>2. CASE TimerFires
      BY <3>2 DEF TimerFires, StartsWith, dataVars
    <3>3. CASE RequestRefresh
      BY <3>3 DEF RequestRefresh, StartsWith, dataVars
    <3>4. CASE Connected
      BY <3>4 DEF Connected, dataVars
    <3>5. CASE Dropped
      BY <3>5 DEF Dropped, dataVars
    <3>6. CASE Discovers
      BY <3>6 DEF Discovers, NextGroup, dataVars
    <3>7. CASE DiscoveryEnds
      BY <3>7 DEF DiscoveryEnds, dataVars
    <3>8. CASE Polls
      BY <3>8 DEF Polls, NextGroup, dataVars
    <3>9. CASE Publishes
      BY <3>9 DEF Publishes, LastEventPreserved
    <3>10. CASE ConnectFails
      BY <3>10 DEF ConnectFails, dataVars
    <3>11. CASE HandshakeFails
      BY <3>11 DEF HandshakeFails, dataVars
    <3>12. CASE RequestFails
      BY <3>12 DEF RequestFails, dataVars
    <3>13. CASE SystemInformationRefused
      BY <3>13 DEF SystemInformationRefused, dataVars
    <3>14. CASE DiscoveryRefused
      BY <3>14 DEF DiscoveryRefused, NextGroup, dataVars
    <3>15. CASE WalkTimesOut
      BY <3>15 DEF WalkTimesOut, NextGroup, dataVars
    <3>16. CASE PollRefused
      BY <3>16 DEF PollRefused, NextGroup, dataVars
    <3>17. CASE Unload
      BY <3>17 DEF Unload, dataVars
    <3>18. CASE ShutdownDrops
      BY <3>18 DEF ShutdownDrops, dataVars
    <3>19. CASE ShutdownEnds
      BY <3>19 DEF ShutdownEnds, dataVars
    <3>20. CASE UpdateCancelled
      BY <3>20 DEF UpdateCancelled, dataVars
    <3>21. CASE LinkBreaks
      BY <3>21 DEF LinkBreaks, dataVars
    <3>22. ASSUME NEW g \in Groups, PanelChanges(g) PROVE lastEvent' = lastEvent
      BY <3>22 DEF PanelChanges, dataVars
    <3>23. CASE UNCHANGED vars
      BY <3>23 DEF vars, dataVars
    <3>. QED
      BY <3>1, <3>2, <3>3, <3>4, <3>5, <3>6, <3>7, <3>8, <3>9, <3>10,
        <3>11, <3>12, <3>13, <3>14, <3>15, <3>16, <3>17, <3>18, <3>19, <3>20, <3>21,
        <3>22, <3>23
      DEF Next, UpdateGoesOn
  <2>. QED BY <2>3, <2>4
<1>. QED BY <1>1, Invariance, PTL DEF Spec, LastEventKept

=============================================================================
