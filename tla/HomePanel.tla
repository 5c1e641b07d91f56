----------------------------- MODULE HomePanel -----------------------------
(***************************************************************************)
(* A panel and the Home Assistant entry on it: the commands that users     *)
(* give to the entities, the polls and pushed events that bring the state  *)
(* of the panel back to them, and the end of a session, over either of the *)
(* two protocols.                                                          *)
(*                                                                         *)
(* A request and its answer are one step, and so is an update: Coordinator *)
(* and OmniLink have their interleavings.  What is on the way here are the *)
(* requests a call has yet to make and the events pushed but not yet       *)
(* taken.                                                                  *)
(***************************************************************************)
EXTENDS HomeEntities

CONSTANTS
    PanelAtStart,   \* the panel's state at the time of discovery
    Links,          \* the protocols: "v2" (TCP) and "v1" (UDP)
    Faulty,         \* those over which a session may end
    Calls(_, _),    \* what users may ask of entities as their n-th call, given a
                    \* snapshot: sequences of requests
    Services(_, _), \* what they may ask of services, given the protocol
    MaxCalls,       \* bound on their calls
    MaxChanges,     \* bound on the changes at the panel itself
    MaxDeaths       \* bound on the sessions that end

ASSUME LinksAssumption == Links \subseteq {"v1", "v2"} /\ Faulty \subseteq Links
ASSUME BoundsAssumption == {MaxCalls, MaxChanges, MaxDeaths} \subseteq Nat

VARIABLES
    link,       \* the protocol of the entry
    panel,      \* the state of the panel
    session,    \* the client's session: open, dead unnoticed, or no client
    listening,  \* the event task reads from the client there is
    sending,    \* the requests that the call under way has yet to make
    refreshes,  \* that call asks for an update after each of them
    pushes,     \* the SystemEvents messages on the way
    data,       \* the coordinator's snapshot
    available,  \* last_update_success
    due,        \* an update is about to run
    settled,    \* history: since an answered update that left no event on the
                \* way, the panel neither changed nor pushed anything
    unpolled,   \* history: what of the panel did since such an update
    calls, changes, deaths

vars == <<link, panel, session, listening, sending, refreshes, pushes, data, available,
          due, settled, unpolled, calls, changes, deaths>>

Dispatch(st, opcode, payload) ==
    IF link = "v2" THEN DispatchV2(st, opcode, payload) ELSE DispatchV1(st, opcode, payload)

\* An entry that is set up: connected, discovered, polled and listening.
Init ==
    /\ link \in Links
    /\ panel = PanelAtStart
    /\ session = "open"
    /\ listening = TRUE
    /\ sending = <<>> /\ refreshes = FALSE
    /\ pushes = <<>>
    /\ data = Update(link, TRUE, panel, RunDiscovery(link, panel)).value
    /\ available = TRUE
    /\ due = FALSE
    /\ settled = TRUE /\ unpolled = {}
    /\ calls = 0 /\ changes = 0 /\ deaths = 0

----------------------------------------------------------------------------
(* Users.                                                                  *)

(* A call of an entity that is available, or of a service.                 *)
UserCalls ==
    /\ sending = <<>> /\ calls < MaxCalls
    /\ \/ available /\ refreshes' = TRUE /\ sending' \in Calls(calls + 1, data)
       \/ refreshes' = FALSE /\ sending' \in Services(calls + 1, link)
    /\ calls' = calls + 1
    /\ UNCHANGED <<link, panel, session, listening, pushes, data, available, due, settled,
                   unpolled, changes, deaths>>

\* The panel pushes what a command changed, but not over v1.
Pushed(words) ==
    IF link = "v1" \/ words = <<>> THEN pushes
    ELSE Append(pushes, BuildSystemEventsMessage(words))

(* What a step changes of the panel, for the history.  A zone is counted by *)
(* the words that commands push for it, since they do not tell its state.  *)
ChangedObjects(new) ==
    {<<"unit", i>> : i \in {j \in DOMAIN panel.units : new.units[j] # panel.units[j]}}
    \cup {<<"area", i>> : i \in {j \in DOMAIN panel.areas : new.areas[j] # panel.areas[j]}}
    \cup (IF new.battery # panel.battery THEN {<<"battery", 0>>} ELSE {})
ZonesOf(words) ==
    {<<"zone", ClassifyWord(w).zone_index>> :
        w \in {v \in ToSet(words) : ClassifyWord(v).type = "ZONE_STATE_CHANGED"}}

(* The first request that fails ends the call.                             *)
SendRequest ==
    /\ sending # <<>> /\ session = "open" /\ ~IsLater(Head(sending))
    /\ LET outcome == Perform(panel, Head(sending), Dispatch) IN
       /\ panel' = outcome.state
       /\ pushes' = Pushed(outcome.push)
       /\ sending' = IF Failed(outcome.result) THEN <<>> ELSE Tail(sending)
       /\ settled' = (settled /\ panel' = panel /\ pushes' = pushes)
       /\ unpolled' = unpolled \cup ChangedObjects(outcome.state) \cup ZonesOf(outcome.push)
       /\ due' = (due \/ (refreshes /\ ~Failed(outcome.result)))
    /\ UNCHANGED <<link, session, listening, refreshes, data, available, calls, changes,
                   deaths>>

\* No client, or one whose session is gone: the call raises.
SendFails ==
    /\ sending # <<>> /\ session # "open" /\ ~IsLater(Head(sending))
    /\ sending' = <<>>
    /\ UNCHANGED <<link, panel, session, listening, refreshes, pushes, data, available, due,
                   settled, unpolled, calls, changes, deaths>>

\* set_temperature reads the snapshot after it has sent a mode.
ReadsStatus ==
    /\ sending # <<>> /\ IsLater(Head(sending))
    /\ sending' = Setpoints(data, Head(sending).thermostat, Head(sending).later)
    /\ UNCHANGED <<link, panel, session, listening, refreshes, pushes, data, available, due,
                   settled, unpolled, calls, changes, deaths>>

----------------------------------------------------------------------------
(* The panel's own changes, each pushed as an event.                       *)

Changes(new, words) ==
    /\ changes < MaxChanges
    /\ panel' = new
    /\ pushes' = IF session = "open" THEN Pushed(words) ELSE pushes
    /\ settled' = FALSE
    /\ unpolled' = unpolled \cup ChangedObjects(new)
    /\ changes' = changes + 1
    /\ UNCHANGED <<link, session, listening, sending, refreshes, data, available, due,
                   calls, deaths>>

ZoneChanges == \E i \in DOMAIN panel.zones :
    LET open == 1 - panel.zones[i].current_state
        latches == open = 1 /\ UseLatchedAlarmForZone(panel.zones[i].zone_type)
    IN Changes([panel EXCEPT !.zones[i].current_state = open,
                             !.zones[i].latched_state = IF latches THEN 4 ELSE @],
               <<ZoneStateChangedWord(i, open)>>)

\* A burglary alarm (type 1) in an armed area.
AlarmSounds == \E i \in DOMAIN panel.areas :
    /\ panel.areas[i].mode # SecurityMode.OFF
    /\ Changes([panel EXCEPT !.areas[i].alarms = 1], <<512 + 16 + i>>)

\* The battery goes low, or is charged again.
BatteryChanges ==
    IF panel.battery >= 192 THEN Changes([panel EXCEPT !.battery = 150], <<774>>)
                            ELSE Changes([panel EXCEPT !.battery = 200], <<775>>)

SessionDies ==
    /\ link \in Faulty /\ session = "open" /\ deaths < MaxDeaths
    /\ session' = "dead"
    /\ pushes' = <<>>
    /\ deaths' = deaths + 1
    /\ UNCHANGED <<link, panel, listening, sending, refreshes, data, available, due,
                   settled, unpolled, calls, changes>>

----------------------------------------------------------------------------
(* The coordinator.                                                        *)

\* Every thirty seconds, or as soon as the debouncer lets a request through.
TimerFires ==
    /\ ~due
    /\ due' = TRUE
    /\ UNCHANGED <<link, panel, session, listening, sending, refreshes, pushes, data,
                   available, settled, unpolled, calls, changes, deaths>>

(* An update, of the session there is or of a new one.  A transport error  *)
(* drops the client; the event task stays on it.                           *)
Takes(result) ==
    LET dropped == Propagates(result)
    IN /\ data' = IF dropped THEN data ELSE result.value
       /\ available' = ~dropped
       /\ session' = CASE dropped -> "none"
                       [] ~dropped /\ session = "none" -> "open"
                       [] OTHER -> session
       /\ listening' = (listening /\ ~dropped)
Refresh ==
    /\ due
    /\ due' = FALSE
    /\ Takes(Update(link, session # "dead", panel, data))
    /\ settled' = IF session # "dead" THEN pushes = <<>> ELSE settled
    /\ unpolled' = IF session # "dead" /\ pushes = <<>> THEN {} ELSE unpolled
    /\ UNCHANGED <<link, panel, sending, refreshes, pushes, calls, changes, deaths>>

RECURSIVE PatchedForEvents(_, _)
PatchedForEvents(snapshot, events) ==
    IF events = <<>> THEN snapshot
    ELSE PatchedForEvents(PatchedForEvent(snapshot, Head(events)), Tail(events))

\* async_set_updated_data makes the entities available; an alarm asks for an
\* update.
DeliverPush ==
    /\ pushes # <<>> /\ session = "open"
    /\ pushes' = Tail(pushes)
    /\ IF listening
       THEN /\ data' = PatchedForEvents(data, EventStream(<<Head(pushes)>>))
            /\ available' = TRUE
            /\ due' = (due \/ data'.last_event.type \in {"ALARM_ACTIVATED", "ALARM_CLEARED"})
       ELSE UNCHANGED <<data, available, due>>
    /\ UNCHANGED <<link, panel, session, listening, sending, refreshes, settled, unpolled,
                   calls, changes, deaths>>

Next == \/ UserCalls \/ SendRequest \/ SendFails \/ ReadsStatus
        \/ ZoneChanges \/ AlarmSounds \/ BatteryChanges \/ SessionDies
        \/ TimerFires \/ Refresh \/ DeliverPush

Spec == Init /\ [][Next]_vars

(* The coordinator is scheduled again after every update, failed or not,   *)
(* and an update that is due runs: Refresh is enabled while `due` and alone *)
(* clears it, so that this is its weak fairness, stated without ENABLED.   *)
FairSpec == Spec /\ WF_due(TimerFires) /\ []<>(~due)

----------------------------------------------------------------------------
(* Properties.                                                             *)

\* Type invariant: the snapshot knows the objects of the panel and no others,
\* and what is on the way are requests and messages.
TypeOK ==
    /\ link \in Links /\ session \in {"open", "dead", "none"}
    /\ {listening, available, refreshes, due, settled} \subseteq BOOLEAN
    /\ calls \in 0..MaxCalls /\ changes \in 0..MaxChanges /\ deaths \in 0..MaxDeaths
    /\ DOMAIN data.zone_status \subseteq DOMAIN data.zones
    /\ DOMAIN data.unit_status \subseteq DOMAIN data.units
    /\ DOMAIN data.area_status \subseteq DOMAIN data.areas
    /\ \A i \in DOMAIN data.unit_status : data.unit_status[i].state \in 0..200
    /\ \A i \in DOMAIN data.zone_status : data.zone_status[i].raw_status \in 0..127
    /\ \A i \in DOMAIN pushes : pushes[i].opcode = "SystemEvents"

(* What the objects of a panel mean, told from its state alone.            *)
NamedOf(objects) == {i \in DOMAIN objects : objects[i].name # <<>>}

\* A light is off, fully on, or at a hundredth of the 255 steps.
LightMeans(light, unit) ==
    /\ light.is_on = (unit.state # 0)
    /\ unit.state = 0 => light.brightness = 0
    /\ unit.state = 1 => light.brightness = 255
    /\ unit.state >= 100 =>
           LET error == 100 * light.brightness - 255 * (unit.state - 100)
           IN light.brightness >= 1 /\ error \in -50..100

ZoneMeans(on, zone) ==
    on = IF UseLatchedAlarmForZone(zone.zone_type) /\ link = "v2"
         THEN zone.latched_state = 4 ELSE zone.current_state = 1

\* Over v1 the panel does not tell the alarms of its areas.
AreaMeans(state, area) ==
    IF area.alarms # 0 /\ link = "v2" THEN state = "triggered"
    ELSE /\ state = "disarmed" <=> area.mode \in {0, 7}
         /\ state = "armed_away" <=> area.mode = 3
         /\ state = "armed_home" <=> area.mode = 1

\* A setpoint is the nearest whole degree to 0.9 raw - 40.
DegreesOf(shown, raw) == \E f \in ToSet(shown) : 10 * (f + 40) - 9 * raw \in -5..5
ClimateMeans(climate, thermostat) ==
    CASE thermostat.system_mode = 0 -> climate.hvac_mode = "off"
      [] thermostat.system_mode = 1 ->
             climate.hvac_mode = "heat"
             /\ DegreesOf(climate.target_temperature, thermostat.heat_setpoint_raw)
      [] thermostat.system_mode = 2 ->
             climate.hvac_mode = "cool"
             /\ DegreesOf(climate.target_temperature, thermostat.cool_setpoint_raw)
      [] thermostat.system_mode = 3 ->
             climate.hvac_mode = "heat_cool"
             /\ DegreesOf(climate.target_temperature_low, thermostat.heat_setpoint_raw)
             /\ DegreesOf(climate.target_temperature_high, thermostat.cool_setpoint_raw)
FanMeans(climate, thermostat) ==
    climate.fan_mode = <<"auto", "on", "diffuse">>[thermostat.fan_mode + 1]

\* Over v1 the modes of the areas pass for alarms.  The battery sensor goes by
\* the last event where that is one of the battery.
OfBattery(event) == event.type \in {"BATTERY_LOW", "BATTERY_RESTORED"}
SystemMeans ==
    /\ AcPower(data) = <<panel.battery # 0>>
    /\ ~OfBattery(data.last_event) => BackupBatteryLow(data) = <<panel.battery < 192>>
    /\ link = "v2" => SystemTrouble(data) = <<panel.battery < 192>>

(* After an update that left no event on the way, the entities show what   *)
(* the panel's state means, for every named object of it and for no other: *)
(* the status records, the indices they are matched by, the properties and *)
(* the platforms agree end to end, over either protocol.                   *)
ShowsPanel ==
    settled /\ available =>
    /\ DOMAIN Lights(data) = NamedOf(panel.units)
    /\ \A i \in DOMAIN Lights(data) : LightMeans(Lights(data)[i], panel.units[i])
    /\ DOMAIN ZoneSensors(data) \cup DOMAIN AnalogZones(data) = NamedOf(panel.zones)
    /\ \A i \in DOMAIN ZoneSensors(data) : ZoneMeans(ZoneSensors(data)[i], panel.zones[i])
    /\ \A i \in DOMAIN BypassSwitches(data) :
           /\ BypassSwitches(data)[i] = panel.zones[i].is_bypassed
           /\ BypassedSensors(data)[i] = panel.zones[i].is_bypassed
    /\ \A i \in DOMAIN AnalogZones(data) :
           DegreesOf(<<AnalogZones(data)[i]>>, panel.zones[i].loop)
    /\ DOMAIN AlarmPanels(data) = NamedOf(panel.areas)
    /\ \A i \in DOMAIN AlarmPanels(data) : AreaMeans(AlarmPanels(data)[i], panel.areas[i])
    /\ DOMAIN Climates(data) = NamedOf(panel.thermostats)
    /\ \A i \in DOMAIN Climates(data) :
           /\ ClimateMeans(Climates(data)[i], panel.thermostats[i])
           /\ FanMeans(Climates(data)[i], panel.thermostats[i])
    /\ \A i \in DOMAIN ThermostatSensors(data) :
           DegreesOf(ThermostatSensors(data)[i].temperature,
                     panel.thermostats[i].temperature_raw)
    /\ SystemMeans

(* When no event is on the way and none was missed, the pushed events have *)
(* brought to the entities what they can, whatever updates came between    *)
(* and whatever has changed since: whether a light is on, how an armed     *)
(* area is armed, whether a zone is open, and the battery while its event  *)
(* is the last.  They do not bring the level of a light, the disarming of  *)
(* an area (the word for mode 0 is read as another event), an alarm, or a  *)
(* battery after another event; level 0 is pushed as off though the panel  *)
(* polls as on; a bypass is pushed as an open zone.  But neither do they   *)
(* spoil any of these: what has not changed since an update that left no   *)
(* event on the way is still shown as the panel means it, after any number *)
(* of events about other objects.                                          *)
QuietAgrees ==
    link = "v2" /\ session = "open" /\ listening /\ pushes = <<>> =>
    /\ \A i \in NamedOf(panel.units) : panel.units[i].state # 100 =>
           /\ Lights(data)[i].is_on = (panel.units[i].state # 0)
           /\ <<"unit", i>> \notin unpolled => LightMeans(Lights(data)[i], panel.units[i])
    /\ \A i \in NamedOf(panel.areas) :
           /\ panel.areas[i].mode # 0 => data.area_status[i].mode = panel.areas[i].mode
           /\ <<"area", i>> \notin unpolled => AreaMeans(AlarmPanels(data)[i], panel.areas[i])
    /\ \A i \in NamedOf(panel.zones) : <<"zone", i>> \notin unpolled =>
           IsOpen(data.zone_status[i]) = (panel.zones[i].current_state = 1)
    /\ OfBattery(data.last_event) \/ <<"battery", 0>> \notin unpolled =>
           BackupBatteryLow(data) = <<panel.battery < 192>>

(* Asked over either protocol, the panel gives the same snapshot of zones, *)
(* units, thermostats and the modes of areas, for all that v1 answers with *)
(* nameless records of every index in the range and v2 with indexed ones   *)
(* of the objects that exist.  Neither an event nor an update changes the  *)
(* panel: it is enough to ask when none of them is on the way.             *)
Compared(s) ==
    LET Modes == [i \in DOMAIN s.area_status |-> s.area_status[i].mode]
        Common(t) == [f \in {"temperature_raw", "heat_setpoint_raw", "cool_setpoint_raw",
                             "system_mode", "fan_mode", "hold_mode"} |-> t[f]]
    IN [zones |-> s.zone_status, units |-> s.unit_status, areas |-> Modes,
        thermostats |-> [i \in DOMAIN s.thermostat_status |-> Common(s.thermostat_status[i])],
        names |-> [type \in {ZONE, UNIT, THERMOSTAT, BUTTON} |->
                      NamesOf(CASE type = ZONE -> s.zones [] type = UNIT -> s.units
                                [] type = THERMOSTAT -> s.thermostats
                                [] type = BUTTON -> s.buttons)],
        programs |-> s.programs]
Snapshot(protocol) ==
    Compared(Update(protocol, TRUE, panel, RunDiscovery(protocol, panel)).value)
SnapshotsAgree == pushes = <<>> /\ ~due => Snapshot("v1") = Snapshot("v2")

\* Liveness: a session that ended is replaced.
Recovers == session # "open" ~> session = "open"
=============================================================================
