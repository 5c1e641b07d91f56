------------------------------ MODULE HomeData ------------------------------
(***************************************************************************)
(* OmniData and how the coordinator (coordinator.py) fills it: what it     *)
(* discovers, what a poll reads, how a pushed event patches it.  Which     *)
(* update runs when is the subject of Coordinator; here each is one step   *)
(* on a panel, asked over "v2" (OmniClient) or "v1" (the adapter).         *)
(***************************************************************************)
EXTENDS V1Client, EventWords

NoEvent == [type |-> "NONE"]
NoStatus == NotFound

(* The v1 client has exception classes of its own: what its connection     *)
(* raises is not the ConnectionError the coordinator names.                *)
TransportError(link) == IF link = "v2" THEN OmniConnectionError ELSE Raises("V1 timeout")
PropagatesNothing(result) == FALSE
Propagates(result) == result = OmniConnectionError

----------------------------------------------------------------------------
(* Discovery.                                                              *)

NamesFor(link, st, type) ==
    CASE link = "v2" /\ type # AREA -> ListNames(st, type)
      [] link = "v2" /\ type = AREA -> ListAreaNames(st)
      [] link = "v1" /\ type # AREA -> EnsureNames(st, type)
      [] link = "v1" /\ type = AREA -> AdapterListAreaNames(st)

PropertiesFor(link, st, names, type, index) ==
    IF link = "v2" THEN GetObjectProperties(st, type, index)
                   ELSE AdapterGetObjectProperties(names, type, index)

\* Zones, units and areas: a name whose properties cannot be read is left out.
Readable(props) ==
    [i \in {j \in DOMAIN props : ~Failed(props[j]) /\ props[j] # NotFound} |-> props[i]]
DiscoverNamed(link, st, type, names) ==
    Readable([i \in DOMAIN names |-> PropertiesFor(link, st, names, type, i)])
Discover(link, st, type) == DiscoverNamed(link, st, type, NamesFor(link, st, type))

WalkPropertiesV1(st, type) ==
    LET names == EnsureNames(st, type) IN
    [i \in DOMAIN names |-> AdapterGetObjectProperties(names, type, i)]
\* Thermostats and buttons.
WalkProperties(link, st, type) ==
    IF link = "v2" THEN Walk(st, type) ELSE WalkPropertiesV1(st, type)

DiscoverPrograms(link, st) == IF link = "v2" THEN IterPrograms(st) ELSE V1IterPrograms(st)

RunDiscovery(link, st) ==
    [system_info |-> IF link = "v2" THEN GetSystemInformation(st)
                     ELSE V1GetSystemInformation(st),
     zones |-> Discover(link, st, ZONE), units |-> Discover(link, st, UNIT),
     areas |-> Discover(link, st, AREA),
     thermostats |-> WalkProperties(link, st, THERMOSTAT),
     buttons |-> WalkProperties(link, st, BUTTON),
     programs |-> DiscoverPrograms(link, st),
     zone_status |-> NoObjects, unit_status |-> NoObjects, area_status |-> NoObjects,
     thermostat_status |-> NoObjects, system_status |-> NoStatus,
     last_event |-> NoEvent]

----------------------------------------------------------------------------
(* A poll of one kind of object, at a panel that is reachable or not.      *)

ExtendedStatus(link, st, type, last) ==
    IF link = "v2" THEN GetExtendedStatus(st, type, 1, last)
                   ELSE AdapterGetExtendedStatus(st, type, 1, last)
ObjectStatus(link, st, type, last) ==
    IF link = "v2" THEN GetObjectStatus(st, type, 1, last)
                   ELSE AdapterGetObjectStatus(st, type, 1, last)

ByIndexOfAny(records, indices) ==
    LET known == ToSet(records) IN
    [i \in {r.index : r \in known} |-> CHOOSE r \in known : r.index = i]
ByIndex(records, indices) ==
    LET known == {r \in ToSet(records) : r.index \in indices} IN
    [i \in {r.index : r \in known} |-> CHOOSE r \in known : r.index = i]

(* A transport error goes through; any other keeps the old records.        *)
Polled(link, reachable, objects, old, records) ==
    LET result == IF reachable THEN records ELSE TransportError(link) IN
    IF objects = NoObjects THEN Returns(NoObjects)
    ELSE IF Propagates(result) THEN result
    ELSE Returns(IF Failed(result) THEN old ELSE ByIndex(result.value, DOMAIN objects))

PollZoneStatus(link, reachable, st, data) ==
    Polled(link, reachable, data.zones, data.zone_status,
           ExtendedStatus(link, st, ZONE, Highest(DOMAIN data.zones)))
PollUnitStatusToCount(link, reachable, st, data) ==
    Polled(link, reachable, data.units, data.unit_status,
           ExtendedStatus(link, st, UNIT, Cardinality(DOMAIN data.units)))
PollUnitStatus(link, reachable, st, data) ==
    Polled(link, reachable, data.units, data.unit_status,
           ExtendedStatus(link, st, UNIT, Highest(DOMAIN data.units)))
PollAreaStatus(link, reachable, st, data) ==
    Polled(link, reachable, data.areas, data.area_status,
           ObjectStatus(link, st, AREA, Highest(DOMAIN data.areas)))
PollThermostatStatus(link, reachable, st, data) ==
    Polled(link, reachable, data.thermostats, data.thermostat_status,
           ExtendedStatus(link, st, THERMOSTAT, Highest(DOMAIN data.thermostats)))

Safe(status) == IF Failed(status) /\ ~Propagates(status) THEN NoStatus ELSE status
SafeSystemStatus(link, reachable, st) ==
    Safe(CASE ~reachable               -> TransportError(link)
           [] reachable /\ link = "v2" -> GetSystemStatus(st)
           [] reachable /\ link = "v1" -> V1GetSystemStatus(st))

(* The update: the new snapshot, or a transport error.                     *)
Updated(data, zone, unit, area, thermostat, system) ==
    IF \E r \in {zone, unit, area, thermostat, system} : Propagates(r)
    THEN OmniConnectionError
    ELSE Returns([data EXCEPT !.zone_status = zone.value, !.unit_status = unit.value,
                              !.area_status = area.value,
                              !.thermostat_status = thermostat.value,
                              !.system_status = system])
Update(link, reachable, st, data) ==
    Updated(data, PollZoneStatus(link, reachable, st, data),
                  PollUnitStatus(link, reachable, st, data),
                  PollAreaStatus(link, reachable, st, data),
                  PollThermostatStatus(link, reachable, st, data),
                  SafeSystemStatus(link, reachable, st))

----------------------------------------------------------------------------
(* A pushed event.                                                         *)

PatchedZone(data, event) ==
    LET zone == event.zone_index
        existing == At(data.zone_status, zone, [index |-> zone, raw_status |-> 0, loop |-> 0])
        raw == 4 * (existing.raw_status \div 4) + event.new_state
    IN [data EXCEPT !.zone_status = With(@, zone, [existing EXCEPT !.raw_status = raw])]

PatchedUnitKeepsLevel(data, event) ==
    LET unit == event.unit_index
        existing == At(data.unit_status, unit,
                       [index |-> unit, state |-> 0, time_remaining_secs |-> 0])
        state == IF existing.state >= 100 THEN existing.state ELSE event.new_state
    IN [data EXCEPT !.unit_status = With(@, unit, [existing EXCEPT !.state = state])]

\* A light that is dimmed stays so: the event only says that it is on.
PatchedUnit(data, event) ==
    LET unit == event.unit_index
        existing == At(data.unit_status, unit,
                       [index |-> unit, state |-> 0, time_remaining_secs |-> 0])
        state == IF existing.state >= 100 /\ event.new_state = 1 THEN existing.state
                 ELSE event.new_state
    IN [data EXCEPT !.unit_status = With(@, unit, [existing EXCEPT !.state = state])]

PatchedArea(data, event) ==
    LET area == event.area_index
        existing == At(data.area_status, area,
                       [index |-> area, mode |-> 0, alarms |-> 0, entry_timer_secs |-> 0,
                        exit_timer_secs |-> 0, last_user |-> 0])
    IN IF area = 0 /\ area \notin DOMAIN data.area_status THEN data
       ELSE [data EXCEPT !.area_status =
                With(@, area, [existing EXCEPT !.mode = event.new_mode,
                                               !.last_user = event.user_index])]

PatchedForEvent(data, event) ==
    LET patched == CASE event.type = "ZONE_STATE_CHANGED" -> PatchedZone(data, event)
                     [] event.type = "UNIT_STATE_CHANGED" -> PatchedUnit(data, event)
                     [] event.type = "ARMING_CHANGED"     -> PatchedArea(data, event)
                     [] OTHER                             -> data
    IN [patched EXCEPT !.last_event = event]
=============================================================================
