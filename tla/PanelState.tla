----------------------------- MODULE PanelState -----------------------------
(***************************************************************************)
(* What a panel keeps and what it does with a request: MockState and the   *)
(* request handlers of MockPanel (mock_panel.py), as operators on a record *)
(* `st`.  A handler gives the new state, the reply and the event words to  *)
(* push.                                                                   *)
(*                                                                         *)
(* A payload is a sequence of bytes, except that a fixed-width name field  *)
(* is a single element, the name itself (a sequence of characters).  The   *)
(* dicts of objects are functions from the 1-based index to a record.      *)
(***************************************************************************)
EXTENDS Wire, SequencesExt, TLC

ZONE == 1
UNIT == 2
BUTTON == 3
AREA == 5
THERMOSTAT == 6

StatusRecordSizes == (ZONE :> 4) @@ (UNIT :> 5) @@ (AREA :> 6) @@ (THERMOSTAT :> 9)
ExtendedStatusRecordSizes == (THERMOSTAT :> 14) @@ StatusRecordSizes

ZONE_NAME_LEN == 15
NAME_LEN == 12                            \* of every other kind of object

\* The object at index i of one of the dicts, or a default.
At(objects, i, default) == IF i \in DOMAIN objects THEN objects[i] ELSE default
With(objects, i, object) == (i :> object) @@ objects
Without(objects, i) == [j \in DOMAIN objects \ {i} |-> objects[j]]

----------------------------------------------------------------------------
(* The objects, as their dataclasses create them.                          *)

MockUnitState == [name |-> <<>>, state |-> 0, time_remaining |-> 0,
                  unit_type |-> 1, areas |-> 1]
MockAreaState == [name |-> <<>>, mode |-> 0, last_user |-> 0, entry_timer |-> 0,
                  exit_timer |-> 0, alarms |-> 0, entry_delay |-> 30,
                  exit_delay |-> 60, enabled |-> TRUE]
MockZoneState == [name |-> <<>>, current_state |-> 0, latched_state |-> 0,
                  arming_state |-> 0, is_bypassed |-> FALSE, loop |-> 0,
                  zone_type |-> 0, area |-> 1, options |-> 0]
MockButtonState == [name |-> <<>>]
MockThermostatState ==
    [name |-> <<>>, temperature_raw |-> 168, heat_setpoint_raw |-> 144,
     cool_setpoint_raw |-> 184, system_mode |-> 0, fan_mode |-> 0, hold_mode |-> 0,
     humidity_raw |-> 0, humidify_setpoint_raw |-> 0, dehumidify_setpoint_raw |-> 0,
     outdoor_temperature_raw |-> 0, horc_status |-> 0, status |-> 1,
     thermostat_type |-> 1, areas |-> 1]

NoObjects == <<>>
MockState == [model |-> 16, firmware |-> <<2, 12, 1>>, phone |-> <<>>,
              zones |-> NoObjects, units |-> NoObjects, areas |-> NoObjects,
              thermostats |-> NoObjects, buttons |-> NoObjects,
              user_codes |-> NoObjects, programs |-> NoObjects,
              time_set |-> TRUE, date |-> <<26, 5, 10, 1>>, time |-> <<12, 0, 0>>,
              daylight_saving |-> 0, sunrise |-> <<6, 30>>, sunset |-> <<19, 45>>,
              battery |-> 200]

(* The state of a two-bit current condition, a latched alarm and an arming *)
(* state in one byte; a bypass hides the arming state.                     *)
StatusByte(z) == (z.current_state % 4)
                 + 4 * ((z.latched_state \div 4) % 4)
                 + (IF z.is_bypassed THEN 32 ELSE 16 * ((z.arming_state \div 16) % 4))

NameField(name, width) == <<SubSeq(name, 1, Smaller(width, Len(name)))>>

----------------------------------------------------------------------------
(* The event words of the pushes.                                          *)

ZoneStateChangedWord(zone, state) ==
    1024 + LowByte(zone) + (IF state # 0 THEN 512 ELSE 0)
UnitStateChangedWord(unit, state) ==
    2048 + LowByte(unit) + (IF unit >= 256 THEN 256 ELSE 0) + (IF state # 0 THEN 512 ELSE 0)
ArmingChangedWord(area, mode, user) ==
    4096 * (mode % 8) + 256 * (area % 16) + LowByte(user)

----------------------------------------------------------------------------
(* Command and ExecuteSecurityCommand.                                     *)

Answer(st, reply, push) == [state |-> st, reply |-> reply, push |-> push]
Refuse(st, opcode) == Answer(st, Nak(opcode), <<>>)

SetUnit(st, unit, state) ==
    LET u == [At(st.units, unit, MockUnitState) EXCEPT !.state = state, !.time_remaining = 0]
    IN [st EXCEPT !.units = With(@, unit, u)]
SetBypass(st, zone, bypassed) ==
    [st EXCEPT !.zones =
        With(@, zone, [At(@, zone, MockZoneState) EXCEPT !.is_bypassed = bypassed])]
SetThermostat(st, thermostat, field, value) ==
    [st EXCEPT !.thermostats =
        With(@, thermostat, [At(@, thermostat, MockThermostatState) EXCEPT ![field] = value])]

\* The field of the thermostat that a setter command assigns.
ThermostatField == (Command.SET_THERMOSTAT_HEAT_SETPOINT :> "heat_setpoint_raw")
                   @@ (Command.SET_THERMOSTAT_COOL_SETPOINT :> "cool_setpoint_raw")
                   @@ (Command.SET_THERMOSTAT_SYSTEM_MODE :> "system_mode")
                   @@ (Command.SET_THERMOSTAT_FAN_MODE :> "fan_mode")
                   @@ (Command.SET_THERMOSTAT_HOLD_MODE :> "hold_mode")

HandleCommand(st, payload) ==
    LET cmd == payload[1]
        param1 == payload[2]
        param2 == Word(payload[3], payload[4])
        Changed(new, push) == Answer(new, Ack, push)
    IN IF Len(payload) < 4 \/ cmd \notin CommandBytes THEN Refuse(st, "Command")
       ELSE CASE cmd = Command.UNIT_OFF ->
                    Changed(SetUnit(st, param2, 0), <<UnitStateChangedWord(param2, 0)>>)
              [] cmd = Command.UNIT_ON ->
                    Changed(SetUnit(st, param2, 1), <<UnitStateChangedWord(param2, 1)>>)
              [] cmd = Command.UNIT_LEVEL ->
                    IF param1 > 100 THEN Refuse(st, "Command")
                    ELSE Changed(SetUnit(st, param2, 100 + param1),
                                 <<UnitStateChangedWord(param2, param1)>>)
              [] cmd = Command.BYPASS_ZONE ->
                    Changed(SetBypass(st, param2, TRUE), <<ZoneStateChangedWord(param2, 1)>>)
              [] cmd = Command.RESTORE_ZONE ->
                    Changed(SetBypass(st, param2, FALSE), <<ZoneStateChangedWord(param2, 0)>>)
              [] cmd \in DOMAIN ThermostatField ->
                    Changed(SetThermostat(st, param2, ThermostatField[cmd], param1), <<>>)
              [] OTHER -> Changed(st, <<>>)

(* A code matches the first user in the table that has it, and that user   *)
(* becomes the area's last one.  The mode is not checked.                  *)
HandleExecuteSecurityCommand(st, payload) ==
    LET area == payload[1]
        mode == payload[2]
        code == 1000 * payload[3] + 100 * payload[4] + 10 * payload[5] + payload[6]
        matching == {i \in DOMAIN st.user_codes : st.user_codes[i].pin = code}
        user == st.user_codes[CHOOSE i \in matching : \A j \in matching : i =< j].user
        armed == [At(st.areas, area, MockAreaState) EXCEPT !.mode = mode, !.last_user = user]
    IN IF Len(payload) < 6 \/ matching = {} THEN Refuse(st, "ExecuteSecurityCommand")
       ELSE Answer([st EXCEPT !.areas = With(@, area, armed)], Ack,
                   <<ArmingChangedWord(area, mode, user)>>)

----------------------------------------------------------------------------
(* Programs.                                                               *)

PROGRAM_SLOTS == 1500
NoBody == [i \in 1..14 |-> 0]

HandleDownloadProgram(st, payload) ==
    LET number == Word(payload[1], payload[2])
        body == SubSeq(payload, 3, 16)
    IN IF Len(payload) < 16 \/ number \notin 1..PROGRAM_SLOTS
       THEN Refuse(st, "DownloadProgram")
       ELSE Answer([st EXCEPT !.programs = IF body = NoBody THEN Without(@, number)
                                           ELSE With(@, number, body)], Ack, <<>>)

Lowest(S) == CHOOSE x \in S : \A y \in S : x =< y
Highest(S) == CHOOSE x \in S : \A y \in S : x >= y

(* Reason 1 asks for the next slot in use after the number, any other for  *)
(* the slot itself.                                                        *)
ReplyProgramData(st, payload) ==
    LET number == Word(payload[1], payload[2])
        next == Len(payload) >= 3 /\ payload[3] = 1
        later == {s \in DOMAIN st.programs : s > number}
        slot == IF next THEN Lowest(later) ELSE number
    IN IF Len(payload) < 2 THEN Nak("UploadProgram")
       ELSE IF next /\ later = {} THEN EOD
       ELSE Reply("ProgramData",
                  <<HighByte(slot), LowByte(slot)>> \o At(st.programs, slot, NoBody))

----------------------------------------------------------------------------
(* System information, properties and status.                              *)

ReplySystemInformation(st) ==
    Reply("SystemInformation", <<st.model>> \o st.firmware \o NameField(st.phone, 24))

SystemStatusBody(st) ==
    <<IF st.time_set THEN 1 ELSE 0>> \o st.date \o st.time
    \o <<st.daylight_saving>> \o st.sunrise \o st.sunset \o <<st.battery>>
ReplySystemStatus(st) == Reply("SystemStatus", SystemStatusBody(st))

ObjectStore(st, type) == CASE type = ZONE       -> st.zones
                           [] type = UNIT       -> st.units
                           [] type = AREA       -> st.areas
                           [] type = THERMOSTAT -> st.thermostats
                           [] type = BUTTON     -> st.buttons
ObjectTypes == {ZONE, UNIT, BUTTON, AREA, THERMOSTAT}

Header(type, index) == <<type, HighByte(index), LowByte(index)>>

BuildZoneProperties(z) == <<StatusByte(z), z.loop, z.zone_type, z.area, z.options>>
                          \o NameField(z.name, ZONE_NAME_LEN)
BuildUnitProperties(u) ==
    <<u.state, HighByte(u.time_remaining), LowByte(u.time_remaining), u.unit_type>>
    \o NameField(u.name, NAME_LEN) \o <<0, u.areas>>
BuildThermostatProperties(t) ==
    <<t.status, t.temperature_raw, t.heat_setpoint_raw, t.cool_setpoint_raw,
      t.system_mode, t.fan_mode, t.hold_mode, t.thermostat_type>>
    \o NameField(t.name, NAME_LEN)
BuildButtonProperties(b) == NameField(b.name, NAME_LEN)
BuildAreaProperties(a) ==
    <<a.mode, a.alarms, a.entry_timer, a.exit_timer, IF a.enabled THEN 1 ELSE 0,
      a.exit_delay, a.entry_delay>> \o NameField(a.name, NAME_LEN)

PropertiesBody(type, object) ==
    CASE type = ZONE       -> BuildZoneProperties(object)
      [] type = UNIT       -> BuildUnitProperties(object)
      [] type = AREA       -> BuildAreaProperties(object)
      [] type = THERMOSTAT -> BuildThermostatProperties(object)
      [] type = BUTTON     -> BuildButtonProperties(object)

(* Direction 0 asks for the index itself, 1 for the next object after it,  *)
(* 255 (minus one) for the one before it.                                  *)
ReplyProperties(st, payload) ==
    LET type == payload[1]
        index == Word(payload[2], payload[3])
        direction == payload[4]
        store == ObjectStore(st, type)
        candidates == {i \in DOMAIN store : CASE direction = 0 -> i = index
                                              [] direction = 1 -> i > index
                                              [] OTHER         -> i < index}
        target == IF direction = 255 THEN Highest(candidates) ELSE Lowest(candidates)
    IN IF Len(payload) < 7 \/ type \notin ObjectTypes \/ direction \notin {0, 1, 255}
       THEN Nak("RequestProperties")
       ELSE IF candidates = {} THEN EOD
       ELSE Reply("Properties", Header(type, target) \o PropertiesBody(type, store[target]))

StatusRecord(type, index, object) ==
    <<HighByte(index), LowByte(index)>> \o
    CASE type = ZONE -> <<StatusByte(object), object.loop>>
      [] type = UNIT -> <<LowByte(object.state), HighByte(object.time_remaining),
                          LowByte(object.time_remaining)>>
      [] type = AREA -> <<LowByte(object.mode), LowByte(object.alarms),
                          LowByte(object.entry_timer), LowByte(object.exit_timer)>>
      [] type = THERMOSTAT ->
             <<object.status, object.temperature_raw, object.heat_setpoint_raw,
               object.cool_setpoint_raw, object.system_mode, object.fan_mode,
               object.hold_mode>>

ExtendedStatusRecord(type, index, object) ==
    StatusRecord(type, index, object) \o
    (IF type = THERMOSTAT
     THEN <<object.humidity_raw, object.humidify_setpoint_raw,
            object.dehumidify_setpoint_raw, object.outdoor_temperature_raw,
            object.horc_status>>
     ELSE <<>>)

(* The records of the objects a range holds, in order of their index.      *)
RecordsInRange(store, type, start, end, extended) ==
    LET indices == SetToSortSeq({i \in DOMAIN store : start =< i /\ i =< end}, <)
    IN FlattenSeq([n \in DOMAIN indices |->
           IF extended THEN ExtendedStatusRecord(type, indices[n], store[indices[n]])
                       ELSE StatusRecord(type, indices[n], store[indices[n]])])

(* An extended reply tells the size of its records.                        *)
StatusReply(st, payload, extended) ==
    LET type == payload[1]
        sizes == IF extended THEN ExtendedStatusRecordSizes ELSE StatusRecordSizes
        records == RecordsInRange(ObjectStore(st, type), type, Word(payload[2], payload[3]),
                                  Word(payload[4], payload[5]), extended)
    IN IF Len(payload) < 5 \/ type \notin DOMAIN sizes
       THEN Nak(IF extended THEN "RequestExtendedStatus" ELSE "RequestStatus")
       ELSE IF records = <<>> THEN EOD
       ELSE IF extended THEN Reply("ExtendedStatus", <<type, sizes[type]>> \o records)
       ELSE Reply("Status", <<type>> \o records)

ReplyStatus(st, payload) == StatusReply(st, payload, FALSE)
ReplyExtendedStatus(st, payload) == StatusReply(st, payload, TRUE)

----------------------------------------------------------------------------
(* Which handler answers a request.                                        *)

DispatchV2(st, opcode, payload) ==
    LET Only(reply) == Answer(st, reply, <<>>) IN
    CASE opcode = "RequestSystemInformation" -> Only(ReplySystemInformation(st))
      [] opcode = "RequestSystemStatus"      -> Only(ReplySystemStatus(st))
      [] opcode = "RequestProperties"        -> Only(ReplyProperties(st, payload))
      [] opcode = "Command"                  -> HandleCommand(st, payload)
      [] opcode = "ExecuteSecurityCommand"   -> HandleExecuteSecurityCommand(st, payload)
      [] opcode = "RequestStatus"            -> Only(ReplyStatus(st, payload))
      [] opcode = "RequestExtendedStatus"    -> Only(ReplyExtendedStatus(st, payload))
      [] opcode = "AcknowledgeAlerts"        -> Only(Ack)
      [] opcode = "UploadProgram"            -> Only(ReplyProgramData(st, payload))
      [] opcode = "DownloadProgram"          -> HandleDownloadProgram(st, payload)
      [] OTHER                               -> Refuse(st, opcode)

(* A message holds at most 255 bytes of data and a packet 250.  The message *)
(* is sent with five bytes more than its payload, in blocks of 16; a reply *)
(* that does not fit raises, and the connection ends without it.           *)
MAX_REPLY == 235
NoReply == Reply("NoReply", <<>>)
Sent(reply) == IF Len(reply.payload) > MAX_REPLY THEN NoReply ELSE reply

BuildSystemEventsMessage(words) ==
    Reply("SystemEvents",
          FlattenSeq([i \in DOMAIN words |-> <<HighByte(words[i]), LowByte(words[i])>>]))
=============================================================================
