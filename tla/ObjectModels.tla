---------------------------- MODULE ObjectModels ----------------------------
(***************************************************************************)
(* The objects of models.py: what a Properties reply and a status record   *)
(* decode to, and what each property of the decoded object means.          *)
(*                                                                         *)
(* A payload is laid out as in PanelState: a name field is one element.  A *)
(* parser that refuses its payload raises ValueError.                      *)
(***************************************************************************)
EXTENDS Wire

ObjectType == [INVALID |-> 0, ZONE |-> 1, UNIT |-> 2, BUTTON |-> 3, CODE |-> 4,
               AREA |-> 5, THERMOSTAT |-> 6, MESSAGE |-> 7, AUXILIARY |-> 8,
               AUDIO_SOURCE |-> 9, AUDIO_ZONE |-> 10, EXPANSION |-> 11, CONSOLE |-> 12,
               USER_SETTING |-> 13, ACCESS_CONTROL_READER |-> 14,
               ACCESS_CONTROL_LOCK |-> 15]
SecurityMode == [OFF |-> 0, DAY |-> 1, NIGHT |-> 2, AWAY |-> 3, VACATION |-> 4,
                 DAY_INSTANT |-> 5, NIGHT_DELAYED |-> 6, ANY_CHANGE |-> 7,
                 ARMING_DAY |-> 9, ARMING_NIGHT |-> 10, ARMING_AWAY |-> 11,
                 ARMING_VACATION |-> 12, ARMING_DAY_INSTANT |-> 13,
                 ARMING_NIGHT_DELAYED |-> 14]
HvacMode == [OFF |-> 0, HEAT |-> 1, COOL |-> 2, AUTO |-> 3, EMERGENCY_HEAT |-> 4]
FanMode == [AUTO |-> 0, ON |-> 1, CYCLE |-> 2]
HoldMode == [OFF |-> 0, HOLD |-> 1, VACATION |-> 2, OLD_ON |-> 255]
ZoneType == [PANIC |-> 16, POLICE_EMERGENCY |-> 17, SILENT_DURESS |-> 18, TAMPER |-> 19,
             LATCHING_TAMPER |-> 20, FIRE |-> 32, FIRE_EMERGENCY |-> 33, GAS |-> 34,
             AUX_EMERGENCY |-> 48, TROUBLE |-> 49, FREEZE |-> 54, WATER |-> 55,
             FIRE_TAMPER |-> 56, ENERGY_SAVER |-> 80, OUTDOOR_TEMP |-> 81,
             TEMPERATURE |-> 82, TEMP_ALARM |-> 83, HUMIDITY |-> 84]

Raises(error) == [error |-> error]
Failed(result) == "error" \in DOMAIN result
ValueError == Raises("ValueError")

----------------------------------------------------------------------------
(* The panel itself.                                                       *)

Signed8(byte) == IF byte >= 128 THEN byte - 256 ELSE byte

ParseSystemInformation(p) ==
    IF Len(p) < 4 THEN ValueError
    ELSE [model_byte |-> p[1], firmware_major |-> p[2], firmware_minor |-> p[3],
          firmware_revision |-> Signed8(p[4]),
          local_phone |-> IF Len(p) > 4 THEN p[5] ELSE <<>>]

None == <<"none">>
IsPanelTime(date, time) ==
    /\ date[2] \in 1..12 /\ date[3] \in 1..31
    /\ (date[2] \in {4, 6, 9, 11} => date[3] =< 30)
    /\ (date[2] = 2 => date[3] =< IF date[1] % 4 = 0 /\ date[1] # 100 /\ date[1] # 200
                                  THEN 29 ELSE 28)
    /\ time[1] < 24 /\ time[2] < 60 /\ time[3] < 60

(* Whatever follows the battery reading is taken for pairs of alarm bytes. *)
ParseSystemStatus(p) ==
    LET time_valid == p[1] # 0
        date == SubSeq(p, 2, 4)
        time == SubSeq(p, 6, 8)
    IN IF Len(p) < 14 THEN ValueError
       ELSE [time_valid |-> time_valid,
             panel_time |-> IF time_valid /\ IsPanelTime(date, time)
                            THEN <<2000 + date[1], date[2], date[3]>> \o time ELSE None,
             sunrise |-> SubSeq(p, 10, 11), sunset |-> SubSeq(p, 12, 13),
             battery_reading |-> p[14],
             area_alarms |-> [i \in 1..((Len(p) - 14) \div 2) |->
                                 <<p[13 + 2 * i], p[14 + 2 * i]>>]]

BatteryOk(status) == status.battery_reading >= 192
AcOk(status) == status.battery_reading # 0
Troubles(status) ==
    {trouble \in {"battery_low", "ac_loss", "area_alarm"} :
        CASE trouble = "battery_low" -> ~ BatteryOk(status)
          [] trouble = "ac_loss"     -> ~ AcOk(status)
          [] trouble = "area_alarm"  -> status.area_alarms # <<>>}

----------------------------------------------------------------------------
(* The Properties of an object: `least` elements of the given type.        *)

IndexOf(p) == Word(p[2], p[3])
Parsed(p, type, least, object) ==
    IF Len(p) < 3 \/ p[1] # type \/ Len(p) < least THEN ValueError ELSE object

ZoneProperties(p) ==
    Parsed(p, ObjectType.ZONE, 9,
           [index |-> IndexOf(p), status |-> p[4], loop |-> p[5], zone_type |-> p[6],
            area |-> p[7], options |-> p[8], name |-> p[9]])
UnitProperties(p) ==
    Parsed(p, ObjectType.UNIT, 8,
           [index |-> IndexOf(p), status |-> p[4], time |-> Word(p[5], p[6]),
            unit_type |-> p[7], name |-> p[8], areas |-> IF Len(p) > 9 THEN p[10] ELSE 0])
AreaProperties(p) ==
    Parsed(p, ObjectType.AREA, 11,
           [index |-> IndexOf(p), mode |-> p[4], alarms |-> p[5], enabled |-> p[8] # 0,
            exit_delay |-> p[9], entry_delay |-> p[10], name |-> p[11]])
ThermostatProperties(p) ==
    Parsed(p, ObjectType.THERMOSTAT, 12,
           [index |-> IndexOf(p), communicating |-> p[4] # 0, thermostat_type |-> p[11],
            name |-> p[12]])
Named(p, type) == Parsed(p, type, 4, [index |-> IndexOf(p), name |-> p[4]])
ButtonProperties(p) == Named(p, ObjectType.BUTTON)
CodeProperties(p) == Named(p, ObjectType.CODE)
AudioSourceProperties(p) == Named(p, ObjectType.AUDIO_SOURCE)
MessageProperties(p) ==
    Parsed(p, ObjectType.MESSAGE, 4,
           [index |-> IndexOf(p), name |-> p[4], text |-> p[4],
            areas |-> IF Len(p) > 5 THEN p[6] ELSE 0])
AudioZoneProperties(p) ==
    Parsed(p, ObjectType.AUDIO_ZONE, 8,
           [index |-> IndexOf(p), power |-> p[4] # 0, source |-> p[5], volume |-> p[6],
            mute |-> p[7] # 0, name |-> p[8]])
UserSettingProperties(p) ==
    Parsed(p, ObjectType.USER_SETTING, 7,
           [index |-> IndexOf(p), setting_type |-> p[4], value |-> Word(p[5], p[6]),
            name |-> p[7]])

----------------------------------------------------------------------------
(* Status records.                                                         *)

Status(record, least, object) == IF Len(record) < least THEN ValueError ELSE object
Number(r) == Word(r[1], r[2])

ParseZoneStatus(r) == Status(r, 4, [index |-> Number(r), raw_status |-> r[3], loop |-> r[4]])
CurrentState(zone) == zone.raw_status % 4
IsOpen(zone) == CurrentState(zone) # 0
IsInAlarm(zone) == BitOf(zone.raw_status, 2) = 1
IsBypassed(zone) == BitOf(zone.raw_status, 5) = 1

ParseUnitStatus(r) ==
    Status(r, 5, [index |-> Number(r), state |-> r[3],
                  time_remaining_secs |-> Word(r[4], r[5])])
IsOn(unit) == unit.state # 0
Brightness(unit) == CASE unit.state \in 100..200 -> unit.state - 100
                      [] unit.state = 0          -> 0
                      [] unit.state = 1          -> 100
                      [] OTHER                   -> None

ParseAreaStatus(r) ==
    Status(r, 6, [index |-> Number(r), mode |-> r[3], alarms |-> r[4],
                  entry_timer_secs |-> r[5], exit_timer_secs |-> r[6], last_user |-> 0])
IsArmed(area) == area.mode \notin {SecurityMode.OFF, SecurityMode.ANY_CHANGE}
AlarmActive(area) == area.alarms # 0

ParseThermostatStatus(r) ==
    Status(r, 14,
           [index |-> Number(r), status |-> r[3], temperature_raw |-> r[4],
            heat_setpoint_raw |-> r[5], cool_setpoint_raw |-> r[6], system_mode |-> r[7],
            fan_mode |-> r[8], hold_mode |-> r[9], humidity_raw |-> r[10],
            humidify_setpoint_raw |-> r[11], dehumidify_setpoint_raw |-> r[12],
            outdoor_temperature_raw |-> r[13], horc_status |-> r[14]])
ParseAuxSensorStatus(r) ==
    Status(r, 6, [index |-> Number(r), output |-> r[3], value_raw |-> r[4],
                  low_raw |-> r[5], high_raw |-> r[6]])
ParseAudioZoneStatus(r) ==
    Status(r, 6, [index |-> Number(r), power |-> r[3] # 0, source |-> r[4],
                  volume |-> r[5], mute |-> r[6] # 0])
ParseAudioSourceStatus(r) ==
    Status(r, 5, [index |-> Number(r), sequence |-> r[3], position |-> r[4],
                  field_id |-> r[5], text |-> SubSeq(r, 6, Len(r))])
ParseUserSettingStatus(r) ==
    Status(r, 5, [index |-> Number(r), setting_type |-> r[3], value |-> Word(r[4], r[5])])

ParseProperties(type, p) ==
    CASE type = ObjectType.ZONE         -> ZoneProperties(p)
      [] type = ObjectType.UNIT         -> UnitProperties(p)
      [] type = ObjectType.BUTTON       -> ButtonProperties(p)
      [] type = ObjectType.CODE         -> CodeProperties(p)
      [] type = ObjectType.AREA         -> AreaProperties(p)
      [] type = ObjectType.THERMOSTAT   -> ThermostatProperties(p)
      [] type = ObjectType.MESSAGE      -> MessageProperties(p)
      [] type = ObjectType.AUDIO_SOURCE -> AudioSourceProperties(p)
      [] type = ObjectType.AUDIO_ZONE   -> AudioZoneProperties(p)
      [] type = ObjectType.USER_SETTING -> UserSettingProperties(p)

HasStatus == {ObjectType[t] : t \in {"ZONE", "UNIT", "AREA", "THERMOSTAT", "AUXILIARY",
                  "AUDIO_ZONE", "AUDIO_SOURCE", "USER_SETTING"}}
ParseStatus(type, r) ==
    CASE type = ObjectType.ZONE         -> ParseZoneStatus(r)
      [] type = ObjectType.UNIT         -> ParseUnitStatus(r)
      [] type = ObjectType.AREA         -> ParseAreaStatus(r)
      [] type = ObjectType.THERMOSTAT   -> ParseThermostatStatus(r)
      [] type = ObjectType.AUXILIARY    -> ParseAuxSensorStatus(r)
      [] type = ObjectType.AUDIO_ZONE   -> ParseAudioZoneStatus(r)
      [] type = ObjectType.AUDIO_SOURCE -> ParseAudioSourceStatus(r)
      [] type = ObjectType.USER_SETTING -> ParseUserSettingStatus(r)

----------------------------------------------------------------------------
(* Temperatures: twice the degrees Celsius; whole degrees Fahrenheit.      *)

OmniTempToCelsius2(raw) == raw - 80
OmniTempToFahrenheit(raw) == ((9 * raw + 5) \div 10) - 40
=============================================================================
