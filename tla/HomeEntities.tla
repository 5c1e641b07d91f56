---------------------------- MODULE HomeEntities ----------------------------
(***************************************************************************)
(* The Home Assistant entities of an entry and its services: the state     *)
(* each shows of a snapshot of HomeData, and the request each command of   *)
(* the user sends (helpers.py and the platform modules).                   *)
(*                                                                         *)
(* A platform is a function from the index of an object to the state shown *)
(* of it; an object without a status yet is not in its domain.             *)
(***************************************************************************)
EXTENDS HomeData

\* round(n / d) of Python: to the nearest, and to the even one of two.
Rounded(n, d) == LET q == n \div d
                     twice == 2 * (n % d)
                 IN IF twice < d \/ (twice = d /\ q % 2 = 0) THEN q ELSE q + 1
Clamped(x, low, high) == CASE x < low -> low [] x > high -> high [] OTHER -> x

----------------------------------------------------------------------------
(* helpers.py.                                                             *)

ANALOG_ZONE_TYPES == 80..84
IsBinaryZoneType(type) == type \notin ANALOG_ZONE_TYPES
LATCHED_ALARM_ZONE_TYPES == {16, 17, 18, 19, 20, 56, 32, 33, 34, 48, 54, 55}
UseLatchedAlarmForZone(type) == type \in LATCHED_ALARM_ZONE_TYPES
AnalogZoneDeviceClass(type) == CASE type = 80       -> "power"
                                 [] type \in 81..83 -> "temperature"
                                 [] type = 84       -> "humidity"

ModeStates == <<"armed_home", "armed_night", "armed_away", "armed_vacation",
                "armed_custom_bypass", "armed_night">>
ARMING_MODES == 9..14
SecurityModeToAlarmState(area) ==
    CASE AlarmActive(area) -> "triggered"
      [] ~AlarmActive(area) /\ area.entry_timer_secs > 0 -> "pending"
      [] ~AlarmActive(area) /\ area.entry_timer_secs = 0
         /\ (area.mode \in ARMING_MODES \/ area.exit_timer_secs > 0) -> "arming"
      [] OTHER -> IF area.mode \in DOMAIN ModeStates THEN ModeStates[area.mode]
                  ELSE "disarmed"
ARM_SERVICE_TO_SECURITY_MODE ==
    [arm_home |-> 1, arm_away |-> 3, arm_night |-> 2, arm_vacation |-> 4,
     arm_custom_bypass |-> 5, disarm |-> 0]

NoBrightness == 0
OmniStateToHaBrightness(state) ==
    CASE state = 0         -> NoBrightness
      [] state \in 100..200 -> Clamped(Rounded((state - 100) * 255, 100), 1, 255)
      [] OTHER              -> 255
HaBrightnessToOmniPercent(brightness) ==
    CASE brightness =< 0    -> 0
      [] brightness >= 255  -> 100
      [] OTHER              -> Clamped(Rounded(brightness * 100, 255), 1, 100)

OmniHvacToHa(mode) == IF mode \in 1..4 THEN <<"heat", "cool", "heat_cool", "heat">>[mode]
                      ELSE "off"
HaHvacToOmni == [off |-> 0, heat |-> 1, cool |-> 2, heat_cool |-> 3]
OmniFanToHa(mode) == IF mode \in 1..2 THEN <<"on", "diffuse">>[mode] ELSE "auto"
HaFanToOmni == [auto |-> 0, on |-> 1, diffuse |-> 2, cycle |-> 2]
OmniHoldToHa(mode) == CASE mode \in {1, 255} -> "hold"
                        [] mode = 2          -> "vacation"
                        [] OTHER             -> "none"
HaHoldToOmni == [none |-> 0, hold |-> 1, vacation |-> 2]
FahrenheitToOmniRaw(f) == Clamped(Rounded((f + 40) * 10, 9), 0, 255)
CelsiusToOmniRaw(c) == Clamped((c + 40) * 2, 0, 255)

----------------------------------------------------------------------------
(* Lights and bypass switches.                                             *)

Shown(objects, status) == DOMAIN objects \cap DOMAIN status

Lights(data) ==
    [i \in Shown(data.units, data.unit_status) |->
        LET unit == data.unit_status[i] IN
        [is_on |-> IsOn(unit), brightness |-> OmniStateToHaBrightness(unit.state)]]
LightTurnOn(i) == Operation("turn_unit_on", i, 0)
LightTurnOnAt(i, brightness) ==
    Operation("set_unit_level", i, HaBrightnessToOmniPercent(brightness))
LightTurnOff(i) == Operation("turn_unit_off", i, 0)

BinaryZones(data) == {i \in DOMAIN data.zones : IsBinaryZoneType(data.zones[i].zone_type)}
BypassSwitches(data) ==
    [i \in BinaryZones(data) \cap DOMAIN data.zone_status |-> IsBypassed(data.zone_status[i])]
BypassTurnOn(i) == Operation("bypass_zone", i, 0)
BypassTurnOff(i) == Operation("restore_zone", i, 0)

----------------------------------------------------------------------------
(* Areas.                                                                  *)

AlarmPanels(data) == [i \in Shown(data.areas, data.area_status) |->
                         SecurityModeToAlarmState(data.area_status[i])]
NoCode == -1
AlarmSend(i, service, code) ==
    IF code = NoCode THEN Raises("HomeAssistantError")
    ELSE SecurityRequest(i, ARM_SERVICE_TO_SECURITY_MODE[service], code)

----------------------------------------------------------------------------
(* Thermostats.  Nothing is shown of a value the panel does not have.      *)

Reading(raw, shown) == IF raw = 0 THEN <<>> ELSE <<shown>>
Setpoint(status, modes, raw) ==
    IF status.system_mode \in modes THEN <<OmniTempToFahrenheit(raw)>> ELSE <<>>

ClimateState(s) ==
    [current_temperature |-> Reading(s.temperature_raw, OmniTempToFahrenheit(s.temperature_raw)),
     current_humidity |-> Reading(s.humidity_raw, s.humidity_raw),
     hvac_mode |-> OmniHvacToHa(s.system_mode),
     target_temperature |-> Setpoint(s, {HvacMode.HEAT}, s.heat_setpoint_raw)
                            \o Setpoint(s, {HvacMode.COOL}, s.cool_setpoint_raw),
     target_temperature_high |-> Setpoint(s, {HvacMode.AUTO}, s.cool_setpoint_raw),
     target_temperature_low |-> Setpoint(s, {HvacMode.AUTO}, s.heat_setpoint_raw),
     fan_mode |-> OmniFanToHa(s.fan_mode), preset_mode |-> OmniHoldToHa(s.hold_mode)]
Climates(data) == [i \in Shown(data.thermostats, data.thermostat_status) |->
                      ClimateState(data.thermostat_status[i])]

SetHvacMode(i, mode) ==
    Operation("set_thermostat_system_mode", i, HaHvacToOmni[mode])
SetFanMode(i, mode) == Operation("set_thermostat_fan_mode", i, HaFanToOmni[mode])
SetPresetMode(i, preset) ==
    Operation("set_thermostat_hold_mode", i, HaHoldToOmni[preset])

(* The setpoints of set_temperature, in order: which one a single           *)
(* temperature is depends on the mode of the snapshot.  `call` has some of *)
(* the fields hvac_mode, low, high and temperature.                        *)
Setpoints(data, i, call) ==
    LET Heat(f) == <<Operation("set_thermostat_heat_setpoint_raw", i, FahrenheitToOmniRaw(f))>>
        Cool(f) == <<Operation("set_thermostat_cool_setpoint_raw", i, FahrenheitToOmniRaw(f))>>
        Given(field) == field \in DOMAIN call
        mode == data.thermostat_status[i].system_mode
    IN IF i \notin DOMAIN data.thermostat_status THEN <<Raises("HomeAssistantError")>>
       ELSE (IF Given("low") THEN Heat(call.low) ELSE <<>>)
            \o (IF Given("high") THEN Cool(call.high) ELSE <<>>)
            \o (IF Given("temperature") /\ mode = HvacMode.HEAT
                THEN Heat(call.temperature) ELSE <<>>)
            \o (IF Given("temperature") /\ mode = HvacMode.COOL
                THEN Cool(call.temperature) ELSE <<>>)

(* A mode is sent first, and the snapshot is read only after that and the  *)
(* update it asks for.                                                     *)
SetpointsLater(i, call) == [thermostat |-> i, later |-> call]
IsLater(request) == "later" \in DOMAIN request
SetTemperature(data, i, call) ==
    IF "hvac_mode" \in DOMAIN call
    THEN <<SetHvacMode(i, call.hvac_mode), SetpointsLater(i, call)>>
    ELSE Setpoints(data, i, call)

----------------------------------------------------------------------------
(* Binary sensors.                                                         *)

ZoneSensors(data) ==
    [i \in BinaryZones(data) \cap DOMAIN data.zone_status |->
        IF UseLatchedAlarmForZone(data.zones[i].zone_type)
        THEN IsInAlarm(data.zone_status[i]) ELSE IsOpen(data.zone_status[i])]
BypassedSensors(data) == BypassSwitches(data)

\* Each gives a sequence: empty while there is nothing to tell it from.
AcPower(data) ==
    CASE data.last_event.type = "AC_LOST"     -> <<FALSE>>
      [] data.last_event.type = "AC_RESTORED" -> <<TRUE>>
      [] OTHER -> IF data.system_status = NoStatus THEN <<>> ELSE <<AcOk(data.system_status)>>
BackupBatteryLow(data) ==
    CASE data.last_event.type = "BATTERY_LOW"      -> <<TRUE>>
      [] data.last_event.type = "BATTERY_RESTORED" -> <<FALSE>>
      [] OTHER -> IF data.system_status = NoStatus THEN <<>>
                  ELSE <<~BatteryOk(data.system_status)>>
SystemTrouble(data) ==
    IF data.system_status = NoStatus THEN <<>> ELSE <<Troubles(data.system_status) # {}>>

----------------------------------------------------------------------------
(* Sensors and buttons.                                                    *)

AnalogZones(data) ==
    [i \in (DOMAIN data.zones \cap DOMAIN data.zone_status) \ BinaryZones(data) |->
        LET loop == data.zone_status[i].loop IN
        IF AnalogZoneDeviceClass(data.zones[i].zone_type) = "temperature"
        THEN Rounded(loop * 9, 10) - 40 ELSE loop]
ThermostatSensors(data) ==
    [i \in Shown(data.thermostats, data.thermostat_status) |->
        LET s == data.thermostat_status[i] IN
        [temperature |-> Reading(s.temperature_raw, OmniTempToFahrenheit(s.temperature_raw)),
         humidity |-> Reading(s.humidity_raw, s.humidity_raw),
         outdoor |-> Reading(s.outdoor_temperature_raw,
                             OmniTempToFahrenheit(s.outdoor_temperature_raw))]]

ButtonPress(i) == Operation("execute_button", i, 0)

----------------------------------------------------------------------------
(* Services.                                                               *)

ServiceValidationError == Raises("ServiceValidationError")
ServiceZoneBypass(i) == Operation("bypass_zone", i, 0)
ServiceZoneRestore(i) == Operation("restore_zone", i, 0)
ServiceExecuteProgram(i) == Operation("execute_program", i, 0)
ServiceShowMessage(i) == Operation("show_message_with_beep", i, 0)
ServiceClearMessage(i) == Operation("clear_message", i, 0)
ServiceAcknowledgeAlerts(link) ==
    IF link = "v2" THEN <<AcknowledgeAlerts>> ELSE V1AcknowledgeAlerts
ServiceSendCommand(command, parameter1, parameter2) ==
    IF command \notin CommandBytes THEN ServiceValidationError
    ELSE CommandRequest(command, parameter1, parameter2)
=============================================================================
