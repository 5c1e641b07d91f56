---------------------------- MODULE MCHomePanel ----------------------------
(***************************************************************************)
(* Instances of HomePanel for TLC.                                         *)
(***************************************************************************)
EXTENDS HomePanel

(* Two zones with an index in between that is not used, one of them a fire *)
(* zone; a thermostat sensor; two lights and a unit without a name; an     *)
(* area; thermostats in three modes; a button; users; a program.           *)
Zone(name, type) == [MockZoneState EXCEPT !.name = <<name>>, !.zone_type = type]
Thermostat(mode) == [MockThermostatState EXCEPT !.name = <<"STAT">>, !.system_mode = mode]
MCPanel ==
    [MockState EXCEPT
        !.zones = (1 :> Zone("DOOR", 0)) @@ (3 :> Zone("SMOKE", 32)) @@
                  (4 :> [Zone("ATTIC", 81) EXCEPT !.loop = 144]),
        !.units = (2 :> [MockUnitState EXCEPT !.name = <<"LAMP">>]) @@
                  (3 :> MockUnitState) @@
                  (5 :> [MockUnitState EXCEPT !.name = <<"HALL">>, !.state = 1]),
        !.areas = (1 :> [MockAreaState EXCEPT !.name = <<"HOUSE">>]),
        !.thermostats = (2 :> Thermostat(3)) @@ (3 :> Thermostat(1)) @@ (5 :> Thermostat(2)),
        !.buttons = (7 :> [MockButtonState EXCEPT !.name = <<"SCENE">>]),
        !.user_codes = (1 :> [user |-> 4, pin |-> 1234]) @@ (2 :> [user |-> 9, pin |-> 1234]),
        !.programs = (12 :> [NoBody EXCEPT ![1] = 1, ![6] = 1, ![13] = 6])]

\* What the program in slot 12 is copied as.
Copied == FromWireBytes(MCPanel.programs[12])

(* Every kind of request, first or second; the second calls undo, change   *)
(* or follow the first.                                                    *)
One(request) == <<request>>
MCCalls(n, snapshot) ==
    IF n = 1
    THEN {One(LightTurnOn(2)), One(LightTurnOnAt(2, 128)), One(BypassTurnOn(1)),
          One(AlarmSend(1, "arm_away", 1234)), One(AlarmSend(1, "arm_home", 99)),
          SetTemperature(snapshot, 2, [low |-> 66, high |-> 75])}
    ELSE {One(LightTurnOff(2)), One(LightTurnOnAt(2, 64)), One(BypassTurnOff(1)),
          One(AlarmSend(1, "disarm", 1234)), One(AlarmSend(1, "arm_night", NoCode)),
          One(SetHvacMode(2, "off")), One(SetFanMode(2, "on")), One(ButtonPress(7)),
          One(SetPresetMode(2, "vacation")), SetTemperature(snapshot, 5, [temperature |-> 71]),
          SetTemperature(snapshot, 2, [hvac_mode |-> "cool", temperature |-> 68])}
\* Scripts: one service after the other, different ones over either protocol.
MCServices(n, protocol) ==
    CASE n = 1 -> {}
      [] n > 1 /\ protocol = "v2" ->
             {One(ServiceZoneBypass(1)), One(ServiceSendCommand(Command.UNIT_LEVEL, 0, 2)), <<DownloadProgram(13, Copied), ClearProgram(12)>>,
              ServiceAcknowledgeAlerts("v2") \o One(ServiceSendCommand(255, 0, 5))}
      [] n > 1 /\ protocol = "v1" ->
             {One(ServiceZoneRestore(1)), One(ServiceSendCommand(Command.UNIT_ON, 0, 5)),
              One(ServiceShowMessage(1)) \o One(ServiceClearMessage(1)),
              One(ServiceExecuteProgram(12)) \o ServiceAcknowledgeAlerts("v1"),
              One(V1DownloadProgram(13, Copied)), One(V1ClearProgram(12))}

(* What a user sets is what the entity shows once the panel has it: levels,  *)
(* modes, and setpoints in whole degrees of either scale.                   *)
ASSUME SettingsRoundTrip ==
    /\ \A state \in {0, 1} \cup 101..200 :
           HaBrightnessToOmniPercent(OmniStateToHaBrightness(state))
               = Brightness([state |-> state])
    /\ \A mode \in DOMAIN HaHvacToOmni : OmniHvacToHa(HaHvacToOmni[mode]) = mode
    /\ \A mode \in DOMAIN HaFanToOmni \ {"cycle"} : OmniFanToHa(HaFanToOmni[mode]) = mode
    /\ \A preset \in DOMAIN HaHoldToOmni : OmniHoldToHa(HaHoldToOmni[preset]) = preset
    /\ \A f \in -40..189 : OmniTempToFahrenheit(FahrenheitToOmniRaw(f)) = f
    /\ \A c \in -40..87 : OmniTempToCelsius2(CelsiusToOmniRaw(c)) = 2 * c

(* The tables of helpers.py and the enumerations of models.py, which are   *)
(* written apart, are about the same codes.                                *)
ASSUME EnumerationsAgree ==
    LET Members(enum) == {enum[member] : member \in DOMAIN enum}
        Shows(mode) == SecurityModeToAlarmState(
                           [mode |-> mode, alarms |-> 0, entry_timer_secs |-> 0,
                            exit_timer_secs |-> 0])
    IN /\ ANALOG_ZONE_TYPES \cup LATCHED_ALARM_ZONE_TYPES \subseteq Members(ZoneType)
       /\ \A mode \in Members(HvacMode) : OmniHvacToHa(mode) = "off" <=> mode = HvacMode.OFF
       /\ Members(HaFanToOmni) = Members(FanMode)
       /\ Members(HaHoldToOmni) \cup {HoldMode.OLD_ON} = Members(HoldMode)
       /\ OmniHoldToHa(HoldMode.OLD_ON) = OmniHoldToHa(HoldMode.HOLD)
       /\ \A mode \in Members(SecurityMode) :
              IsArmed([mode |-> mode]) <=> Shows(mode) # "disarmed"
=============================================================================
