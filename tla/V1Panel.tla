------------------------------ MODULE V1Panel ------------------------------
(***************************************************************************)
(* What the same panel answers in Omni-Link I: the v1 handlers of          *)
(* MockPanel (mock_panel.py).  The two streams of UploadStream are here    *)
(* what they send, one after the other.                                    *)
(***************************************************************************)
EXTENDS PanelState

V1ReplySystemInformation(st) == ReplySystemInformation(st)

(* The modes of the eight areas take the place of the alarms.              *)
V1ReplySystemStatus(st) ==
    Reply("SystemStatus",
          SystemStatusBody(st) \o [i \in 1..8 |-> At(st.areas, i, MockAreaState).mode])

BadRange == <<1, 0>>
V1DecodeRange(p) == CASE Len(p) = 2 -> p
                      [] Len(p) = 4 -> <<Word(p[1], p[2]), Word(p[3], p[4])>>
                      [] OTHER      -> BadRange

(* One record for every index of the range, defined or not; none for a bad *)
(* range.                                                                  *)
V1Indices(payload) == LET range == V1DecodeRange(payload) IN
    [n \in 1..(range[2] - range[1] + 1) |-> range[1] + n - 1]
V1Records(request, opcode, records) ==
    IF records = <<>> THEN Nak(request) ELSE Reply(opcode, FlattenSeq(records))

V1ZoneRecord(st, i) == IF i \in DOMAIN st.zones
                       THEN <<StatusByte(st.zones[i]), st.zones[i].loop>> ELSE <<0, 0>>
V1ReplyZoneStatus(st, payload) ==
    LET index == V1Indices(payload) IN
    V1Records("RequestZoneStatus", "ZoneStatus",
              [n \in DOMAIN index |-> V1ZoneRecord(st, index[n])])

V1UnitRecordOfUsed(st, i) == LET u == st.units[i] IN
    IF i \in DOMAIN st.units
    THEN <<u.state, HighByte(u.time_remaining), LowByte(u.time_remaining)>> ELSE <<>>
V1UnitRecord(st, i) == LET u == st.units[i] IN
    IF i \in DOMAIN st.units
    THEN <<u.state, HighByte(u.time_remaining), LowByte(u.time_remaining)>> ELSE <<0, 0, 0>>
V1ReplyUnitStatus(st, payload) ==
    LET index == V1Indices(payload) IN
    V1Records("RequestUnitStatus", "UnitStatus",
              [n \in DOMAIN index |-> V1UnitRecord(st, index[n])])

V1ThermostatRecord(st, i) == LET t == st.thermostats[i] IN
    IF i \in DOMAIN st.thermostats
    THEN <<1, t.temperature_raw, t.heat_setpoint_raw, t.cool_setpoint_raw,
           t.system_mode, t.fan_mode, t.hold_mode>>
    ELSE [n \in 1..7 |-> 0]
V1ReplyThermostatStatus(st, payload) ==
    LET index == V1Indices(payload) IN
    V1Records("RequestThermostatStatus", "ThermostatStatus",
              [n \in DOMAIN index |-> V1ThermostatRecord(st, index[n])])

V1ReplyAuxiliaryStatus(payload) ==
    V1Records("RequestAuxiliaryStatus", "AuxiliaryStatus",
              [n \in DOMAIN V1Indices(payload) |-> <<0, 0, 0, 0>>])

----------------------------------------------------------------------------
(* The records of the UploadNames stream: zones, units, buttons, areas and *)
(* thermostats with a name, each kind in order of its index.               *)

V1NameTypes == <<ZONE, UNIT, BUTTON, AREA, THERMOSTAT>>
V1NameLength == (ZONE :> 15) @@ (UNIT :> 12) @@ (BUTTON :> 12) @@ (AREA :> 12)
                @@ (THERMOSTAT :> 12)

(* A number above 255 takes two bytes.  The element after the name is the  *)
(* byte that ends it.                                                      *)
V1NamedataMsg(type, number, name) ==
    Reply("NameData",
          (IF number =< 255 THEN <<type, number>>
           ELSE <<type, HighByte(number), LowByte(number)>>)
          \o NameField(name, V1NameLength[type]) \o <<0>>)

V1NamesOf(st, type) ==
    LET store == ObjectStore(st, type)
        named == SetToSortSeq({i \in DOMAIN store : store[i].name # <<>>}, <)
    IN [n \in DOMAIN named |-> V1NamedataMsg(type, named[n], store[named[n]].name)]
V1NameStream(st) ==
    FlattenSeq([k \in DOMAIN V1NameTypes |-> V1NamesOf(st, V1NameTypes[k])])

V1ProgramdataMsg(st, slot) ==
    Reply("ProgramData", <<HighByte(slot), LowByte(slot)>> \o st.programs[slot])
V1ProgramStream(st) ==
    LET slots == SetToSortSeq(DOMAIN st.programs, <)
    IN [n \in DOMAIN slots |-> V1ProgramdataMsg(st, slots[n])]

----------------------------------------------------------------------------
(* The commands are those of v2, but for the opcode of the answer.         *)

V1Answer(answer, opcode) ==
    IF answer.reply.opcode = "Ack" THEN answer
    ELSE Answer(answer.state, Nak(opcode), <<>>)
V1HandleCommand(st, payload) == V1Answer(HandleCommand(st, payload), "Command")
V1HandleExecuteSecurityCommand(st, payload) ==
    V1Answer(HandleExecuteSecurityCommand(st, payload), "ExecuteSecurityCommand")

DispatchV1(st, opcode, payload) ==
    LET Only(reply) == Answer(st, reply, <<>>) IN
    CASE opcode = "RequestSystemInformation" -> Only(V1ReplySystemInformation(st))
      [] opcode = "RequestSystemStatus"      -> Only(V1ReplySystemStatus(st))
      [] opcode = "RequestZoneStatus"        -> Only(V1ReplyZoneStatus(st, payload))
      [] opcode = "RequestUnitStatus"        -> Only(V1ReplyUnitStatus(st, payload))
      [] opcode = "RequestThermostatStatus"  -> Only(V1ReplyThermostatStatus(st, payload))
      [] opcode = "RequestAuxiliaryStatus"   -> Only(V1ReplyAuxiliaryStatus(payload))
      [] opcode = "Command"                  -> V1HandleCommand(st, payload)
      [] opcode = "ExecuteSecurityCommand"   -> V1HandleExecuteSecurityCommand(st, payload)
      [] OTHER                               -> Refuse(st, opcode)
=============================================================================
