---------------------------- MODULE PanelClient ----------------------------
(***************************************************************************)
(* OmniClient (client.py): the request each method builds and what it      *)
(* makes of the answer.  The panel at the other end is that of PanelState; *)
(* when a request is answered, late or not at all is the subject of        *)
(* OmniLink, and here every request is.                                    *)
(***************************************************************************)
EXTENDS PanelState, ObjectModels, ProgramRecord

Returns(value) == [value |-> value]
Done == Returns("None")
CommandFailedError == Raises("CommandFailedError")
OmniConnectionError == Raises("OmniConnectionError")
NotImplementedError == Raises("NotImplementedError")

\* What the panel st answers to a request that does not change it.
Asked(st, opcode, payload) == Sent(DispatchV2(st, opcode, payload).reply)
Expect(reply, opcode, result) == IF reply.opcode = opcode THEN result ELSE OmniConnectionError

----------------------------------------------------------------------------
(* Commands.  An operation is a name with the index and the value it is    *)
(* called with.                                                            *)

Request(opcode, payload) == [opcode |-> opcode, payload |-> payload]

CommandRequest(command, parameter1, parameter2) ==
    IF parameter1 \notin Byte \/ parameter2 \notin 0..65535 THEN ValueError
    ELSE Request("Command", <<command, parameter1, HighByte(parameter2), LowByte(parameter2)>>)

SecurityRequest(area, mode, code) ==
    IF area \notin 1..255 \/ code \notin 0..9999 THEN ValueError
    ELSE Request("ExecuteSecurityCommand",
                 <<area, LowByte(mode), code \div 1000, (code \div 100) % 10,
                   (code \div 10) % 10, code % 10>>)

CommandOf == [turn_unit_on |-> Command.UNIT_ON, turn_unit_off |-> Command.UNIT_OFF,
              set_unit_level |-> Command.UNIT_LEVEL, bypass_zone |-> Command.BYPASS_ZONE,
              restore_zone |-> Command.RESTORE_ZONE,
              set_thermostat_system_mode |-> Command.SET_THERMOSTAT_SYSTEM_MODE,
              set_thermostat_fan_mode |-> Command.SET_THERMOSTAT_FAN_MODE,
              set_thermostat_hold_mode |-> Command.SET_THERMOSTAT_HOLD_MODE,
              set_thermostat_heat_setpoint_raw |-> Command.SET_THERMOSTAT_HEAT_SETPOINT,
              set_thermostat_cool_setpoint_raw |-> Command.SET_THERMOSTAT_COOL_SETPOINT,
              execute_button |-> Command.EXECUTE_BUTTON,
              execute_program |-> Command.EXECUTE_PROGRAM,
              show_message_with_beep |-> Command.SHOW_MESSAGE_WITH_BEEP,
              show_message |-> Command.SHOW_MESSAGE_NO_BEEP,
              clear_message |-> Command.CLEAR_MESSAGE]

Operation(method, index, value) ==
    IF method = "set_unit_level" /\ value \notin 0..100 THEN ValueError
    ELSE CommandRequest(CommandOf[method], value, index)

CommandResult(reply) == IF reply.opcode = "Ack" THEN Done ELSE CommandFailedError

SecurityResult(reply) ==
    CASE reply.opcode = "ExecuteSecurityCommandResponse" ->
             IF reply.payload # <<>> /\ reply.payload[1] = 0 THEN Done ELSE CommandFailedError
      [] OTHER -> CommandResult(reply)

AcknowledgeAlerts == Request("AcknowledgeAlerts", <<>>)

DownloadProgram(slot, program) ==
    IF slot \notin 1..PROGRAM_SLOTS THEN ValueError
    ELSE Request("DownloadProgram",
                 <<HighByte(slot), LowByte(slot)>> \o EncodeWireBytes(program))
FreeProgram == FromWireBytes(NoBody)
ClearProgram(slot) == DownloadProgram(slot, FreeProgram)

DownloadResult(reply) == CASE reply.opcode = "Ack" -> Done
                           [] reply.opcode = "Nak" -> CommandFailedError
                           [] OTHER                -> OmniConnectionError

ResultOf(request, reply) ==
    CASE request.opcode = "ExecuteSecurityCommand" -> SecurityResult(reply)
      [] request.opcode = "DownloadProgram"        -> DownloadResult(reply)
      [] OTHER                                     -> CommandResult(reply)

(* A method sends its request, or raises without sending one.              *)
Perform(st, request, Dispatch(_, _, _)) ==
    IF Failed(request) THEN [state |-> st, push |-> <<>>, result |-> request]
    ELSE LET answer == Dispatch(st, request.opcode, request.payload)
         IN [state |-> answer.state, push |-> answer.push,
             result |-> ResultOf(request, answer.reply)]

----------------------------------------------------------------------------
(* Reading the panel.                                                      *)

GetSystemInformation(st) ==
    LET reply == Asked(st, "RequestSystemInformation", <<>>)
    IN Expect(reply, "SystemInformation", ParseSystemInformation(reply.payload))
GetSystemStatus(st) ==
    LET reply == Asked(st, "RequestSystemStatus", <<>>)
    IN Expect(reply, "SystemStatus", ParseSystemStatus(reply.payload))

BuildRequestPropertiesPayload(type, index, direction) ==
    <<type, HighByte(index), LowByte(index), direction, 0, 0, 0>>
PROPERTIES_PARSERS == {ZONE, UNIT, AREA}

PropertiesIn(type, reply) ==
    IF reply.opcode \in {"EOD", "Nak"} THEN ValueError
    ELSE Expect(reply, "Properties", ParseProperties(type, reply.payload))
GetObjectProperties(st, type, index) ==
    CASE type \notin PROPERTIES_PARSERS -> NotImplementedError
      [] type \in PROPERTIES_PARSERS /\ index \notin 0..65535 -> ValueError
      [] OTHER -> PropertiesIn(type, Asked(st, "RequestProperties",
                                          BuildRequestPropertiesPayload(type, index, 0)))

(* The records of a status reply; an incomplete one at the end is dropped. *)
StatusRecords(type, records, size) ==
    LET parsed == [i \in 1..(Len(records) \div size) |->
                      ParseStatus(type, SubSeq(records, size * (i - 1) + 1, size * i))]
    IN IF size = 0 THEN Returns(<<>>)
       ELSE IF \E i \in DOMAIN parsed : Failed(parsed[i]) THEN ValueError
       ELSE Returns(parsed)

(* The payload of the reply; nothing if the range has no object.           *)
StatusPayload(type, expected, reply) ==
    CASE reply.opcode = "EOD" -> Returns(<<>>)
      [] reply.opcode = "Nak" -> CommandFailedError
      [] reply.opcode = expected /\ reply.payload[1] = type -> Returns(reply.payload)
      [] OTHER -> OmniConnectionError
FetchStatusRange(st, type, start, end, request, expected) ==
    IF start \notin 0..65535 \/ end \notin start..65535 THEN ValueError
    ELSE IF type \notin HasStatus THEN NotImplementedError
    ELSE StatusPayload(type, expected,
                       Asked(st, request, <<type, HighByte(start), LowByte(start),
                                            HighByte(end), LowByte(end)>>))

STATUS_RECORD_SIZES == (1 :> 4) @@ (2 :> 5) @@ (5 :> 6) @@ (6 :> 9) @@ (7 :> 3) @@ (8 :> 6)
                       @@ (10 :> 6) @@ (11 :> 4) @@ (13 :> 5) @@ (15 :> 5)

RecordsOfStatus(type, fetched) ==
    IF Failed(fetched) \/ fetched.value = <<>> THEN fetched
    ELSE IF type \notin DOMAIN STATUS_RECORD_SIZES THEN NotImplementedError
    ELSE StatusRecords(type, Tail(fetched.value), STATUS_RECORD_SIZES[type])
GetObjectStatus(st, type, start, end) ==
    RecordsOfStatus(type, FetchStatusRange(st, type, start, end, "RequestStatus", "Status"))

RecordsOfExtendedStatus(type, fetched) ==
    IF Failed(fetched) \/ fetched.value = <<>> THEN fetched
    ELSE StatusRecords(type, SubSeq(fetched.value, 3, Len(fetched.value)), fetched.value[2])
GetExtendedStatus(st, type, start, end) ==
    RecordsOfExtendedStatus(type, FetchStatusRange(st, type, start, end,
                                                   "RequestExtendedStatus", "ExtendedStatus"))

MAX_OBJECT_INDEX == 65535

(* Asks for the next object after the last until there is none.  One       *)
(* without a name is passed over.                                          *)
NextAfter(st, type, cursor) ==
    Asked(st, "RequestProperties", BuildRequestPropertiesPayload(type, cursor, 1))
RECURSIVE WalkOn(_, _, _, _)
WalkOn(st, type, found, reply) ==
    LET parsed == ParseProperties(type, reply.payload)
        kept == IF parsed.name = <<>> THEN found ELSE With(found, parsed.index, parsed)
    IN IF reply.opcode # "Properties" THEN found
       ELSE IF parsed.index >= MAX_OBJECT_INDEX THEN kept
       ELSE WalkOn(st, type, kept, NextAfter(st, type, parsed.index))
Walk(st, type) == WalkOn(st, type, NoObjects, NextAfter(st, type, 0))

NamesOf(objects) == [i \in DOMAIN objects |-> objects[i].name]
ListNames(st, type) == NamesOf(Walk(st, type))
AreaNumber(i) == <<"Area", i>>
OrEightAreas(names) == IF names = NoObjects THEN [i \in 1..8 |-> AreaNumber(i)] ELSE names
ListAreaNames(st) == OrEightAreas(ListNames(st, AREA))

(* Each program is asked for with the slot of the one before it.           *)
ProgramAfter(st, slot) ==
    Asked(st, "UploadProgram", <<HighByte(slot), LowByte(slot), 1>>).payload
RECURSIVE ProgramsFrom(_, _)
ProgramsFrom(st, p) ==
    LET slot == Word(p[1], p[2]) IN
    IF p = <<>> THEN NoObjects
    ELSE With(ProgramsFrom(st, ProgramAfter(st, slot)), slot, FromWireBytes(SubSeq(p, 3, 16)))
IterPrograms(st) == ProgramsFrom(st, ProgramAfter(st, 0))
=============================================================================
