------------------------------ MODULE V1Client ------------------------------
(***************************************************************************)
(* OmniClientV1 and the adapter that gives it the interface of OmniClient  *)
(* (v1/client.py, v1/adapter.py, v1/messages.py).                          *)
(***************************************************************************)
EXTENDS PanelClient, V1Panel

OmniNakError == Raises("OmniNakError")
OmniProtocolError == Raises("OmniProtocolError")

V1Asked(st, opcode, payload) == Sent(DispatchV1(st, opcode, payload).reply)
V1Expect(reply, opcode, result) == CASE reply.opcode = "Nak"  -> OmniNakError
                                     [] reply.opcode = opcode -> result
                                     [] OTHER                 -> OmniProtocolError

----------------------------------------------------------------------------
(* Replies (messages.py).  The records of a status reply carry no index.   *)

Records(payload, size, Record(_, _)) ==
    IF Len(payload) % size # 0 THEN ValueError
    ELSE Returns([i \in 1..(Len(payload) \div size) |->
                     Record(i, SubSeq(payload, size * (i - 1) + 1, size * i))])

ParseV1ZoneStatus(payload, start) ==
    Records(payload, 2, LAMBDA i, r :
            [index |-> start + i - 1, raw_status |-> r[1], loop |-> r[2]])
ParseV1UnitStatus(payload, start) ==
    Records(payload, 3, LAMBDA i, r :
            [index |-> start + i - 1, state |-> r[1],
             time_remaining_secs |-> Word(r[2], r[3])])
ParseV1ThermostatStatus(payload, start) ==
    Records(payload, 7, LAMBDA i, r :
            [index |-> start + i - 1, status |-> r[1], temperature_raw |-> r[2],
             heat_setpoint_raw |-> r[3], cool_setpoint_raw |-> r[4], system_mode |-> r[5],
             fan_mode |-> r[6], hold_mode |-> r[7], humidity_raw |-> 0,
             humidify_setpoint_raw |-> 0, dehumidify_setpoint_raw |-> 0,
             outdoor_temperature_raw |-> 0, horc_status |-> 0])
ParseV1AuxStatus(payload, start) ==
    Records(payload, 4, LAMBDA i, r :
            [index |-> start + i - 1, output |-> r[1], value_raw |-> r[2],
             low_raw |-> r[3], high_raw |-> r[4]])

(* Each mode byte becomes the pair of an alarm.                            *)
ParseV1SystemStatus(p) ==
    LET v2 == ParseSystemStatus(SubSeq(p, 1, 14)) IN
    IF Failed(v2) THEN ValueError
    ELSE [v2 EXCEPT !.area_alarms = [i \in 1..(Len(p) - 14) |-> <<p[14 + i], 0>>]]

(* Which form a record has is told from its length: with the name one      *)
(* element, four or three.                                                 *)
ParseV1NameData(p) ==
    IF Len(p) >= 5 THEN [name_type |-> p[1], number |-> Word(p[2], p[3]), name |-> p[4]]
    ELSE [name_type |-> p[1], number |-> p[2], name |-> p[3]]

----------------------------------------------------------------------------
(* OmniClientV1.                                                           *)

V1GetSystemInformation(st) ==
    LET reply == V1Asked(st, "RequestSystemInformation", <<>>)
    IN V1Expect(reply, "SystemInformation", ParseSystemInformation(reply.payload))
V1GetSystemStatus(st) ==
    LET reply == V1Asked(st, "RequestSystemStatus", <<>>)
    IN V1Expect(reply, "SystemStatus", ParseV1SystemStatus(reply.payload))

(* The payload of the reply.                                               *)
RangeStatus(st, request, opcode, start, end) ==
    LET payload == IF end =< 255 THEN <<start, end>>
                   ELSE <<HighByte(start), LowByte(start), HighByte(end), LowByte(end)>>
        reply == V1Asked(st, request, payload)
    IN IF start < 1 \/ end \notin start..65535 THEN ValueError
       ELSE V1Expect(reply, opcode, Returns(reply.payload))

ListAllNames(st) ==
    LET stream == V1NameStream(st)
        records == {ParseV1NameData(stream[i].payload) : i \in DOMAIN stream}
        Of(type) == {r \in records : r.name_type = type}
    IN [type \in {r.name_type : r \in records} |->
           [n \in {r.number : r \in Of(type)} |->
               (CHOOSE r \in Of(type) : r.number = n).name]]

V1IterPrograms(st) ==
    LET stream == V1ProgramStream(st)
        slots == {Word(stream[i].payload[1], stream[i].payload[2]) : i \in DOMAIN stream}
    IN [s \in slots |-> FromWireBytes(SubSeq(stream[CHOOSE i \in DOMAIN stream :
               Word(stream[i].payload[1], stream[i].payload[2]) = s].payload, 3, 16))]

(* Its commands send the requests of OmniClient.  It writes no program,    *)
(* and acknowledging the alerts asks the panel nothing.                    *)
V1DownloadProgram(slot, program) == NotImplementedError
V1ClearProgram(slot) == NotImplementedError
V1AcknowledgeAlerts == <<>>

----------------------------------------------------------------------------
(* The adapter.  The names are read once.                                  *)

EnsureNames(st, type) == At(ListAllNames(st), type, NoObjects)
AdapterListAreaNames(st) == OrEightAreas(EnsureNames(st, AREA))

NotFound == [none |-> TRUE]
AdapterGetObjectProperties(names, type, index) ==
    LET name == At(names, index, <<>>) IN
    CASE name = <<>> -> NotFound
      [] name # <<>> /\ type = ZONE ->
             [index |-> index, name |-> name, zone_type |-> 0, area |-> 1, options |-> 0,
              status |-> 0, loop |-> 0]
      [] name # <<>> /\ type = UNIT ->
             [index |-> index, name |-> name, unit_type |-> 0, status |-> 0, time |-> 0,
              areas |-> 0]
      [] name # <<>> /\ type = AREA ->
             [index |-> index, name |-> name, mode |-> 0, alarms |-> 0, enabled |-> TRUE,
              entry_delay |-> 0, exit_delay |-> 0]
      [] name # <<>> /\ type = THERMOSTAT ->
             [index |-> index, name |-> name, thermostat_type |-> 0, communicating |-> TRUE]
      [] name # <<>> /\ type = BUTTON -> [index |-> index, name |-> name]
      [] OTHER -> NotFound

CHUNK_SIZES == (1 :> 80) @@ (2 :> 40) @@ (6 :> 30) @@ (8 :> 60)

V1StatusParsed(type, start, fetched) ==
    CASE Failed(fetched) -> fetched
      [] ~Failed(fetched) /\ type = ZONE       -> ParseV1ZoneStatus(fetched.value, start)
      [] ~Failed(fetched) /\ type = UNIT       -> ParseV1UnitStatus(fetched.value, start)
      [] ~Failed(fetched) /\ type = THERMOSTAT -> ParseV1ThermostatStatus(fetched.value, start)
      [] OTHER                                 -> ParseV1AuxStatus(fetched.value, start)
\* What is asked, and what is to be answered.
V1StatusOpcodes(type) ==
    CASE type = ZONE       -> <<"RequestZoneStatus", "ZoneStatus">>
      [] type = UNIT       -> <<"RequestUnitStatus", "UnitStatus">>
      [] type = THERMOSTAT -> <<"RequestThermostatStatus", "ThermostatStatus">>
      [] OTHER             -> <<"RequestAuxiliaryStatus", "AuxiliaryStatus">>
V1Fetch(st, type, start, end) ==
    LET opcode == V1StatusOpcodes(type) IN
    V1StatusParsed(type, start, RangeStatus(st, opcode[1], opcode[2], start, end))

(* A range is asked for in chunks; the first that fails raises.            *)
BothChunks(chunk, rest) == CASE Failed(chunk) -> chunk
                             [] ~Failed(chunk) /\ Failed(rest) -> rest
                             [] OTHER -> Returns(chunk.value \o rest.value)
RECURSIVE AdapterGetExtendedStatus(_, _, _, _)
AdapterGetExtendedStatus(st, type, start, last) ==
    LET end == Smaller(start + CHUNK_SIZES[type] - 1, last)
    IN IF type \notin DOMAIN CHUNK_SIZES THEN ValueError
       ELSE IF start > last THEN Returns(<<>>)
       ELSE BothChunks(V1Fetch(st, type, start, end),
                       AdapterGetExtendedStatus(st, type, end + 1, last))

(* The areas are read from the system status, without alarms or timers.    *)
AreasFromSystemStatus(status, start, last) ==
    LET pairs == status.area_alarms
        count == IF pairs = <<>> THEN 1 ELSE Smaller(8, Len(pairs))
        pair(i) == IF i =< Len(pairs) THEN pairs[i] ELSE <<0, 0>>
    IN IF Failed(status) THEN status
       ELSE Returns([n \in 1..(Smaller(last, count) - start + 1) |->
                        [index |-> start + n - 1, mode |-> pair(start + n - 1)[1],
                         alarms |-> pair(start + n - 1)[2], last_user |-> 0,
                         entry_timer_secs |-> 0, exit_timer_secs |-> 0]])
AdapterGetObjectStatus(st, type, start, last) ==
    IF type # AREA THEN AdapterGetExtendedStatus(st, type, start, last)
    ELSE AreasFromSystemStatus(V1GetSystemStatus(st), start, last)
=============================================================================
