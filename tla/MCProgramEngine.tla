--------------------------- MODULE MCProgramEngine ---------------------------
EXTENDS ProgramEngineInvariant

CONSTANTS owner

(* A record of the program table; every field that is not given is zero.   *)
Blank == FromWireBytes([i \in 1..14 |-> 0])
Rec(fields) == [f \in DOMAIN Blank |-> IF f \in DOMAIN fields THEN fields[f] ELSE Blank[f]]
Line(slot, fields) == [slot |-> slot, rec |-> Rec(fields)]

Everyday == 254
OnCommand(unit) == [cmd |-> Command.UNIT_ON, par |-> 0, pr2 |-> unit]
OffCommand(unit) == [cmd |-> Command.UNIT_OFF, par |-> 0, pr2 |-> unit]

\* 2024-02-29 is a Thursday.  The sun rises at 06:30 and sets at 18:15.
MCLocation == [known |-> TRUE, sunrise |-> TimeOfDay(6, 30), sunset |-> TimeOfDay(18, 15),
               raises |-> {}]
MCPrograms == <<
    Line(2, [prog_type |-> ProgramType.TIMED, hour |-> 26, minute |-> 241, days |-> 4 + 16]
            @@ OnCommand(2)),
    Line(3, [prog_type |-> ProgramType.YEARLY, month |-> 2, day |-> 29, hour |-> 12]
            @@ OffCommand(1)),
    Line(4, [prog_type |-> ProgramType.EVENT, day |-> 1] @@ OnCommand(2)),
    Line(5, [prog_type |-> ProgramType.WHEN, day |-> 1]),
    Line(6, [prog_type |-> ProgramType.AND, cond |-> 10, cond2 |-> 512]),
    Line(7, [prog_type |-> ProgramType.OR, cond |-> 8, cond2 |-> 256]),
    Line(8, [prog_type |-> ProgramType.THEN_] @@ OffCommand(1)),
    Line(10, [prog_type |-> ProgramType.AT, hour |-> 12, days |-> 8 + 32]),
    Line(11, [prog_type |-> ProgramType.AND, cond |-> 8, cond2 |-> 256]),
    Line(12, [prog_type |-> ProgramType.THEN_] @@ OffCommand(2)),
    Line(20, [prog_type |-> ProgramType.EVERY, cond |-> 168, cond2 |-> 49152]),
    Line(21, [prog_type |-> ProgramType.THEN_] @@ OnCommand(1)),
    Line(30, [prog_type |-> ProgramType.TIMED, hour |-> 24, days |-> Everyday]) >>

MCPanel == [MockState EXCEPT !.units = (1 :> MockUnitState) @@ (2 :> MockUnitState)]
MCMoments == [i \in 1..8 |-> Instant(DayNumber(2024, 2, 28), 21600 * i)]
MCEvents == {EventIdUserMacroButton(1)}
MCClientCommands == {<<Command.UNIT_OFF, 0, 0, 2>>}

(* A record survives both layouts, and what a panel is seeded with from a  *)
(* file is the file's record in the layout of the wire.                    *)
Samples == [k \in 1..36 |-> [i \in 1..14 |-> IF i = 1 THEN k % 12 ELSE (37 * i + 53 * k) % 256]]
           \o <<NoBody>>
ASSUME RecordsRoundTrip ==
    LET table == DecodeProgramTable(Samples)
        seeds == SeedPrograms(Samples)
    IN /\ \A k \in DOMAIN Samples :
              /\ EncodeWireBytes(FromWireBytes(Samples[k])) = Samples[k]
              /\ EncodeFileRecord(table[k]) = Samples[k]
              /\ Len(Samples[k]) = PROGRAM_BYTES
       /\ DOMAIN seeds = DOMAIN Samples \ {Len(Samples)}
       /\ \A slot \in DOMAIN seeds : FromWireBytes(seeds[slot]) = table[slot]

(* The events of buttons, zones and units have numbers of their own.       *)
ASSUME EventIdsApart ==
    LET zones == (1..256) \X (0..3)
        units == (1..511) \X BOOLEAN
        ofZones == {EventIdZoneState(z[1], z[2]) : z \in zones}
        ofUnits == {EventIdUnitState(u[1], u[2]) : u \in units}
    IN /\ Cardinality(ofZones) = Cardinality(zones)
       /\ Cardinality(ofUnits) = Cardinality(units)
       /\ ofZones \cap ofUnits = {}
       /\ \A b \in 0..255 : EventIdUserMacroButton(b) \notin ofZones \cup ofUnits
=============================================================================
