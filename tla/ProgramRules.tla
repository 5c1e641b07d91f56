---------------------------- MODULE ProgramRules ----------------------------
(***************************************************************************)
(* The pure part of the program engine (program_engine.py): which records  *)
(* it runs and how, when a scheduled program is due next, which event a    *)
(* record waits for, and whether the conditions of a multi-record program  *)
(* hold in a state of the panel.                                           *)
(*                                                                         *)
(* A program is a decoded record with its slot; a table of programs is a   *)
(* sequence, in the order of the panel's dict.  A location gives the       *)
(* second of the day of the sunrise and of the sunset, and the days on     *)
(* which the sun computation raises.                                       *)
(***************************************************************************)
EXTENDS ProgramRecord, Calendar, SequencesExt

NoFire == -1          \* no next fire time: the worker ends
ValueError == -2      \* the computation raises: the worker crashes
NoLocation == [known |-> FALSE]
NoClock == -1
Unresolved == -1      \* an argument without a value: the comparison is false

----------------------------------------------------------------------------
(* Which records are run.                                                  *)

\* The elements of S from the lowest on.
Ascending(S) == [k \in 1..Cardinality(S) |->
                    CHOOSE x \in S : Cardinality({y \in S : y < x}) = k - 1]

\* The elements of s at the positions P, in their order.
Kept(s, P) == [k \in 1..Cardinality(P) |-> s[Ascending(P)[k]]]

OfType(programs, types) ==
    Kept(programs, {i \in DOMAIN programs :
                       ~IsEmpty(programs[i].rec) /\ programs[i].rec.prog_type \in types})

Classify(programs) == [timed         |-> OfType(programs, {ProgramType.TIMED}),
                       event         |-> OfType(programs, {ProgramType.EVENT}),
                       yearly        |-> OfType(programs, {ProgramType.YEARLY}),
                       clausal_heads |-> OfType(programs, Heads)]

(* A chain is a head and the condition and action records in the slots     *)
(* that follow it without a gap, up to a record of another kind.           *)
BuildChains(programs) ==
    LET used == {p.slot : p \in {q \in ToSet(programs) : ~IsEmpty(q.rec)}}
        At(s) == (CHOOSE p \in ToSet(programs) : p.slot = s).rec
        Of(types) == {s \in used : At(s).prog_type \in types}
        Follow(h) == {s \in used : s > h /\ \A x \in (h + 1)..s :
                          x \in Of({ProgramType.AND, ProgramType.OR, ProgramType.THEN_})}
        Recs(S) == [i \in 1..Cardinality(S) |-> At(Ascending(S)[i])]
        Chain(h) == [slot |-> h, head |-> At(h),
                     conditions |-> Recs(Follow(h) \ Of({ProgramType.THEN_})),
                     actions    |-> Recs(Follow(h) \cap Of({ProgramType.THEN_}))]
        heads == {h \in Of(Heads) : Follow(h) \cap Of({ProgramType.THEN_}) # {}}
    IN [i \in 1..Cardinality(heads) |-> Chain(Ascending(heads)[i])]

----------------------------------------------------------------------------
(* When a scheduled program is due.                                        *)

(* Bit 1 of the mask is Monday, bit 7 Sunday.                              *)
MatchesDaysMask(day, mask) == mask # 0 /\ BitOf(mask, Weekday(day) + 1) = 1

Earliest(S) == IF S = {} THEN NoFire ELSE CHOOSE t \in S : \A u \in S : t =< u

NextAbsoluteFireFromNow(now, p) ==
    IF TimeKind(p) # "absolute" \/ p.days = 0 THEN NoFire
    ELSE IF ~IsTime(p.hour, p.minute) THEN ValueError
    ELSE LET candidates == {Instant(DayOf(now) + offset, TimeOfDay(p.hour, p.minute)) :
                               offset \in 0..7}
         IN Earliest({t \in candidates : t >= now /\ MatchesDaysMask(DayOf(t), p.days)})
NextAbsoluteFire(now, p) ==
    IF TimeKind(p) # "absolute" \/ p.days = 0 THEN NoFire
    ELSE IF ~IsTime(p.hour, p.minute) THEN ValueError
    ELSE LET candidates == {Instant(DayOf(now) + offset, TimeOfDay(p.hour, p.minute)) :
                               offset \in 0..7}
         IN Earliest({t \in candidates : t > now /\ MatchesDaysMask(DayOf(t), p.days)})

SunEvent(p, location, day) ==
    Instant(day, IF TimeKind(p) = "sunrise" THEN location.sunrise ELSE location.sunset)
    + MinuteSecs * TimeOffsetMinutes(p)

(* The days are tried in order; one whose computation raises ends the      *)
(* search without a result.                                                *)
NextSunRelativeFire(now, p, location) ==
    LET days == {d \in DayOf(now)..(DayOf(now) + 7) : MatchesDaysMask(d, p.days)}
        raising == days \cap location.raises
        decisive == raising \cup {d \in days : SunEvent(p, location, d) > now}
    IN IF TimeKind(p) = "absolute" \/ Earliest(decisive) = NoFire
          \/ Earliest(decisive) \in raising
       THEN NoFire ELSE SunEvent(p, location, Earliest(decisive))

NextYearlyFire(now, p) ==
    LET year == YearOf(DayOf(now))
        Invalid(y) == ~IsDate(y, p.month, p.day) \/ ~IsTime(p.hour, p.minute)
        On(y) == Instant(DayNumber(y, p.month, p.day), TimeOfDay(p.hour, p.minute))
    IN IF p.month = 0 \/ p.day = 0 \/ Invalid(year) THEN NoFire
       ELSE IF On(year) > now THEN On(year)
       ELSE IF Invalid(year + 1) THEN NoFire
       ELSE IF On(year + 1) > now THEN On(year + 1) ELSE NoFire

(* A TIMED program and the head of an AT chain are scheduled alike.        *)
NextTimedFire(now, p, location) ==
    IF TimeKind(p) = "absolute" THEN NextAbsoluteFire(now, p)
    ELSE IF location = NoLocation THEN NoFire
    ELSE NextSunRelativeFire(now, p, location)

CommandPayload(p) == <<p.cmd, p.par, HighByte(p.pr2), LowByte(p.pr2)>>

----------------------------------------------------------------------------
(* Which event a program waits for.                                        *)

EventIdUserMacroButton(button) == button
EventIdZoneState(zone, state) == 1024 + (((zone - 1) * 4 + state) % 1024)
EventIdUnitState(unit, on) == 2048 + (((unit - 1) * 2 + (IF on THEN 1 ELSE 0)) % 1024)

----------------------------------------------------------------------------
(* Conditions.                                                             *)

(* An OR record starts a new group; a group holds when all its records do, *)
(* the conditions when one of the groups does.  The group before the first *)
(* OR is there even when it is empty.  `satisfied` holds the positions of  *)
(* the records that the predicate is_satisfied accepts.                    *)
EvaluateConditions(conditions, satisfied) ==
    LET ors == {i \in DOMAIN conditions : conditions[i].prog_type = ProgramType.OR}
        Group(s) == {j \in DOMAIN conditions :
                        j >= s /\ \A k \in ors : ~(s < k /\ k =< j)}
    IN \E s \in {0} \cup ors : Group(s) \subseteq satisfied

DefaultConditionEvaluator(c) == c.prog_type = ProgramType.AND

EvalTraditionalZone(panel, zone, wantNotReady) ==
    IF zone \notin DOMAIN panel.zones THEN ~wantNotReady
    ELSE (panel.zones[zone].current_state # 0) = wantNotReady

EvalTraditionalCtrl(panel, unit, wantOn) ==
    IF unit \notin DOMAIN panel.units THEN ~wantOn
    ELSE (panel.units[unit].state # 0) = wantOn

EvalTraditionalSec(panel, area, mode) ==
    LET a == IF area = 0 THEN 1 ELSE area IN
    a \in DOMAIN panel.areas /\ panel.areas[a].mode = mode

IsLightOutside(now, location) ==
    /\ location.sunrise =< SecondOfDay(now)
    /\ SecondOfDay(now) =< location.sunset

(* Light and dark are both false when there is no clock, no location or no *)
(* answer; the conditions MockState has no model for are false as well.    *)
EvalOther(misc, now, location) ==
    \/ misc = MiscConditional.NONE
    \/ /\ misc \in {MiscConditional.LIGHT, MiscConditional.DARK}
       /\ now # NoClock /\ location # NoLocation
       /\ DayOf(now) \notin location.raises
       /\ IsLightOutside(now, location) = (misc = MiscConditional.LIGHT)

EvalTraditional(panel, now, location, c) ==
    LET family == AndFamily(c)
        secondary == BitOf(family, 1) = 1
    IN CASE Family(family) = ProgramCond.OTHER -> EvalOther(family % 16, now, location)
         [] Family(family) = ProgramCond.ZONE ->
                EvalTraditionalZone(panel, AndInstance(c), secondary)
         [] Family(family) = ProgramCond.CTRL ->
                EvalTraditionalCtrl(panel, AndInstance(c), secondary)
         [] Family(family) = ProgramCond.TIME -> FALSE
         [] OTHER -> EvalTraditionalSec(panel, family % 16, (family \div 16) % 8)

FieldOf(fields, field) == IF field \in DOMAIN fields THEN fields[field] ELSE Unresolved

ResolveZoneField(zone, field) ==
    FieldOf(<<zone.loop, zone.current_state, zone.arming_state, zone.latched_state>>, field)

ResolveUnitField(unit, field) ==
    CASE field = 1 -> IF unit.state # 0 THEN 1 ELSE 0
      [] field = 3 -> unit.time_remaining
      [] field = 4 -> IF unit.state >= 100 THEN unit.state - 100
                      ELSE IF unit.state = 1 THEN 100 ELSE 0
      [] OTHER -> Unresolved

ResolveThermostatField(t, field) ==
    FieldOf(<<t.temperature_raw, t.heat_setpoint_raw, t.cool_setpoint_raw,
              t.system_mode, t.fan_mode, t.hold_mode, Unresolved, Unresolved,
              t.humidity_raw, t.humidify_setpoint_raw, t.dehumidify_setpoint_raw,
              t.outdoor_temperature_raw>>, field)

ResolveAreaField(area, field) == IF field = 1 THEN area.mode ELSE Unresolved

ResolveTimeDateField(now, field) ==
    IF now = NoClock THEN Unresolved
    ELSE LET minutes == SecondOfDay(now) \div 60 IN
         FieldOf(<<Unresolved, YearOf(DayOf(now)), MonthOf(DayOf(now)),
                   DayOfMonth(DayOf(now)), Weekday(DayOf(now)) + 1, minutes,
                   Unresolved, minutes \div 60, minutes % 60>>, field)

ResolveArg(panel, now, argtype, ix, field) ==
    LET In(objects, Value(_, _)) ==
            IF ix \in DOMAIN objects THEN Value(objects[ix], field) ELSE Unresolved
    IN CASE argtype = CondArgType.CONSTANT   -> ix
         [] argtype = CondArgType.ZONE       -> In(panel.zones, ResolveZoneField)
         [] argtype = CondArgType.UNIT       -> In(panel.units, ResolveUnitField)
         [] argtype = CondArgType.THERMOSTAT -> In(panel.thermostats, ResolveThermostatField)
         [] argtype = CondArgType.AREA       -> In(panel.areas, ResolveAreaField)
         [] argtype = CondArgType.TIME_DATE  -> ResolveTimeDateField(now, field)
         [] OTHER -> Unresolved

ShareABit(x, y) == \E n \in 0..15 : BitOf(x, n) = 1 /\ BitOf(y, n) = 1

EvalStructured(panel, now, c) ==
    LET arg1 == ResolveArg(panel, now, AndArg1ArgType(c), AndArg1Ix(c), AndArg1Field(c))
        arg2 == ResolveArg(panel, now, AndArg2ArgType(c), AndArg2Ix(c), AndArg2Field(c))
        op == AndOp(c)
    IN /\ arg1 # Unresolved /\ arg2 # Unresolved
       /\ \/ op = CondOP.EQ /\ arg1 = arg2
          \/ op = CondOP.NE /\ arg1 # arg2
          \/ op = CondOP.LT /\ arg1 < arg2
          \/ op = CondOP.GT /\ arg1 > arg2
          \/ op = CondOP.ODD /\ arg1 % 2 = 1
          \/ op = CondOP.EVEN /\ arg1 % 2 = 0
          \/ op = CondOP.MULTIPLE /\ arg2 # 0 /\ arg1 % arg2 = 0
          \/ op = CondOP.IN_ARG2 /\ ShareABit(arg1, arg2)
          \/ op = CondOP.NOT_IN /\ ~ShareABit(arg1, arg2)

(* StateEvaluator: what it cannot evaluate is false.                       *)
StateEvaluator(panel, now, location, c) ==
    IF AndOp(c) = CondOP.TRADITIONAL THEN EvalTraditional(panel, now, location, c)
                                     ELSE EvalStructured(panel, now, c)
=============================================================================
