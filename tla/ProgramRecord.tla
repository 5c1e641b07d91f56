--------------------------- MODULE ProgramRecord ---------------------------
(***************************************************************************)
(* One line of a panel's program table: the 14-byte record of programs.py, *)
(* in the layout of the wire and in that of a .pca file, the fields it     *)
(* decodes to, and the second reading that the AND/OR records of a         *)
(* multi-record program give to the same bytes.                            *)
(*                                                                         *)
(* A byte sequence is a sequence of 0..255: body[i] of the source is       *)
(* body[i + 1] here.  A 32-bit RemarkID is the pair of its 16-bit halves.  *)
(***************************************************************************)
EXTENDS Wire

Family(high) == (high \div 4) * 4         \* high & 0xFC, for a byte

PROGRAM_BYTES == 14
NoRemark == <<>>

ProgramType == [FREE |-> 0, TIMED |-> 1, EVENT |-> 2, YEARLY |-> 3,
                REMARK |-> 4, WHEN |-> 5, AT |-> 6, EVERY |-> 7,
                AND |-> 8, OR |-> 9, THEN_ |-> 10]
Heads == {ProgramType.WHEN, ProgramType.AT, ProgramType.EVERY}

CondOP == [TRADITIONAL |-> 0, EQ |-> 1, NE |-> 2, LT |-> 3, GT |-> 4,
           ODD |-> 5, EVEN |-> 6, MULTIPLE |-> 7, IN_ARG2 |-> 8, NOT_IN |-> 9]
CondArgType == [CONSTANT |-> 0, ZONE |-> 2, UNIT |-> 3, THERMOSTAT |-> 4,
                AREA |-> 6, TIME_DATE |-> 7]
ProgramCond == [OTHER |-> 0, ZONE |-> 4, CTRL |-> 8, TIME |-> 12, SEC |-> 16]
MiscConditional == [NONE |-> 0, NEVER |-> 1, LIGHT |-> 2, DARK |-> 3]

----------------------------------------------------------------------------
(* The fields of a record.                                                 *)

DecodeCommon(body) ==
    LET remark == body[1] = ProgramType.REMARK IN
    [prog_type |-> body[1],
     cond      |-> IF remark THEN 0 ELSE Word(body[3], body[2]),
     cond2     |-> IF remark THEN 0 ELSE Word(body[5], body[4]),
     remark_id |-> IF remark THEN <<Word(body[2], body[3]), Word(body[4], body[5])>>
                             ELSE NoRemark,
     cmd |-> body[6], par |-> body[7], pr2 |-> Word(body[9], body[8]),
     days |-> body[12], hour |-> body[13], minute |-> body[14],
     month |-> 0, day |-> 0]

FromWireBytes(body) ==
    [DecodeCommon(body) EXCEPT !.month = body[10], !.day = body[11]]

(* On disk an EVENT record has its month and day bytes swapped.            *)
FromFileRecord(body) ==
    LET f == DecodeCommon(body) IN
    IF f.prog_type = ProgramType.EVENT
    THEN [f EXCEPT !.month = body[11], !.day = body[10]]
    ELSE [f EXCEPT !.month = body[10], !.day = body[11]]

EncodeCommon(p, ninth, tenth) ==
    <<p.prog_type>>
    \o (IF p.prog_type = ProgramType.REMARK /\ p.remark_id # NoRemark
        THEN <<HighByte(p.remark_id[1]), LowByte(p.remark_id[1]),
               HighByte(p.remark_id[2]), LowByte(p.remark_id[2])>>
        ELSE <<LowByte(p.cond), HighByte(p.cond), LowByte(p.cond2), HighByte(p.cond2)>>)
    \o <<p.cmd, p.par, LowByte(p.pr2), HighByte(p.pr2), ninth, tenth,
         p.days, p.hour, p.minute>>

EncodeWireBytes(p) == EncodeCommon(p, p.month, p.day)

EncodeFileRecord(p) ==
    IF p.prog_type = ProgramType.EVENT THEN EncodeCommon(p, p.day, p.month)
                                       ELSE EncodeCommon(p, p.month, p.day)

IsEmpty(p) ==
    /\ p.prog_type = ProgramType.FREE
    /\ \A f \in {"cond", "cond2", "cmd", "par", "pr2", "month", "day",
                 "days", "hour", "minute"} : p[f] = 0
    /\ p.remark_id = NoRemark

(* A .pca table: its slots are 1-based.  The mock panel seeds its programs *)
(* with the non-empty ones, encoded for the wire.                          *)
DecodeProgramTable(blob) == [slot \in 1..Len(blob) |-> FromFileRecord(blob[slot])]
IterDefined(programs) == {slot \in DOMAIN programs : ~IsEmpty(programs[slot])}
SeedPrograms(blob) ==
    LET table == DecodeProgramTable(blob) IN
    [slot \in IterDefined(table) |-> EncodeWireBytes(table[slot])]

----------------------------------------------------------------------------
(* What the fields mean.                                                   *)

Signed(minute) == IF minute < 128 THEN minute ELSE minute - 256

(* Hour 25 and 26 are the sentinels of sunrise and sunset; the minute byte *)
(* is then a signed offset.                                                *)
TimeKind(p) == CASE p.hour = 25 -> "sunrise"
                 [] p.hour = 26 -> "sunset"
                 [] OTHER       -> "absolute"
TimeOffsetMinutes(p) == IF TimeKind(p) = "absolute" THEN 0 ELSE Signed(p.minute)

EventId(p) == Word(p.month, p.day)
EveryInterval(p) == Word(LowByte(p.cond), HighByte(p.cond2))

(* The AND/OR reading of a record.                                         *)
AndOp(p) == HighByte(p.cond)
AndFamily(p) == LowByte(p.cond)
AndArg1ArgType(p) == LowByte(p.cond)
AndArg1Ix(p) == p.cond2
AndInstance(p) == IF AndOp(p) = CondOP.TRADITIONAL THEN HighByte(p.cond2) ELSE p.cond2
AndArg1Field(p) == p.cmd
AndArg2ArgType(p) == p.par
AndArg2Ix(p) == p.pr2
AndArg2Field(p) == p.month
=============================================================================
