-------------------------------- MODULE Wire --------------------------------
(***************************************************************************)
(* The vocabulary both ends of the link share: bytes and words, messages,  *)
(* and the command codes of commands.py.  The opcode of a message is its   *)
(* name in opcodes.py.                                                     *)
(***************************************************************************)
EXTENDS Integers, Sequences

Byte == 0..255
LowByte(x) == x % 256
HighByte(x) == (x \div 256) % 256
Word(high, low) == 256 * high + low
BitOf(x, n) == (x \div 2^n) % 2
Smaller(x, y) == IF x < y THEN x ELSE y

Reply(opcode, payload) == [opcode |-> opcode, payload |-> payload]
Ack == Reply("Ack", <<>>)
Nak(request) == Reply("Nak", <<request>>)
EOD == Reply("EOD", <<>>)

\* The codes that some operation of the client, or a handler, names.
Command == [UNIT_OFF |-> 0, UNIT_ON |-> 1, ALL_OFF |-> 2, ALL_ON |-> 3,
            BYPASS_ZONE |-> 4, RESTORE_ZONE |-> 5, RESTORE_ALL_ZONES |-> 6,
            EXECUTE_BUTTON |-> 7, UNIT_LEVEL |-> 9,
            SET_THERMOSTAT_HEAT_SETPOINT |-> 66, SET_THERMOSTAT_COOL_SETPOINT |-> 67,
            SET_THERMOSTAT_SYSTEM_MODE |-> 68, SET_THERMOSTAT_FAN_MODE |-> 69,
            SET_THERMOSTAT_HOLD_MODE |-> 70, SHOW_MESSAGE_WITH_BEEP |-> 80,
            CLEAR_MESSAGE |-> 82, SHOW_MESSAGE_NO_BEEP |-> 86,
            EXECUTE_PROGRAM |-> 104]

\* The bytes that are a member of the enum: 0..115 with these gaps.
CommandBytes == (0..115) \ ({56, 63, 75, 76, 77, 78, 79, 111} \cup (88..95))
=============================================================================
