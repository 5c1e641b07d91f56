----------------------------- MODULE EventWords -----------------------------
(***************************************************************************)
(* The 16-bit words of a SystemEvents message and the typed events they    *)
(* decode to (events.py).  An event is a record whose `type` is the name   *)
(* of its EventType.                                                       *)
(***************************************************************************)
EXTENDS Wire, SequencesExt

\* word & (2^n - 1), and whether the bits of word from n upwards are prefix.
Low(word, n) == word % 2^n
Starts(word, n, prefix) == word \div 2^n = prefix

----------------------------------------------------------------------------
(* The events that carry an object or a state.                             *)

UserMacroButton(button) == [type |-> "USER_MACRO_BUTTON", button_index |-> button]
ProLinkMessage(message) == [type |-> "PRO_LINK_MESSAGE", message_index |-> message]
CentraLiteSwitch(switch) == [type |-> "CENTRALITE_SWITCH", switch_index |-> switch]
AlarmActivated(area, kind) ==
    [type |-> "ALARM_ACTIVATED", area_index |-> area, alarm_type |-> kind]
AlarmCleared(area) == [type |-> "ALARM_CLEARED", area_index |-> area]
ZoneStateChanged(zone, state) ==
    [type |-> "ZONE_STATE_CHANGED", zone_index |-> zone, new_state |-> state]
UnitStateChanged(unit, state) ==
    [type |-> "UNIT_STATE_CHANGED", unit_index |-> unit, new_state |-> state]
X10CodeReceived(house, unit, on, all) ==
    [type |-> "X10_CODE", house_code |-> house, unit_number |-> unit,
     is_on |-> on, all_units |-> all]
AllOnOff(area, on) == [type |-> "ALL_ON_OFF", area_index |-> area, on |-> on]
EnergyCostChanged(level) == [type |-> "ENERGY_COST", cost_level |-> level]
CameraTrigger(camera) == [type |-> "CAMERA", camera_index |-> camera]
AccessReaderEvent(reader) == [type |-> "ACCESS_READER", reader_index |-> reader]
UpbLinkEvent(link, action) == [type |-> "UPB_LINK", link_index |-> link, action |-> action]
ArmingChanged(area, mode, user, set) ==
    [type |-> "ARMING_CHANGED", area_index |-> area, new_mode |-> mode,
     user_index |-> user, is_set_command |-> set]
UnknownEvent == [type |-> "UNKNOWN"]

\* The events that are a word each, from 768.
Singletons == <<"PHONE_LINE_DEAD", "PHONE_LINE_RING", "PHONE_LINE_OFF_HOOK",
                "PHONE_LINE_ON_HOOK", "AC_LOST", "AC_RESTORED", "BATTERY_LOW",
                "BATTERY_RESTORED", "DCM_TROUBLE", "DCM_OK">>

----------------------------------------------------------------------------

(* The tests of _classify, whose order does not matter but for the last.   *)
ClassifyWord(word) ==
    LET high == HighByte(word)
        low == LowByte(word)
        state == BitOf(word, 9)
    IN CASE high = 0 -> UserMacroButton(low)
         [] Starts(word, 7, 2) -> ProLinkMessage(Low(word, 7))
         [] Starts(word, 7, 3) -> CentraLiteSwitch(Low(word, 7))
         [] high = 2 -> IF low \div 16 = 0 THEN AlarmCleared(Low(word, 4))
                        ELSE AlarmActivated(Low(word, 4), low \div 16)
         [] Starts(word, 10, 1) -> ZoneStateChanged(low, state)
         [] Starts(word, 10, 2) -> UnitStateChanged(256 * BitOf(word, 8) + low, state)
         [] Starts(word, 10, 3) ->
                X10CodeReceived(low \div 16, Low(word, 4) + 1, state = 1, BitOf(word, 8) = 1)
         [] Starts(word, 5, 31) -> AllOnOff(Low(word, 4), BitOf(word, 4) = 1)
         [] word \in 768..777 -> [type |-> Singletons[word - 767]]
         [] word \in 778..781 -> EnergyCostChanged(word - 778)
         [] word \in 782..787 -> CameraTrigger(word - 781)
         [] word \in 976..991 -> AccessReaderEvent(Low(word, 4) + 1)
         [] Starts(word, 10, 63) -> UpbLinkEvent(low, high)
         [] OTHER -> IF high < 16 THEN UnknownEvent
                     ELSE ArmingChanged(high % 16, (word \div 4096) % 8, low,
                                        BitOf(word, 15) = 1)

(* A trailing odd byte is dropped.                                         *)
EventWordsOf(payload) ==
    [i \in 1..(Len(payload) \div 2) |-> Word(payload[2 * i - 1], payload[2 * i])]

ParseEvents(message) ==
    LET words == EventWordsOf(message.payload) IN
    [i \in DOMAIN words |-> ClassifyWord(words[i])]

(* The events a stream of unsolicited messages yields, in order: those of  *)
(* other opcodes are passed over, a batch is drained before the next.      *)
EventStream(messages) ==
    FlattenSeq([i \in DOMAIN messages |->
        IF messages[i].opcode = "SystemEvents" THEN ParseEvents(messages[i]) ELSE <<>>])
=============================================================================
