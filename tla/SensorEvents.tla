---------------------------- MODULE SensorEvents ----------------------------
(***************************************************************************)
(* One threshold sensor of an emulated MC, the MC's power control and     *)
(* event receiver, composed with the SEL of the MC that receives their    *)
(* events (src/lanserv/serv.c: check_thresholds, do_event, the sensor     *)
(* handlers, ipmi_mc_set_power, Set Event Receiver).  The receiver's SEL  *)
(* is an instance of SelStore; do_event reaches it through McAddToSel,    *)
(* the model of ipmi_mc_add_to_sel, and clients delete and clear records  *)
(* of that SEL in between.                                                 *)
(*                                                                         *)
(* Sensor state keeps the threshold indices of Supported (0..2 lower,     *)
(* 3..5 upper) and the event-enable and event-status bits those           *)
(* thresholds use.  An event is abstracted to its event offset and        *)
(* direction; its record in the SEL to what SelStore keeps.               *)
(***************************************************************************)
EXTENDS Integers, Sequences, SequencesExt

CONSTANTS
  IdBits, ResvBits, MaxCounts, RecordTypes,   \* of the receiver's SEL
  Values,       \* sensor readings and threshold values (unsigned char)
  Hysteresis,   \* hysteresis values
  Supported,    \* threshold_supported: indices 0..5 that are set
  EnableBits,   \* event-enable mask bits the requests carry (0..15)
  Addrs,        \* event receiver addresses Set Event Receiver may carry
  Configs       \* the sensor and MC configurations: [thrSettable,
                \* hystSettable, eventSupport, eventGen]

ASSUME /\ Supported \subseteq 0..5 /\ EnableBits \subseteq 0..15
       /\ Configs \subseteq [thrSettable : BOOLEAN, hystSettable : BOOLEAN,
                             eventSupport : {"none", "global", "entire",
                                             "per_event"},
                             eventGen : BOOLEAN]

VARIABLES
  \* the receiving MC's SEL
  selDevice, entries, count, maxCount, flags, reservation, nextEntry,
  freed, adds, last, ub,
  \* the sensor and its MC
  value,        \* sensor->value
  thresholds,   \* sensor->thresholds, on Supported
  posHyst,      \* sensor->positive_hysteresis
  negHyst,      \* sensor->negative_hysteresis
  status,       \* {i : sensor->event_status[i] = 1}
  enA,          \* {e : sensor->event_enabled[0][e] = 1}, assertion
  enD,          \* {e : sensor->event_enabled[1][e] = 1}, deassertion
  eventsEnabled,\* sensor->events_enabled
  config,       \* hysteresis/threshold settable, event_support, IPMB_EVENT_GEN
  receiver,     \* mc->event_receiver
  power,        \* mc->power_value
  emitted,      \* ghost: the events handed to ipmi_mc_add_to_sel this step
  reply         \* the last sensor-side request and its completion code

Sel == INSTANCE SelStore

selVars    == <<selDevice, entries, count, maxCount, flags, reservation,
                nextEntry, freed, adds, last, ub>>
sensorVars == <<value, thresholds, posHyst, negHyst, status, enA, enD,
                eventsEnabled, config, receiver, power>>
vars       == <<selVars, sensorVars, emitted, reply>>

RcvAddr    == 32     \* 0x20: the MC whose SEL is modelled
NoCC       == -1     \* the handler wrote no response
PowerEvent == [off |-> -1, dir |-> 0]   \* the OEM power record's event

OK_CC                 == 0
INVALID_CMD_CC        == 193   \* 0xc1
INVALID_DATA_FIELD_CC == 204   \* 0xcc

\* The enable and status bits inside the 15-entry arrays.

Bits(S) == S \cap 0..14

\* A threshold index the sensor does not support, for Set Sensor Thresholds
\* masks that name one.
Unsupported == CHOOSE i \in 0..5 : i \notin Supported

-----------------------------------------------------------------------------
(* check_thresholds                                                        *)

\* Mutant: the lower comparison made strict.
AssertCondStrict(i, v, t) == IF i < 3 THEN v < t[i] ELSE v >= t[i]

\* The bits_to_set test: at or below a lower threshold, at or above an
\* upper one.
AssertCond(i, v, t) == IF i < 3 THEN v <= t[i] ELSE v >= t[i]

\* The bits_to_clear test, which applies the hysteresis.
ClearCond(i, v, t, ph, nh) ==
  IF i < 3 THEN v - nh > t[i] ELSE v + ph < t[i]

\* Mutant: the lower-threshold enable index used for the upper ones too.
EnableIndexLowerForm(i) == i * 2

\* The event_enabled index and event offset check_thresholds uses for
\* threshold i: i*2 (going low) below, i*2+1 (going high) above.
EnableIndex(i) == IF i < 3 THEN i * 2 ELSE i * 2 + 1

Asserting(i, v, t) == AssertCond(i, v, t) /\ i \notin status
Deasserting(i, v, t, ph, nh) ==
  ~AssertCond(i, v, t) /\ ClearCond(i, v, t, ph, nh) /\ i \in status

\* The events of one check_thresholds call, in its loop order: an
\* assertion or deassertion of threshold i whose enable bit is set.
ThresholdEvents(v, t, ph, nh) ==
  LET ev(i) ==
        IF Asserting(i, v, t) /\ EnableIndex(i) \in enA
        THEN <<[off |-> EnableIndex(i), dir |-> 0]>>
        ELSE IF Deasserting(i, v, t, ph, nh) /\ EnableIndex(i) \in enD
        THEN <<[off |-> EnableIndex(i), dir |-> 1]>>
        ELSE <<>>
  IN FoldLeft(LAMBDA s, i : s \o ev(i), <<>>, SetToSortSeq(Supported, <))

ThresholdStatus(v, t, ph, nh) ==
  (status \cup {i \in Supported : Asserting(i, v, t)})
    \ {i \in Supported : Deasserting(i, v, t, ph, nh)}

\* do_event for each event, in order: nothing when the receiver is 0,
\* events are disabled or the caller asked for none; nothing when no MC
\* has the receiver's address; else ipmi_mc_add_to_sel, whose result is
\* ignored.
DeliverAll(evs, gen) ==
  IF receiver = 0 \/ ~eventsEnabled \/ ~gen \/ receiver # RcvAddr
  THEN /\ emitted' = <<>> /\ UNCHANGED selVars
  ELSE /\ emitted' = evs
       /\ Sel!SetLog(FoldLeft(LAMBDA l, e : Sel!McAddToSel(l, 2, 4),
                              Sel!Log, evs))
       /\ UNCHANGED <<selDevice, maxCount, flags, reservation, freed, last>>

\* check_thresholds(mc, sensor, gen) against the new reading and thresholds.
CheckThresholds(v, t, gen) ==
  /\ status' = ThresholdStatus(v, t, posHyst, negHyst)
  /\ DeliverAll(ThresholdEvents(v, t, posHyst, negHyst), gen)

-----------------------------------------------------------------------------
(* Operations                                                              *)

\* ipmi_mc_sensor_set_value: store the reading and check the thresholds.
SetValue(v, gen) ==
  /\ value' = v
  /\ CheckThresholds(v, thresholds, gen)
  /\ reply' = [cmd |-> "SetValue", cc |-> OK_CC, gen |-> gen]
  /\ UNCHANGED <<thresholds, posHyst, negHyst, enA, enD, eventsEnabled,
                 config, receiver, power>>

\* handle_set_sensor_thresholds: reject an unsupported threshold in the
\* mask, store the masked ones, check with gen_event = 1.
SetThresholds(mask, t) ==
  /\ \/ /\ ~config.thrSettable
        /\ reply' = [cmd |-> "SetThresholds", cc |-> INVALID_CMD_CC, gen |-> TRUE]
        /\ UNCHANGED <<thresholds, status>> /\ emitted' = <<>>
        /\ UNCHANGED selVars
     \/ /\ config.thrSettable /\ ~(mask \subseteq Supported)
        /\ reply' = [cmd |-> "SetThresholds", cc |-> INVALID_DATA_FIELD_CC,
                     gen |-> TRUE]
        /\ UNCHANGED <<thresholds, status>> /\ emitted' = <<>>
        /\ UNCHANGED selVars
     \/ /\ config.thrSettable /\ mask \subseteq Supported
        /\ LET t1 == [i \in Supported |-> IF i \in mask THEN t[i]
                                          ELSE thresholds[i]] IN
             /\ thresholds' = t1
             /\ CheckThresholds(value, t1, TRUE)
        /\ reply' = [cmd |-> "SetThresholds", cc |-> OK_CC, gen |-> TRUE]
  /\ UNCHANGED <<value, posHyst, negHyst, enA, enD, eventsEnabled, config,
                 receiver, power>>

\* handle_set_sensor_hysteresis: store, without checking the thresholds.
SetHysteresis(ph, nh) ==
  /\ IF config.hystSettable
     THEN /\ posHyst' = ph /\ negHyst' = nh
          /\ reply' = [cmd |-> "SetHysteresis", cc |-> OK_CC, gen |-> FALSE]
     ELSE /\ UNCHANGED <<posHyst, negHyst>>
          /\ reply' = [cmd |-> "SetHysteresis", cc |-> INVALID_CMD_CC,
                       gen |-> FALSE]
  /\ emitted' = <<>>
  /\ UNCHANGED <<selVars, value, thresholds, status, enA, enD,
                 eventsEnabled, config, receiver, power>>

\* Set bits to 1 (op 1, enable selected) or 0 (op 2, disable selected).
Write(S, bits, on) == IF on THEN S \cup bits ELSE S \ bits

\* handle_set_sensor_event_enable.  Byte 2 and 3 carry mask bits 0..15 for
\* event_enabled[0], bytes 4 and 5 for event_enabled[1]; a byte is read
\* only if data_len is larger than its index.  Each row has 15 entries,
\* so bit 15 of the first row lands in event_enabled[1][0] and bit 15 of
\* the second in event_status[0], the bytes that follow in sensor_t.
\* Op 0 returns before any response byte is written.
SetEventEnable(ev, op, len, mA, mD) ==
  LET rowA == IF len > 3 THEN mA ELSE IF len > 2 THEN mA \cap 0..7 ELSE {}
      rowD == IF len > 5 THEN mD ELSE IF len > 4 THEN mD \cap 0..7 ELSE {}
      on   == op = 1
      Rep(cc) == reply' = [cmd |-> "SetEventEnable", cc |-> cc, gen |-> FALSE]
  IN
  /\ \/ /\ config.eventSupport \in {"none", "global"}
        /\ Rep(INVALID_CMD_CC) /\ UNCHANGED <<eventsEnabled, enA, enD, status>>
     \/ /\ config.eventSupport \notin {"none", "global"}
        /\ (config.eventSupport = "entire" /\ op # 0) \/ op = 3
        /\ Rep(INVALID_DATA_FIELD_CC)
        /\ UNCHANGED <<eventsEnabled, enA, enD, status>>
     \/ /\ config.eventSupport \notin {"none", "global"}
        /\ ~((config.eventSupport = "entire" /\ op # 0) \/ op = 3)
        /\ eventsEnabled' = ev
        /\ IF op = 0
           THEN /\ Rep(NoCC) /\ UNCHANGED <<enA, enD, status>>
           ELSE /\ enA' = Write(enA, Bits(rowA), on)
                /\ enD' = Write(IF 15 \in rowA THEN Write(enD, {0}, on) ELSE enD,
                                Bits(rowD), on)
                /\ status' = IF 15 \in rowD THEN Write(status, {0}, on)
                                            ELSE status
                /\ Rep(OK_CC)
  /\ emitted' = <<>>
  /\ UNCHANGED <<selVars, value, thresholds, posHyst, negHyst, config,
                 receiver, power>>

\* Mutant: the address stored without the 0xfe mask.
SetEventReceiverUnmasked(addr) ==
  /\ IF config.eventGen
     THEN /\ receiver' = addr
          /\ reply' = [cmd |-> "SetEventReceiver", cc |-> OK_CC, gen |-> FALSE]
     ELSE /\ UNCHANGED receiver
          /\ reply' = [cmd |-> "SetEventReceiver", cc |-> INVALID_CMD_CC,
                       gen |-> FALSE]
  /\ emitted' = <<>>
  /\ UNCHANGED <<selVars, value, thresholds, posHyst, negHyst, status, enA,
                 enD, eventsEnabled, config, power>>

\* handle_set_event_receiver: gated by IPMB_EVENT_GEN; the address is
\* masked with 0xfe.
SetEventReceiver(addr) ==
  /\ IF config.eventGen
     THEN /\ receiver' = addr - (addr % 2)
          /\ reply' = [cmd |-> "SetEventReceiver", cc |-> OK_CC, gen |-> FALSE]
     ELSE /\ UNCHANGED receiver
          /\ reply' = [cmd |-> "SetEventReceiver", cc |-> INVALID_CMD_CC,
                       gen |-> FALSE]
  /\ emitted' = <<>>
  /\ UNCHANGED <<selVars, value, thresholds, posHyst, negHyst, status, enA,
                 enD, eventsEnabled, config, power>>

\* handle_set_power and ipmi_mc_set_power(mc, p, 1): on a change, an OEM
\* record (type 0xc0) to the receiver; events_enabled plays no part.
SetPower(p) ==
  /\ power' = p
  /\ IF p = power \/ receiver # RcvAddr
     THEN emitted' = <<>> /\ UNCHANGED selVars
     ELSE /\ emitted' = <<PowerEvent>>
          /\ Sel!SetLog(Sel!McAddToSel(Sel!Log, 192, 4))
          /\ UNCHANGED <<selDevice, maxCount, flags, reservation, freed, last>>
  /\ reply' = [cmd |-> "SetPower", cc |-> OK_CC, gen |-> TRUE]
  /\ UNCHANGED <<value, thresholds, posHyst, negHyst, status, enA, enD,
                 eventsEnabled, config, receiver>>

\* A client request that changes the receiver's SEL: delete or erase.
SelClient ==
  /\ \/ \E rid \in Sel!Ids : Sel!DeleteSelEntry(0, rid)
     \/ Sel!ClearSel(0, TRUE, 0)
  /\ emitted' = <<>>
  /\ UNCHANGED <<sensorVars, reply>>

-----------------------------------------------------------------------------

\* The receiving SEL after ipmi_mc_enable_sel; the sensor after
\* ipmi_mc_add_sensor and the configuration's set_hysteresis,
\* set_threshold and set_event_support (which check nothing); the MC's
\* event receiver is 0x20 and its power 0, as ipmi_emu_add_mc leaves them.
Init ==
  /\ Sel!Init
  /\ value = 0
  /\ thresholds \in [Supported -> Values]
  /\ posHyst \in Hysteresis /\ negHyst \in Hysteresis
  /\ status = {}
  /\ enA \in SUBSET Bits(EnableBits) /\ enD \in SUBSET Bits(EnableBits)
  /\ eventsEnabled \in BOOLEAN
  /\ config \in Configs
  /\ receiver = RcvAddr
  /\ power = 0
  /\ emitted = <<>>
  /\ reply = [cmd |-> "none", cc |-> OK_CC, gen |-> FALSE]

\* The masks of a Set Sensor Event Enable row whose first byte is at
\* index k: read only for ops 1 and 2 and when data_len exceeds k.
Masks(op, len, k) ==
  IF op \in {1, 2} /\ len > k THEN SUBSET EnableBits ELSE {{}}

Halted == ub /\ UNCHANGED vars

Next ==
  \/ Halted
  \/ ~ub /\ \E v \in Values, gen \in BOOLEAN : SetValue(v, gen)
  \/ ~ub /\ \E mask \in SUBSET Supported, t \in [Supported -> Values] :
              SetThresholds(mask, t)
  \/ ~ub /\ SetThresholds({Unsupported}, thresholds)
  \/ ~ub /\ \E ph, nh \in Hysteresis : SetHysteresis(ph, nh)
  \/ ~ub /\ \E ev \in BOOLEAN, op \in 0..3, len \in {2, 4, 6} :
              \E mA \in Masks(op, len, 2), mD \in Masks(op, len, 4) :
                SetEventEnable(ev, op, len, mA, mD)
  \/ ~ub /\ \E a \in Addrs : SetEventReceiver(a)
  \/ ~ub /\ \E p \in {0, 1} : SetPower(p)
  \/ ~ub /\ SelClient

Spec == Init /\ [][Next]_vars

-----------------------------------------------------------------------------
(* Properties                                                              *)

TypeOK ==
  /\ value \in Values /\ thresholds \in [Supported -> Values]
  /\ posHyst \in Hysteresis /\ negHyst \in Hysteresis
  /\ status \subseteq 0..14 /\ enA \subseteq 0..14 /\ enD \subseteq 0..14
  /\ eventsEnabled \in BOOLEAN /\ receiver \in {RcvAddr} \cup {a - (a % 2) : a \in Addrs}
  /\ power \in {0, 1}
  /\ emitted \in Seq([off : -1..14, dir : {0, 1}])
  /\ reply.cc \in {NoCC, OK_CC, INVALID_CMD_CC, INVALID_DATA_FIELD_CC}

\* IPMI's threshold semantics, as the spec's "Threshold evaluation" states
\* it: a lower threshold is crossed at or below it, an upper one at or
\* above it; a crossed threshold is released once the reading is beyond
\* it by more than the hysteresis.
Crossed(i, v, t) == IF i < 3 THEN v <= t[i] ELSE v >= t[i]
Released(i, v, t, ph, nh) == IF i < 3 THEN v > t[i] + nh ELSE v < t[i] - ph

\* The IPMI event offset of threshold i: going low for lower thresholds,
\* going high for upper ones (IPMI table 42-2).
ThresholdOffset == <<0, 2, 4, 7, 9, 11>>

CheckStep ==
  reply'.cmd \in {"SetValue", "SetThresholds"} /\ reply'.cc = OK_CC

\* After each value or threshold change (check_thresholds), every
\* threshold the reading has crossed is marked asserted in event_status.
StatusSoundAfterCheck ==
  [][CheckStep =>
       \A i \in Supported : Crossed(i, value', thresholds') => i \in status']_vars

\* No step of any handler asserts the event status of a threshold the
\* reading has not crossed, or deasserts one the reading has not released
\* (by the hysteresis in force).
StatusTransitionsJustified ==
  [][\A i \in Supported :
       /\ i \in status' \ status => Crossed(i, value', thresholds')
       /\ i \in status \ status' =>
            Released(i, value', thresholds', posHyst', negHyst')]_vars

\* When events reach the receiver (receiver set and present, events
\* enabled, gen_event), a value or threshold change hands ipmi_mc_add_to_sel
\* exactly one event per threshold whose status changed and whose
\* assertion or deassertion event is enabled, with IPMI's offset.
EventsMatchStatusChanges ==
  [][(CheckStep /\ receiver = RcvAddr /\ eventsEnabled /\ reply'.gen) =>
       Range(emitted') =
         {[off |-> ThresholdOffset[i+1], dir |-> 0] :
            i \in {j \in status' \ status : ThresholdOffset[j+1] \in enA}}
         \cup
         {[off |-> ThresholdOffset[i+1], dir |-> 1] :
            i \in {j \in status \ status' : ThresholdOffset[j+1] \in enD}}]_vars

\* Spec 5: the event an operation emits is in the receiver's SEL when the
\* operation returns (do_event and ipmi_mc_set_power ignore the result of
\* ipmi_mc_add_to_sel).
EventsStored ==
  [][emitted' # <<>> => Len(entries') = Len(entries) + Len(emitted')]_vars

\* Every Set Sensor Event Enable request gets a completion code.
SetEventEnableAnswers == reply.cc # NoCC

\* Spec property 8: with the thresholds fixed and no hysteresis, raising
\* the reading (ipmi_mc_sensor_set_value) never clears an upper-threshold
\* assertion and never sets a lower-threshold assertion.
MonotoneInValue ==
  [][(reply'.cmd = "SetValue" /\ value' > value /\ thresholds' = thresholds
      /\ posHyst = 0 /\ negHyst = 0) =>
       \A i \in Supported :
         /\ (i >= 3 /\ i \in status) => i \in status'
         /\ (i < 3 /\ i \notin status) => i \notin status']_vars

=============================================================================
