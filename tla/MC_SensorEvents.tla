-------------------------- MODULE MC_SensorEvents --------------------------
(***************************************************************************)
(* SensorEvents for TLC: a receiving SEL of at most 2 records with 2-bit  *)
(* ids; readings and thresholds 0..2, hysteresis 0..1; one lower (0) and  *)
(* one upper (3) threshold, whose events use enable bits 0 and 7.        *)
(* MCEnableBits leaves out bit 15; MCEnableBitsAll includes it.           *)
(***************************************************************************)
EXTENDS SensorEvents

MCMaxCounts     == {1}
MCRecordTypes   == {2}
MCValues        == 0..2
MCHysteresis    == {0, 1}
MCSupported     == {0, 3}
MCEnableBits    == {0, 7}
MCEnableBitsAll == {0, 7, 15}
\* Everything settable and per-event enables; or nothing settable, no
\* IPMB event generation and enables for the entire sensor only.
\* 0x21, masked to the receiver 0x20 itself, and 0x22, where no MC sits
\* (which do_event treats as it treats 0).
MCAddrs == {33, 34}

MCConfigs ==
  {[thrSettable |-> TRUE, hystSettable |-> TRUE, eventSupport |-> "per_event",
    eventGen |-> TRUE],
   [thrSettable |-> FALSE, hystSettable |-> FALSE, eventSupport |-> "entire",
    eventGen |-> FALSE]}

\* States are told apart by the program's state alone: the responses
\* (last, reply) and the events of the last step (emitted) are written by
\* every step that the properties look at and read by none.
MCView == <<selDevice, entries, count, maxCount, flags, reservation,
            nextEntry, freed, adds, ub, sensorVars>>

\* The receiver is a SEL device that supports Delete SEL Entry; its other
\* configurations are SelStore's own runs.
MCInit == Init /\ selDevice /\ flags = {"delete"}

=============================================================================
