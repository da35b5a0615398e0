---------------------------- MODULE MC_SdrStore ----------------------------
(***************************************************************************)
(* SdrStore for TLC: 2-bit record ids (a 16-bit space scaled down, so the *)
(* id search wraps and fills up) and up to two SDRs from the               *)
(* configuration; a 2-bit time on the wire and a wall clock of 0..2 s.  *)
(***************************************************************************)
EXTENDS SdrStore

MCConfigSdrs == {0, 2}

\* The MC is added one second after the epoch, so that the offset it
\* starts with is not 0; the clock then runs to MaxTime.
MCBootTimes == {1}

\* The state as the sdr_safety properties see it.  last_add_time and
\* last_erase_time reach nothing but the Get SDR Repository Info answer,
\* and the answers other than Get SDR Repository Time reach no property:
\* states that differ only there have the same futures for them.
SdrView ==
  <<sdrDevice, store, now, timeOffset, timeSet, fault,
    IF last.cmd = "GetSdrTime" THEN last ELSE "other">>

=============================================================================
